-------------------------- MODULE CollectionsProofs --------------------------
(***************************************************************************)
(* Objects and their shapes, a Map and its iterators, for any number of    *)
(* each: the references of what is shared are exact, so that nothing is    *)
(* freed early and nothing is changed under another user.                  *)
(***************************************************************************)
EXTENDS MapIterators, Shapes, FiniteSetTheorems, SequenceTheorems, TLAPS

-----------------------------------------------------------------------------
(***************************************************************************)
(* Shapes: the inductive invariant                                         *)
(***************************************************************************)

\* The objects that have the shape at a.
Users(ob, a) == {o \in Objects : ob[o] # Nil /\ ob[o].shape = a}

\* There is a hashed shape at a.
IsHashed(sh, a) == sh[a] # Nil /\ sh[a].hashed

\* find_hashed_shape_prop takes one for the other.
Alike(s, t) == s.proto = t.proto /\ s.props = t.props

\* The types of the heap.
Typed(sh, ob, bk) ==
    /\ sh \in [Addr -> Shape \cup {Nil}]
    /\ ob \in [Objects -> Object \cup {Nil}]
    /\ bk \in [Hashes -> SUBSET Addr]

\* The hash table has the hashed shapes, each in its bucket.
Tabled(sh, bk) ==
    \A h \in Hashes, a \in Addr : a \in bk[h] <=> IsHashed(sh, a) /\ sh[a].hash = h

\* A shape counts its objects, and one that is not hashed has one.
Counted(sh, ob) ==
    \A a \in Addr : sh[a] # Nil =>
        /\ sh[a].refs = Cardinality(Users(ob, a))
        /\ ~sh[a].hashed => sh[a].refs = 1

\* No two hashed shapes are alike.
Distinct(sh) ==
    \A a, b \in Addr : a # b /\ IsHashed(sh, a) /\ IsHashed(sh, b) => ~Alike(sh[a], sh[b])

\* A hashed shape has its hash and no deleted property.
Tidy(s) ==
    s.hashed => s.hash = Len(s.props) % 2 /\ \A k \in DOMAIN s.props : s.props[k] # Deleted

\* A shape has memory for its properties.
Good(s) == s \in Shape /\ Tidy(s) /\ Len(s.props) <= s.size /\ InitSize <= s.size

\* The object x has memory for what the shape s names.
Fits(x, s) == x.size = s.size /\ Len(x.values) = Len(s.props)

\* Every object has a shape that is there.
Placed(sh, ob) ==
    \A o \in Objects : ob[o] # Nil => sh[ob[o].shape] # Nil /\ Fits(ob[o], sh[ob[o].shape])

\* A heap of shapes, objects and buckets that is in order.
HeapInv(sh, ob, bk) ==
    /\ Typed(sh, ob, bk) /\ Tabled(sh, bk) /\ Counted(sh, ob) /\ Distinct(sh) /\ Placed(sh, ob)
    /\ \A a \in Addr : sh[a] # Nil => Good(sh[a])

\* The inductive invariant of Shapes.
ShapesInv == HeapInv(shape, object, buckets)

-----------------------------------------------------------------------------
\* A shape has finitely many objects.
LEMMA UsersFinite ==
    ASSUME NEW ob, NEW a
    PROVE  IsFiniteSet(Users(ob, a)) /\ Cardinality(Users(ob, a)) \in Nat
<1>1. IsFiniteSet(Objects) /\ Users(ob, a) \subseteq Objects
    BY ShapesAssumption DEF Users
<1>2. IsFiniteSet(Users(ob, a))
    BY <1>1, FS_Subset
<1> QED BY <1>2, FS_CardinalityType

\* Free memory is neither a shape nor an object.
LEMMA NilApart ==
    ASSUME NEW s \in Shape \cup Object
    PROVE  s # Nil
BY ShapesAssumption

\* The fields of a shape.
LEMMA ShapeTypes ==
    ASSUME NEW s \in Shape
    PROVE  /\ s.proto \in Protos /\ s.props \in Seq(Prop) /\ s.size \in Nat
           /\ s.hashed \in BOOLEAN /\ s.hash \in Hashes /\ s.refs \in Nat \ {0}
           /\ Len(s.props) \in Nat /\ DOMAIN s.props = 1..Len(s.props)
           /\ s # Nil
BY NilApart DEF Shape

\* The fields of an object.
LEMMA ObjectTypes ==
    ASSUME NEW x \in Object
    PROVE  /\ x.shape \in Addr /\ x.size \in Nat /\ x.values \in Seq(Atoms \cup {Nil})
           /\ Len(x.values) \in Nat /\ DOMAIN x.values = 1..Len(x.values)
           /\ x # Nil
BY NilApart DEF Object

\* There is an address for a new shape.
LEMMA Room ==
    ASSUME NEW sh, NEW ob, NEW bk, HeapInv(sh, ob, bk)
    PROVE  \E a \in Addr : sh[a] = Nil
<1>1. SUFFICES ASSUME \A a \in Addr : sh[a] # Nil
               PROVE  FALSE
    OBVIOUS
<1>2. \A a \in Addr : \E o \in Objects : ob[o].shape = a
  <2>1. ASSUME NEW a \in Addr
        PROVE  \E o \in Objects : ob[o].shape = a
    <3>1. sh[a] # Nil /\ sh[a] \in Shape /\ sh[a].refs = Cardinality(Users(ob, a))
        BY <1>1, <2>1 DEF HeapInv, Typed, Counted
    <3>2. Cardinality(Users(ob, a)) # 0
        BY <3>1, ShapeTypes
    <3>3. Users(ob, a) # {}
        BY <3>2, FS_EmptySet
    <3> QED BY <3>3 DEF Users
  <2> QED BY <2>1
<1>3. PICK f : f = [a \in Addr |-> CHOOSE o \in Objects : ob[o].shape = a]
    OBVIOUS
<1>4. f \in [Addr -> Objects] /\ \A a \in Addr : ob[f[a]].shape = a
    BY <1>2, <1>3
<1>5. \E a, b \in Addr : a # b /\ f[a] = f[b]
    BY <1>4, ShapesAssumption, FS_PigeonHole
<1> QED BY <1>4, <1>5

-----------------------------------------------------------------------------
(***************************************************************************)
(* Objects leave, join and found shapes                                    *)
(***************************************************************************)

\* t is s with another count of references.
Recounted(s, t) ==
    /\ t \in Shape /\ Alike(s, t) /\ t.size = s.size /\ t.hash = s.hash
    /\ t.hashed <=> s.hashed

\* o is x now.
Put(ob, o, x, o1) == o1 = [ob EXCEPT ![o] = x]

\* o leaves its shape, which goes with its last object.
Leaves(sh, ob, bk, o, s1, o1, b1) ==
    LET a == ob[o].shape IN
    /\ Put(ob, o, Nil, o1)
    /\ s1 = [sh EXCEPT ![a] = IF sh[a].refs > 1 THEN [sh[a] EXCEPT !.refs = @ - 1] ELSE Nil]
    /\ b1 = [h \in Hashes |-> IF sh[a].refs > 1 THEN bk[h] ELSE bk[h] \ {a}]

\* o comes to the shape at b, as the object x.
Joins(sh, ob, bk, o, b, x, s1, o1, b1) ==
    /\ Put(ob, o, x, o1)
    /\ s1 = [sh EXCEPT ![b] = [sh[b] EXCEPT !.refs = @ + 1]]
    /\ b1 = bk

\* o gets the new shape t at c, as the object x.
Founds(sh, ob, bk, o, c, t, x, s1, o1, b1) ==
    /\ Put(ob, o, x, o1)
    /\ s1 = [sh EXCEPT ![c] = t]
    /\ b1 = [h \in Hashes |-> IF t.hashed /\ t.hash = h THEN bk[h] \cup {c} ELSE bk[h]]

\* An object that goes, or comes, is counted for its shape alone.
LEMMA UsersLose ==
    ASSUME NEW ob \in [Objects -> Object \cup {Nil}], NEW o \in Objects, ob[o] # Nil,
           NEW o1, Put(ob, o, Nil, o1)
    PROVE  /\ o1 \in [Objects -> Object \cup {Nil}] /\ o1[o] = Nil
           /\ \A p \in Objects \ {o} : o1[p] = ob[p]
           /\ Users(o1, ob[o].shape) = Users(ob, ob[o].shape) \ {o}
           /\ \A b : b # ob[o].shape => Users(o1, b) = Users(ob, b)
<1>1. /\ o1 \in [Objects -> Object \cup {Nil}] /\ o1[o] = Nil
      /\ \A p \in Objects \ {o} : o1[p] = ob[p]
    BY DEF Put
<1> QED BY <1>1 DEF Users

LEMMA UsersGain ==
    ASSUME NEW ob \in [Objects -> Object \cup {Nil}], NEW o \in Objects, ob[o] = Nil,
           NEW x \in Object, NEW o1, Put(ob, o, x, o1)
    PROVE  /\ o1 \in [Objects -> Object \cup {Nil}] /\ o1[o] = x /\ x # Nil
           /\ \A p \in Objects \ {o} : o1[p] = ob[p]
           /\ Users(o1, x.shape) = Users(ob, x.shape) \cup {o}
           /\ \A b : b # x.shape => Users(o1, b) = Users(ob, b)
<1>1. /\ o1 \in [Objects -> Object \cup {Nil}] /\ o1[o] = x /\ x # Nil
      /\ \A p \in Objects \ {o} : o1[p] = ob[p]
    BY ObjectTypes DEF Put
<1> QED BY <1>1 DEF Users

\* The count of a shape does not matter to its other parts.
LEMMA RecountedGood ==
    ASSUME NEW s, NEW t, Good(s), Recounted(s, t)
    PROVE  Good(t) /\ \A x : Fits(x, s) => Fits(x, t)
BY DEF Good, Recounted, Alike, Tidy, Fits

\* An object may leave its shape: the heap is in order without it.
LEMMA Left ==
    ASSUME NEW sh, NEW ob, NEW bk, HeapInv(sh, ob, bk), NEW o \in Objects, ob[o] # Nil,
           NEW s1, NEW o1, NEW b1, Leaves(sh, ob, bk, o, s1, o1, b1)
    PROVE  HeapInv(s1, o1, b1) /\ o1[o] = Nil
<1>1. PICK a : a = ob[o].shape
    OBVIOUS
<1>2. /\ ob[o] \in Object /\ a \in Addr /\ sh[a] # Nil /\ Good(sh[a])
      /\ Typed(sh, ob, bk) /\ Tabled(sh, bk) /\ Counted(sh, ob) /\ Distinct(sh) /\ Placed(sh, ob)
    BY <1>1, ObjectTypes DEF HeapInv, Typed, Placed
<1>3. /\ sh[a] \in Shape /\ sh[a].refs \in Nat \ {0} /\ sh[a].refs = Cardinality(Users(ob, a))
    BY <1>2, ShapeTypes DEF Good, Counted
<1>4. /\ o1 \in [Objects -> Object \cup {Nil}] /\ o1[o] = Nil
      /\ \A p \in Objects \ {o} : o1[p] = ob[p]
      /\ Users(o1, a) = Users(ob, a) \ {o}
      /\ \A b : b # a => Users(o1, b) = Users(ob, b)
  <2>1. Put(ob, o, Nil, o1) /\ ob \in [Objects -> Object \cup {Nil}]
      BY <1>2 DEF Leaves, Typed
  <2>2. /\ o1 \in [Objects -> Object \cup {Nil}] /\ o1[o] = Nil
        /\ \A p \in Objects \ {o} : o1[p] = ob[p]
        /\ Users(o1, ob[o].shape) = Users(ob, ob[o].shape) \ {o}
        /\ \A b : b # ob[o].shape => Users(o1, b) = Users(ob, b)
      BY <2>1, UsersLose
  <2> QED BY <1>1, <2>2
<1>5. o \in Users(ob, a) /\ Cardinality(Users(o1, a)) = sh[a].refs - 1
  <2>1. o \in Users(ob, a)
      BY <1>1 DEF Users
  <2>2. Cardinality(Users(ob, a) \ {o}) = Cardinality(Users(ob, a)) - 1
      BY <2>1, UsersFinite, FS_RemoveElement
  <2> QED BY <1>3, <1>4, <2>1, <2>2
<1>6. \A b \in Addr \ {a} : s1[b] = sh[b]
    BY <1>1, <1>2 DEF Leaves, Typed
<1>7. CASE sh[a].refs > 1
  <2>1. PICK t : t = [sh[a] EXCEPT !.refs = @ - 1]
      OBVIOUS
  <2>2. s1[a] = t /\ b1 = bk /\ DOMAIN s1 = Addr
      BY <1>1, <1>2, <1>7, <2>1 DEF Leaves, Typed
  <2>3. Recounted(sh[a], t) /\ t.refs = sh[a].refs - 1
      BY <1>3, <1>7, <2>1 DEF Shape, Recounted, Alike
  <2>4. Good(t) /\ t # Nil /\ t \in Shape
      BY <1>2, <2>3, RecountedGood, ShapeTypes DEF Recounted
  <2>5. sh[a].hashed /\ t.hashed
      BY <1>2, <1>7, <2>3 DEF Counted, Recounted
  <2>6. Typed(s1, o1, b1)
      BY <1>2, <1>4, <1>6, <2>2, <2>4 DEF Typed, Leaves
  <2>7. Tabled(s1, b1)
      BY <1>2, <1>6, <2>2, <2>3, <2>4, <2>5 DEF Tabled, IsHashed, Recounted
  <2>8. Counted(s1, o1)
      BY <1>2, <1>4, <1>5, <1>6, <2>2, <2>3, <2>5 DEF Counted
  <2>9. Distinct(s1)
    <3>1. ASSUME NEW b \in Addr, NEW c \in Addr, b # c, IsHashed(s1, b), IsHashed(s1, c)
          PROVE  ~Alike(s1[b], s1[c])
      <4>1. IsHashed(sh, b) /\ IsHashed(sh, c)
          BY <1>2, <1>6, <2>5, <3>1 DEF IsHashed
      <4>2. ~Alike(sh[b], sh[c])
          BY <1>2, <3>1, <4>1 DEF Distinct
      <4>3. /\ s1[b].proto = sh[b].proto /\ s1[b].props = sh[b].props
            /\ s1[c].proto = sh[c].proto /\ s1[c].props = sh[c].props
          BY <1>6, <2>2, <2>3 DEF Recounted, Alike
      <4> QED BY <4>2, <4>3 DEF Alike
    <3> QED BY <3>1 DEF Distinct
  <2>10. Placed(s1, o1)
    <3>1. ASSUME NEW p \in Objects, o1[p] # Nil
          PROVE  s1[o1[p].shape] # Nil /\ Fits(o1[p], s1[o1[p].shape])
      <4>1. p # o /\ o1[p] = ob[p]
          BY <1>4, <3>1
      <4>2. PICK b : b = ob[p].shape
          OBVIOUS
      <4>3. ob[p] \in Object /\ b \in Addr /\ sh[b] # Nil /\ Fits(ob[p], sh[b])
          BY <1>2, <3>1, <4>1, <4>2, ObjectTypes DEF Typed, Placed
      <4>4. s1[b] # Nil /\ Fits(ob[p], s1[b])
          BY <1>2, <1>6, <2>2, <2>3, <2>4, <4>3, RecountedGood
      <4> QED BY <4>1, <4>2, <4>4
    <3> QED BY <3>1 DEF Placed
  <2>11. \A b \in Addr : s1[b] # Nil => Good(s1[b])
      BY <1>6, <2>2, <2>4 DEF HeapInv
  <2> QED BY <1>4, <2>6, <2>7, <2>8, <2>9, <2>10, <2>11 DEF HeapInv
<1>8. CASE ~(sh[a].refs > 1)
  <2>1. s1[a] = Nil /\ DOMAIN s1 = Addr /\ \A h \in Hashes : b1[h] = bk[h] \ {a}
      BY <1>1, <1>2, <1>8 DEF Leaves, Typed
  <2>2. Users(o1, a) = {}
      BY <1>3, <1>5, <1>8, UsersFinite, FS_EmptySet
  <2>3. b1 \in [Hashes -> SUBSET Addr]
      BY <1>1, <1>2, <1>8, <2>1 DEF Leaves, Typed
  <2>4. Typed(s1, o1, b1)
      BY <1>2, <1>4, <1>6, <2>1, <2>3 DEF Typed, Leaves
  <2>5. Tabled(s1, b1)
      BY <1>2, <1>6, <2>1 DEF Tabled, IsHashed
  <2>6. Counted(s1, o1)
      BY <1>2, <1>4, <1>6, <2>1 DEF Counted
  <2>7. Distinct(s1)
      BY <1>2, <1>6, <2>1 DEF Distinct, IsHashed
  <2>8. Placed(s1, o1)
    <3>1. ASSUME NEW p \in Objects, o1[p] # Nil
          PROVE  s1[o1[p].shape] # Nil /\ Fits(o1[p], s1[o1[p].shape])
      <4>1. p # o /\ o1[p] = ob[p]
          BY <1>4, <3>1
      <4>2. PICK b : b = ob[p].shape
          OBVIOUS
      <4>3. ob[p] \in Object /\ b \in Addr /\ sh[b] # Nil /\ Fits(ob[p], sh[b])
          BY <1>2, <3>1, <4>1, <4>2, ObjectTypes DEF Typed, Placed
      <4>4. b # a
          BY <2>2, <3>1, <4>1, <4>2 DEF Users
      <4> QED BY <1>6, <4>1, <4>2, <4>3, <4>4
    <3> QED BY <3>1 DEF Placed
  <2>9. \A b \in Addr : s1[b] # Nil => Good(s1[b])
      BY <1>6, <2>1 DEF HeapInv
  <2> QED BY <1>4, <2>4, <2>5, <2>6, <2>7, <2>8, <2>9 DEF HeapInv
<1> QED BY <1>7, <1>8

\* An object may join a hashed shape that fits it.
LEMMA Joined ==
    ASSUME NEW sh, NEW ob, NEW bk, HeapInv(sh, ob, bk), NEW o \in Objects, ob[o] = Nil,
           NEW b \in Addr, IsHashed(sh, b), NEW x \in Object, x.shape = b, Fits(x, sh[b]),
           NEW s1, NEW o1, NEW b1, Joins(sh, ob, bk, o, b, x, s1, o1, b1)
    PROVE  HeapInv(s1, o1, b1)
<1>1. /\ sh[b] # Nil /\ sh[b].hashed /\ Good(sh[b])
      /\ Typed(sh, ob, bk) /\ Tabled(sh, bk) /\ Counted(sh, ob) /\ Distinct(sh) /\ Placed(sh, ob)
    BY DEF HeapInv, IsHashed
<1>2. /\ sh[b] \in Shape /\ sh[b].refs \in Nat \ {0} /\ sh[b].refs = Cardinality(Users(ob, b))
    BY <1>1, ShapeTypes DEF Good, Counted
<1>3. x # Nil
    BY ObjectTypes
<1>4. /\ o1 \in [Objects -> Object \cup {Nil}] /\ o1[o] = x
      /\ \A p \in Objects \ {o} : o1[p] = ob[p]
      /\ Users(o1, b) = Users(ob, b) \cup {o}
      /\ \A c : c # b => Users(o1, c) = Users(ob, c)
  <2>1. Put(ob, o, x, o1) /\ ob \in [Objects -> Object \cup {Nil}]
      BY <1>1 DEF Joins, Typed
  <2>2. /\ o1 \in [Objects -> Object \cup {Nil}] /\ o1[o] = x
        /\ \A p \in Objects \ {o} : o1[p] = ob[p]
        /\ Users(o1, x.shape) = Users(ob, x.shape) \cup {o}
        /\ \A c : c # x.shape => Users(o1, c) = Users(ob, c)
      BY <2>1, UsersGain
  <2> QED BY <2>2
<1>5. Cardinality(Users(o1, b)) = sh[b].refs + 1
  <2>1. o \notin Users(ob, b)
      BY DEF Users
  <2>2. Cardinality(Users(ob, b) \cup {o}) = Cardinality(Users(ob, b)) + 1
      BY <2>1, UsersFinite, FS_AddElement
  <2> QED BY <1>2, <1>4, <2>2
<1>6. PICK t : t = [sh[b] EXCEPT !.refs = @ + 1]
    OBVIOUS
<1>7. s1[b] = t /\ b1 = bk /\ DOMAIN s1 = Addr /\ \A a \in Addr \ {b} : s1[a] = sh[a]
    BY <1>1, <1>6 DEF Joins, Typed
<1>8. Recounted(sh[b], t) /\ t.refs = sh[b].refs + 1
    BY <1>2, <1>6 DEF Shape, Recounted, Alike
<1>9. Good(t) /\ t # Nil /\ t \in Shape /\ t.hashed
    BY <1>1, <1>8, RecountedGood, ShapeTypes DEF Recounted
<1>10. Typed(s1, o1, b1)
    BY <1>1, <1>4, <1>7, <1>9 DEF Typed, Joins
<1>11. Tabled(s1, b1)
    BY <1>1, <1>7, <1>8, <1>9 DEF Tabled, IsHashed, Recounted
<1>12. Counted(s1, o1)
  <2>1. ASSUME NEW a \in Addr, s1[a] # Nil
        PROVE  s1[a].refs = Cardinality(Users(o1, a)) /\ (~s1[a].hashed => s1[a].refs = 1)
    <3>1. CASE a = b
        BY <1>5, <1>7, <1>8, <1>9, <3>1
    <3>2. CASE a # b
        BY <1>1, <1>4, <1>7, <2>1, <3>2 DEF Counted
    <3> QED BY <3>1, <3>2
  <2> QED BY <2>1 DEF Counted
<1>13. Distinct(s1)
  <2>1. ASSUME NEW a \in Addr, NEW c \in Addr, a # c, IsHashed(s1, a), IsHashed(s1, c)
        PROVE  ~Alike(s1[a], s1[c])
    <3>1. IsHashed(sh, a) /\ IsHashed(sh, c)
        BY <1>1, <1>7, <2>1 DEF IsHashed
    <3>2. ~Alike(sh[a], sh[c])
        BY <1>1, <2>1, <3>1 DEF Distinct
    <3>3. /\ s1[a].proto = sh[a].proto /\ s1[a].props = sh[a].props
          /\ s1[c].proto = sh[c].proto /\ s1[c].props = sh[c].props
        BY <1>7, <1>8 DEF Recounted, Alike
    <3> QED BY <3>2, <3>3 DEF Alike
  <2> QED BY <2>1 DEF Distinct
<1>14. Placed(s1, o1)
  <2>1. ASSUME NEW p \in Objects, o1[p] # Nil
        PROVE  s1[o1[p].shape] # Nil /\ Fits(o1[p], s1[o1[p].shape])
    <3>1. CASE p = o
        BY <1>1, <1>4, <1>7, <1>8, <1>9, <3>1, RecountedGood
    <3>2. CASE p # o
      <4>1. o1[p] = ob[p]
          BY <1>4, <3>2
      <4>2. PICK c : c = ob[p].shape
          OBVIOUS
      <4>3. ob[p] \in Object /\ c \in Addr /\ sh[c] # Nil /\ Fits(ob[p], sh[c])
          BY <1>1, <2>1, <4>1, <4>2, ObjectTypes DEF Typed, Placed
      <4>4. s1[c] # Nil /\ Fits(ob[p], s1[c])
          BY <1>1, <1>7, <1>8, <1>9, <4>3, RecountedGood
      <4> QED BY <4>1, <4>2, <4>4
    <3> QED BY <3>1, <3>2
  <2> QED BY <2>1 DEF Placed
<1>15. \A a \in Addr : s1[a] # Nil => Good(s1[a])
    BY <1>7, <1>9 DEF HeapInv
<1> QED BY <1>10, <1>11, <1>12, <1>13, <1>14, <1>15 DEF HeapInv

\* An object may found a shape of its own, if no hashed one is like it.
LEMMA Founded ==
    ASSUME NEW sh, NEW ob, NEW bk, HeapInv(sh, ob, bk), NEW o \in Objects, ob[o] = Nil,
           NEW c \in Addr, sh[c] = Nil, NEW t, Good(t), t.refs = 1,
           t.hashed => \A a \in Addr : IsHashed(sh, a) => ~Alike(sh[a], t),
           NEW x \in Object, x.shape = c, Fits(x, t),
           NEW s1, NEW o1, NEW b1, Founds(sh, ob, bk, o, c, t, x, s1, o1, b1)
    PROVE  HeapInv(s1, o1, b1)
<1>1. /\ t \in Shape /\ t # Nil
      /\ Typed(sh, ob, bk) /\ Tabled(sh, bk) /\ Counted(sh, ob) /\ Distinct(sh) /\ Placed(sh, ob)
    BY ShapeTypes DEF HeapInv, Good
<1>2. x # Nil
    BY ObjectTypes
<1>3. /\ o1 \in [Objects -> Object \cup {Nil}] /\ o1[o] = x
      /\ \A p \in Objects \ {o} : o1[p] = ob[p]
      /\ Users(o1, c) = Users(ob, c) \cup {o}
      /\ \A a : a # c => Users(o1, a) = Users(ob, a)
  <2>1. Put(ob, o, x, o1) /\ ob \in [Objects -> Object \cup {Nil}]
      BY <1>1 DEF Founds, Typed
  <2>2. /\ o1 \in [Objects -> Object \cup {Nil}] /\ o1[o] = x
        /\ \A p \in Objects \ {o} : o1[p] = ob[p]
        /\ Users(o1, x.shape) = Users(ob, x.shape) \cup {o}
        /\ \A a : a # x.shape => Users(o1, a) = Users(ob, a)
      BY <2>1, UsersGain
  <2> QED BY <2>2
<1>4. Cardinality(Users(o1, c)) = 1
  <2>1. Users(ob, c) = {}
      BY <1>1 DEF Users, Placed
  <2>2. Users(o1, c) = {o}
      BY <1>3, <2>1
  <2> QED BY <2>2, FS_Singleton
<1>5. /\ s1[c] = t /\ DOMAIN s1 = Addr /\ \A a \in Addr \ {c} : s1[a] = sh[a]
      /\ s1 \in [Addr -> Shape \cup {Nil}]
    BY <1>1 DEF Founds, Typed
<1>6. /\ b1 \in [Hashes -> SUBSET Addr]
      /\ \A h \in Hashes, a \in Addr : a \in b1[h] <=> a \in bk[h] \/ (a = c /\ t.hashed /\ t.hash = h)
    BY <1>1 DEF Founds, Typed
<1>7. Typed(s1, o1, b1)
    BY <1>3, <1>5, <1>6 DEF Typed
<1>8. Tabled(s1, b1)
    BY <1>1, <1>5, <1>6 DEF Tabled, IsHashed
<1>9. Counted(s1, o1)
  <2>1. ASSUME NEW a \in Addr, s1[a] # Nil
        PROVE  s1[a].refs = Cardinality(Users(o1, a)) /\ (~s1[a].hashed => s1[a].refs = 1)
    <3>1. CASE a = c
      <4>1. s1[a] = t /\ t.refs = 1
          BY <1>1, <1>5, <3>1
      <4> QED BY <1>4, <3>1, <4>1
    <3>2. CASE a # c
      <4>1. s1[a] = sh[a] /\ Users(o1, a) = Users(ob, a)
          BY <1>3, <1>5, <3>2
      <4> QED BY <1>1, <2>1, <4>1 DEF Counted
    <3> QED BY <3>1, <3>2
  <2> QED BY <2>1 DEF Counted
<1>10. Distinct(s1)
  <2>1. ASSUME NEW a \in Addr, NEW b \in Addr, a # b, IsHashed(s1, a), IsHashed(s1, b)
        PROVE  ~Alike(s1[a], s1[b])
    <3>1. CASE a # c /\ b # c
        BY <1>1, <1>5, <2>1, <3>1 DEF Distinct, IsHashed
    <3>2. CASE a = c
      <4>1. t.hashed /\ IsHashed(sh, b) /\ s1[b] = sh[b]
          BY <1>5, <2>1, <3>2 DEF IsHashed
      <4> QED BY <1>5, <3>2, <4>1 DEF Alike
    <3>3. CASE b = c
      <4>1. t.hashed /\ IsHashed(sh, a) /\ s1[a] = sh[a]
          BY <1>5, <2>1, <3>3 DEF IsHashed
      <4> QED BY <1>5, <3>3, <4>1
    <3> QED BY <3>1, <3>2, <3>3
  <2> QED BY <2>1 DEF Distinct
<1>11. Placed(s1, o1)
  <2>1. ASSUME NEW p \in Objects, o1[p] # Nil
        PROVE  s1[o1[p].shape] # Nil /\ Fits(o1[p], s1[o1[p].shape])
    <3>1. CASE p = o
        BY <1>1, <1>3, <1>5, <3>1
    <3>2. CASE p # o
      <4>1. o1[p] = ob[p]
          BY <1>3, <3>2
      <4>2. PICK a : a = ob[p].shape
          OBVIOUS
      <4>3. ob[p] \in Object /\ a \in Addr /\ sh[a] # Nil /\ Fits(ob[p], sh[a])
          BY <1>1, <2>1, <4>1, <4>2, ObjectTypes DEF Typed, Placed
      <4>4. s1[a] = sh[a]
          BY <1>5, <4>3
      <4> QED BY <4>1, <4>2, <4>3, <4>4
    <3> QED BY <3>1, <3>2
  <2> QED BY <2>1 DEF Placed
<1>12. \A a \in Addr : s1[a] # Nil => Good(s1[a])
    BY <1>5 DEF HeapInv
<1> QED BY <1>7, <1>8, <1>9, <1>10, <1>11, <1>12 DEF HeapInv

-----------------------------------------------------------------------------
(***************************************************************************)
(* What the other objects see of it                                        *)
(***************************************************************************)

\* The objects but o are as they were, and their shapes have what they had.
Aside(sh, ob, o, s1, o1) ==
    \A q \in Objects \ {o} :
        o1[q] = ob[q] /\ (ob[q] # Nil => Alike(s1[ob[q].shape], sh[ob[q].shape]))

\* An object that leaves its shape leaves it to the others.
LEMMA LeftAside ==
    ASSUME NEW sh, NEW ob, NEW bk, HeapInv(sh, ob, bk), NEW o \in Objects, ob[o] # Nil,
           NEW s1, NEW o1, NEW b1, Leaves(sh, ob, bk, o, s1, o1, b1)
    PROVE  Aside(sh, ob, o, s1, o1)
<1>1. PICK a : a = ob[o].shape
    OBVIOUS
<1>2. /\ Typed(sh, ob, bk) /\ Counted(sh, ob) /\ Placed(sh, ob)
      /\ sh \in [Addr -> Shape \cup {Nil}] /\ ob \in [Objects -> Object \cup {Nil}]
    BY DEF HeapInv, Typed
<1>3. a \in Addr /\ sh[a] \in Shape
    BY <1>1, <1>2, ObjectTypes DEF Placed
<1>4. sh[a].refs \in Nat \ {0} /\ sh[a].refs = Cardinality(Users(ob, a))
    BY <1>2, <1>3, ShapeTypes DEF Counted
<1>5. ASSUME NEW q \in Objects \ {o}
      PROVE  o1[q] = ob[q] /\ (ob[q] # Nil => Alike(s1[ob[q].shape], sh[ob[q].shape]))
  <2>1. o1[q] = ob[q]
      BY <1>2, <1>5 DEF Leaves, Put
  <2>2. ASSUME ob[q] # Nil
        PROVE  Alike(s1[ob[q].shape], sh[ob[q].shape])
    <3>1. PICK b : b = ob[q].shape
        OBVIOUS
    <3>2. b \in Addr
        BY <1>2, <1>5, <2>2, <3>1, ObjectTypes
    <3>3. CASE b # a
      <4>1. s1[b] = sh[b]
          BY <1>1, <1>2, <3>2, <3>3 DEF Leaves
      <4> QED BY <3>1, <4>1 DEF Alike
    <3>4. CASE b = a
      <4>1. o \in Users(ob, a) /\ q \in Users(ob, a) \ {o}
          BY <1>1, <1>5, <2>2, <3>1, <3>4 DEF Users
      <4>2. Cardinality(Users(ob, a) \ {o}) = Cardinality(Users(ob, a)) - 1
          BY <4>1, UsersFinite, FS_RemoveElement
      <4>3. IsFiniteSet(Users(ob, a) \ {o})
          BY UsersFinite, FS_RemoveElement
      <4>4. Cardinality(Users(ob, a) \ {o}) # 0
          BY <4>1, <4>3, FS_EmptySet
      <4>5. sh[a].refs > 1
          BY <1>4, <4>2, <4>4
      <4>6. s1[a] = [sh[a] EXCEPT !.refs = @ - 1]
          BY <1>1, <1>2, <1>3, <4>5 DEF Leaves
      <4> QED BY <1>3, <3>1, <3>4, <4>6 DEF Alike, Shape
    <3> QED BY <3>3, <3>4
  <2> QED BY <2>1, <2>2
<1> QED BY <1>5 DEF Aside

\* One that joins a shape finds it with the others.
LEMMA JoinedAside ==
    ASSUME NEW sh, NEW ob, NEW bk, HeapInv(sh, ob, bk), NEW o \in Objects,
           NEW b \in Addr, IsHashed(sh, b), NEW x,
           NEW s1, NEW o1, NEW b1, Joins(sh, ob, bk, o, b, x, s1, o1, b1)
    PROVE  Aside(sh, ob, o, s1, o1) /\ o1[o] = x /\ Alike(s1[b], sh[b])
<1>1. sh \in [Addr -> Shape \cup {Nil}] /\ ob \in [Objects -> Object \cup {Nil}]
    BY DEF HeapInv, Typed
<1>2. sh[b] \in Shape
    BY <1>1 DEF IsHashed
<1>3. \A q \in Objects \ {o} : o1[q] = ob[q]
    BY <1>1 DEF Joins, Put
<1>4. o1[o] = x
    BY <1>1 DEF Joins, Put
<1>5. \A a \in Addr : a # b => s1[a] = sh[a]
    BY <1>1 DEF Joins
<1>6. s1[b] = [sh[b] EXCEPT !.refs = @ + 1]
    BY <1>1 DEF Joins
<1>7. Alike(s1[b], sh[b])
    BY <1>2, <1>6 DEF Alike, Shape
<1>8. \A a \in Addr : Alike(s1[a], sh[a])
    BY <1>5, <1>7 DEF Alike
<1>9. \A q \in Objects : ob[q] # Nil => ob[q].shape \in Addr
    BY <1>1, ObjectTypes
<1> QED BY <1>3, <1>4, <1>7, <1>8, <1>9 DEF Aside

\* One that founds a shape does so where there is none.
LEMMA FoundedAside ==
    ASSUME NEW sh, NEW ob, NEW bk, HeapInv(sh, ob, bk), NEW o \in Objects,
           NEW c \in Addr, sh[c] = Nil, NEW t, NEW x,
           NEW s1, NEW o1, NEW b1, Founds(sh, ob, bk, o, c, t, x, s1, o1, b1)
    PROVE  Aside(sh, ob, o, s1, o1) /\ o1[o] = x /\ s1[c] = t
<1>1. /\ sh \in [Addr -> Shape \cup {Nil}] /\ ob \in [Objects -> Object \cup {Nil}]
      /\ Placed(sh, ob)
    BY DEF HeapInv, Typed
<1>2. \A q \in Objects \ {o} : o1[q] = ob[q]
    BY <1>1 DEF Founds, Put
<1>3. o1[o] = x /\ s1[c] = t
    BY <1>1 DEF Founds, Put
<1>4. \A a \in Addr : a # c => s1[a] = sh[a]
    BY <1>1 DEF Founds
<1>5. \A q \in Objects : ob[q] # Nil => ob[q].shape \in Addr /\ ob[q].shape # c
    BY <1>1, ObjectTypes DEF Placed
<1> QED BY <1>2, <1>3, <1>4, <1>5 DEF Aside, Alike

\* Two such steps of an object are one for the others.
LEMMA AsideTwice ==
    ASSUME NEW sh, NEW ob, NEW o, NEW s1, NEW o1, Aside(sh, ob, o, s1, o1),
           NEW s2, NEW o2, Aside(s1, o1, o, s2, o2)
    PROVE  Aside(sh, ob, o, s2, o2)
BY DEF Aside, Alike

\* After the step o has this prototype, these properties and these values, and
\* every other object has what it had.
Turns(o, proto, props, values) ==
    /\ Aside(shape, object, o, shape', object')
    /\ object'[o] # Nil /\ object'[o].values = values
    /\ shape'[object'[o].shape].proto = proto /\ shape'[object'[o].shape].props = props

\* An object that has left its shape has turned when it has joined another.
LEMMA TurnsJoined ==
    ASSUME NEW s1, NEW o1, NEW b1, HeapInv(s1, o1, b1), NEW o \in Objects,
           Aside(shape, object, o, s1, o1),
           NEW b \in Addr, IsHashed(s1, b), NEW x \in Object, x.shape = b,
           Joins(s1, o1, b1, o, b, x, shape', object', buckets')
    PROVE  Turns(o, s1[b].proto, s1[b].props, x.values)
<1>1. Aside(s1, o1, o, shape', object') /\ object'[o] = x /\ Alike(shape'[b], s1[b])
    BY JoinedAside
<1>2. Aside(shape, object, o, shape', object')
    BY <1>1, AsideTwice
<1>3. x # Nil
    BY ObjectTypes
<1> QED BY <1>1, <1>2, <1>3 DEF Turns, Alike

\* So it has when it has founded one.
LEMMA TurnsFounded ==
    ASSUME NEW s1, NEW o1, NEW b1, HeapInv(s1, o1, b1), NEW o \in Objects,
           Aside(shape, object, o, s1, o1),
           NEW c \in Addr, s1[c] = Nil, NEW t, NEW x \in Object, x.shape = c,
           Founds(s1, o1, b1, o, c, t, x, shape', object', buckets')
    PROVE  Turns(o, t.proto, t.props, x.values)
<1>1. Aside(s1, o1, o, shape', object') /\ object'[o] = x /\ shape'[c] = t
    BY FoundedAside
<1>2. Aside(shape, object, o, shape', object')
    BY <1>1, AsideTwice
<1>3. x # Nil
    BY ObjectTypes
<1> QED BY <1>1, <1>2, <1>3 DEF Turns

-----------------------------------------------------------------------------
(***************************************************************************)
(* The operators of the heap                                               *)
(***************************************************************************)

\* What the operators of the heap do.
IsHeap(m, sh, bk) == m = [shape |-> sh, buckets |-> bk]

\* What Unlink does.
LEMMA UnlinkIs ==
    ASSUME NEW sh, NEW bk, NEW a, NEW m, IsHeap(m, sh, bk)
    PROVE  IsHeap(Unlink(m, a), sh, [bk EXCEPT ![sh[a].hash] = @ \ {a}])
<1>1. m.shape = sh /\ m.buckets = bk
    BY DEF IsHeap
<1>2. PICK h : h = sh[a].hash
    OBVIOUS
<1>3. PICK S : S = bk[h] \ {a}
    OBVIOUS
<1>4. Unlink(m, a) = [m EXCEPT !.buckets[h] = S]
    BY <1>1, <1>2, <1>3 DEF Unlink
<1>5. [m EXCEPT !.buckets[h] = S] = [shape |-> sh, buckets |-> [bk EXCEPT ![h] = S]]
    BY DEF IsHeap
<1>6. [bk EXCEPT ![h] = S] = [bk EXCEPT ![sh[a].hash] = @ \ {a}]
    BY <1>2, <1>3
<1> QED BY <1>4, <1>5, <1>6 DEF IsHeap

\* What Link does.
LEMMA LinkIs ==
    ASSUME NEW sh, NEW bk, NEW a, NEW m, IsHeap(m, sh, bk)
    PROVE  IsHeap(Link(m, a), sh, [bk EXCEPT ![sh[a].hash] = @ \cup {a}])
BY DEF IsHeap, Link

\* What it is to replace a shape.
LEMMA PutShapeIs ==
    ASSUME NEW sh, NEW bk, NEW a, NEW t, NEW m, IsHeap(m, sh, bk)
    PROVE  IsHeap([m EXCEPT !.shape[a] = t], [sh EXCEPT ![a] = t], bk)
BY DEF IsHeap

\* What it is to drop a reference of a shape.
LEMMA RecountIs ==
    ASSUME NEW sh, NEW bk, NEW a, NEW m, IsHeap(m, sh, bk)
    PROVE  IsHeap([m EXCEPT !.shape[a].refs = @ - 1],
                  [sh EXCEPT ![a] = [sh[a] EXCEPT !.refs = @ - 1]], bk)
BY DEF IsHeap

\* What it is to mark a shape as hashed, or as not.
LEMMA RehashIs ==
    ASSUME NEW sh, NEW bk, NEW a, NEW f, NEW m, IsHeap(m, sh, bk)
    PROVE  IsHeap([m EXCEPT !.shape[a].hashed = f],
                  [sh EXCEPT ![a] = [sh[a] EXCEPT !.hashed = f]], bk)
<1>1. PICK v : v = [sh[a] EXCEPT !.hashed = f]
    OBVIOUS
<1>2. [m EXCEPT !.shape[a].hashed = f] = [m EXCEPT !.shape[a] = v]
    BY <1>1 DEF IsHeap
<1>3. IsHeap([m EXCEPT !.shape[a] = v], [sh EXCEPT ![a] = v], bk)
    BY PutShapeIs
<1> QED BY <1>1, <1>2, <1>3

\* An address that is in one bucket is taken out of all of them.
Elsewhere(bk, h, a) == \A g \in Hashes : g # h => a \notin bk[g]
\* To take a out of its bucket is to take it out of all of them.
CutOnce(bk, h, a) == [bk EXCEPT ![h] = @ \ {a}] = [g \in Hashes |-> bk[g] \ {a}]

\* A shape is in no bucket but that of its hash.
LEMMA TakenOut ==
    ASSUME NEW bk \in [Hashes -> SUBSET Addr], NEW h \in Hashes, NEW a, Elsewhere(bk, h, a)
    PROVE  CutOnce(bk, h, a)
BY DEF Elsewhere, CutOnce

\* What FreeShape does: the cases of js_free_shape.
LEMMA FreeShapeIs ==
    ASSUME NEW sh, NEW bk, NEW a, NEW m, IsHeap(m, sh, bk)
    PROVE  /\ sh[a].refs > 1 =>
                 IsHeap(FreeShape(m, a), [sh EXCEPT ![a] = [sh[a] EXCEPT !.refs = @ - 1]], bk)
           /\ ~(sh[a].refs > 1) /\ sh[a].hashed =>
                 IsHeap(FreeShape(m, a), [sh EXCEPT ![a] = Nil], [bk EXCEPT ![sh[a].hash] = @ \ {a}])
           /\ ~(sh[a].refs > 1) /\ ~sh[a].hashed =>
                 IsHeap(FreeShape(m, a), [sh EXCEPT ![a] = Nil], bk)
<1>1. m.shape = sh /\ m.buckets = bk
    BY DEF IsHeap
<1>2. CASE sh[a].refs > 1
  <2>1. FreeShape(m, a) = [m EXCEPT !.shape[a].refs = @ - 1]
      BY <1>1, <1>2 DEF FreeShape
  <2>2. IsHeap(FreeShape(m, a), [sh EXCEPT ![a] = [sh[a] EXCEPT !.refs = @ - 1]], bk)
      BY <2>1, RecountIs
  <2> QED BY <1>2, <2>2
<1>3. CASE ~(sh[a].refs > 1) /\ sh[a].hashed
  <2>1. PICK u : u = Unlink(m, a)
      OBVIOUS
  <2>2. FreeShape(m, a) = [u EXCEPT !.shape[a] = Nil]
      BY <1>1, <1>3, <2>1 DEF FreeShape
  <2>3. IsHeap(u, sh, [bk EXCEPT ![sh[a].hash] = @ \ {a}])
      BY <2>1, UnlinkIs
  <2>4. IsHeap([u EXCEPT !.shape[a] = Nil], [sh EXCEPT ![a] = Nil], [bk EXCEPT ![sh[a].hash] = @ \ {a}])
      BY <2>3, PutShapeIs
  <2> QED BY <1>3, <2>2, <2>4
<1>4. CASE ~(sh[a].refs > 1) /\ ~sh[a].hashed
  <2>1. FreeShape(m, a) = [m EXCEPT !.shape[a] = Nil]
      BY <1>1, <1>4 DEF FreeShape
  <2>2. IsHeap([m EXCEPT !.shape[a] = Nil], [sh EXCEPT ![a] = Nil], bk)
      BY PutShapeIs
  <2> QED BY <1>4, <2>1, <2>2
<1> QED BY <1>2, <1>3, <1>4

\* js_free_shape is what happens when an object leaves its shape.
LEMMA FreeShapeLeaves ==
    ASSUME NEW sh, NEW ob, NEW bk, HeapInv(sh, ob, bk), NEW o \in Objects, ob[o] # Nil,
           NEW s1, NEW o1, NEW b1, Leaves(sh, ob, bk, o, s1, o1, b1),
           NEW m, IsHeap(m, sh, bk)
    PROVE  IsHeap(FreeShape(m, ob[o].shape), s1, b1)
<1>1. PICK a : a = ob[o].shape
    OBVIOUS
<1>2. /\ ob[o] \in Object /\ a \in Addr /\ sh[a] # Nil
      /\ Typed(sh, ob, bk) /\ Tabled(sh, bk)
    BY <1>1, ObjectTypes DEF HeapInv, Typed, Placed
<1>3. sh[a].hash \in Hashes /\ bk \in [Hashes -> SUBSET Addr]
    BY <1>2, ShapeTypes DEF Typed
<1>4. CASE sh[a].refs > 1
  <2>1. s1 = [sh EXCEPT ![a] = [sh[a] EXCEPT !.refs = @ - 1]]
      BY <1>1, <1>4 DEF Leaves
  <2>2. b1 = bk
      BY <1>1, <1>3, <1>4 DEF Leaves
  <2>3. IsHeap(FreeShape(m, a), [sh EXCEPT ![a] = [sh[a] EXCEPT !.refs = @ - 1]], bk)
      BY <1>4, FreeShapeIs
  <2> QED BY <1>1, <2>1, <2>2, <2>3
<1>5. CASE ~(sh[a].refs > 1)
  <2>1. s1 = [sh EXCEPT ![a] = Nil] /\ b1 = [h \in Hashes |-> bk[h] \ {a}]
      BY <1>1, <1>5 DEF Leaves
  <2>2. CASE sh[a].hashed
    <3>1. \A h \in Hashes : h # sh[a].hash => a \notin bk[h]
        BY <1>2 DEF Tabled
    <3>2. [bk EXCEPT ![sh[a].hash] = @ \ {a}] = b1
        BY <1>3, <2>1, <3>1
    <3>3. IsHeap(FreeShape(m, a), [sh EXCEPT ![a] = Nil], [bk EXCEPT ![sh[a].hash] = @ \ {a}])
        BY <1>5, <2>2, FreeShapeIs
    <3> QED BY <1>1, <2>1, <3>2, <3>3
  <2>3. CASE ~sh[a].hashed
    <3>1. \A h \in Hashes : a \notin bk[h]
        BY <1>2, <2>3 DEF Tabled, IsHashed
    <3>2. bk = b1
        BY <1>3, <2>1, <3>1
    <3>3. IsHeap(FreeShape(m, a), [sh EXCEPT ![a] = Nil], bk)
        BY <1>5, <2>3, FreeShapeIs
    <3> QED BY <1>1, <2>1, <3>2, <3>3
  <2> QED BY <2>2, <2>3
<1> QED BY <1>4, <1>5

\* There is always a way to leave, and then an address for a new shape.
LEMMA Leaving ==
    ASSUME NEW sh, NEW ob, NEW bk, NEW o
    PROVE  \E s1, o1, b1 : Leaves(sh, ob, bk, o, s1, o1, b1)
BY DEF Leaves, Put

\* js_new_shape2 and js_clone_shape find memory.
LEMMA FreeAddrIs ==
    ASSUME ShapesInv
    PROVE  FreeAddr \in Addr /\ shape[FreeAddr] = Nil
BY Room DEF ShapesInv, FreeAddr

-----------------------------------------------------------------------------
(***************************************************************************)
(* Shapes: the steps                                                       *)
(***************************************************************************)

\* After the step o is gone, and every other object has what it had.
Goes(o) == Aside(shape, object, o, shape', object') /\ object'[o] = Nil

\* FreeObject keeps the invariant.
LEMMA FreeObjectKeeps ==
    ASSUME ShapesInv, NEW o \in Objects, FreeObject(o)
    PROVE  ShapesInv' /\ Goes(o)
<1>1. HeapInv(shape, object, buckets) /\ object[o] # Nil
    BY DEF ShapesInv, FreeObject, Live
<1>2. PICK s1, o1, b1 : Leaves(shape, object, buckets, o, s1, o1, b1)
    BY Leaving
<1>3. shape' = s1 /\ buckets' = b1
  <2>1. IsHeap(Heap, shape, buckets)
      BY DEF IsHeap, Heap
  <2>2. IsHeap(FreeShape(Heap, object[o].shape), s1, b1)
      BY <1>1, <1>2, <2>1, FreeShapeLeaves
  <2> QED BY <2>2 DEF FreeObject, Becomes, IsHeap
<1>4. object' = o1
    BY <1>2 DEF FreeObject, Leaves, Put
<1>5. HeapInv(s1, o1, b1) /\ o1[o] = Nil
    BY <1>1, <1>2, Left
<1>6. Aside(shape, object, o, s1, o1)
    BY <1>1, <1>2, LeftAside
<1> QED BY <1>3, <1>4, <1>5, <1>6 DEF ShapesInv, Goes

\* NewObject keeps it: the root shape is found, or founded.
LEMMA NewObjectKeeps ==
    ASSUME ShapesInv, NEW o \in Objects, NEW proto \in Protos, NewObject(o, proto)
    PROVE  ShapesInv' /\ Turns(o, proto, <<>>, <<>>)
<1>1. /\ HeapInv(shape, object, buckets) /\ object[o] = Nil
      /\ Typed(shape, object, buckets) /\ Tabled(shape, buckets)
      /\ \A a \in Addr : shape[a] # Nil => Good(shape[a])
    BY DEF ShapesInv, NewObject, Live, HeapInv
<1>2. 0 \in Hashes /\ \A a \in EmptyShapes(proto) : a \in Addr /\ IsHashed(shape, a)
    BY <1>1 DEF EmptyShapes, Typed, Tabled, Hashes
<1>10. Aside(shape, object, o, shape, object)
    BY DEF Aside, Alike
<1>3. ASSUME NEW a \in EmptyShapes(proto), Becomes(Dup(Heap, a)),
             object' = [object EXCEPT ![o] = [shape |-> a, size |-> shape[a].size, values |-> <<>>]]
      PROVE  ShapesInv' /\ Turns(o, proto, <<>>, <<>>)
  <2>1. PICK x : x = [shape |-> a, size |-> shape[a].size, values |-> <<>>]
      OBVIOUS
  <2>2. a \in Addr /\ IsHashed(shape, a) /\ Good(shape[a]) /\ shape[a].props = <<>>
      BY <1>1, <1>2, <1>3 DEF EmptyShapes, IsHashed
  <2>3. shape[a].size \in Nat
      BY <2>2, ShapeTypes DEF Good
  <2>4. x \in Object /\ x.shape = a /\ Fits(x, shape[a])
    <3>1. <<>> \in Seq(Atoms \cup {Nil})
        OBVIOUS
    <3> QED BY <2>1, <2>2, <2>3, <3>1 DEF Object, Fits
  <2>5. Joins(shape, object, buckets, o, a, x, shape', object', buckets')
    <3>1. shape' = [shape EXCEPT ![a].refs = @ + 1] /\ buckets' = buckets
        BY <1>3 DEF Becomes, Dup, Heap
    <3> QED BY <1>3, <2>1, <3>1 DEF Joins, Put
  <2>6. HeapInv(shape', object', buckets')
      BY <1>1, <2>2, <2>4, <2>5, Joined
  <2>7. Turns(o, shape[a].proto, shape[a].props, x.values)
      BY <1>1, <1>10, <2>2, <2>4, <2>5, TurnsJoined
  <2>8. shape[a].proto = proto /\ x.values = <<>>
      BY <1>3, <2>1 DEF EmptyShapes
  <2> QED BY <2>2, <2>6, <2>7, <2>8 DEF ShapesInv
<1>4. ASSUME EmptyShapes(proto) = {}, Becomes(NewShape(Heap, FreeAddr, proto)),
             object' = [object EXCEPT ![o] = [shape |-> FreeAddr, size |-> InitSize, values |-> <<>>]]
      PROVE  ShapesInv' /\ Turns(o, proto, <<>>, <<>>)
  <2>1. PICK c : c = FreeAddr
      OBVIOUS
  <2>2. c \in Addr /\ shape[c] = Nil
      BY <2>1, FreeAddrIs
  <2>3. PICK x : x = [shape |-> c, size |-> InitSize, values |-> <<>>]
      OBVIOUS
  <2>4. PICK t : t = [proto |-> proto, props |-> <<>>, size |-> InitSize,
                      hashed |-> TRUE, hash |-> 0, refs |-> 1]
      OBVIOUS
  <2>5. <<>> \in Seq(Atoms \cup {Nil}) /\ <<>> \in Seq(Prop) /\ InitSize \in Nat
      BY ShapesAssumption
  <2>6. Good(t) /\ t.refs = 1 /\ t.hashed /\ t.hash = 0
      BY <1>2, <2>4, <2>5 DEF Good, Shape, Tidy
  <2>7. x \in Object /\ x.shape = c /\ Fits(x, t)
      BY <2>2, <2>3, <2>4, <2>5 DEF Object, Fits
  <2>8. \A a \in Addr : IsHashed(shape, a) => ~Alike(shape[a], t)
    <3>1. ASSUME NEW a \in Addr, IsHashed(shape, a), Alike(shape[a], t)
          PROVE  FALSE
      <4>1. Good(shape[a]) /\ shape[a].hashed /\ shape[a].props = <<>> /\ shape[a].proto = proto
          BY <1>1, <2>4, <3>1 DEF IsHashed, Alike
      <4>2. shape[a].hash = 0
          BY <4>1 DEF Good, Tidy
      <4>3. a \in EmptyShapes(proto)
          BY <1>1, <1>2, <3>1, <4>1, <4>2 DEF EmptyShapes, Tabled
      <4> QED BY <1>4, <4>3
    <3> QED BY <3>1
  <2>9. Founds(shape, object, buckets, o, c, t, x, shape', object', buckets')
    <3>1. shape' = [shape EXCEPT ![c] = t]
        BY <1>4, <2>1, <2>4 DEF Becomes, NewShape, Link, Heap
    <3>2. shape'[c] = t
        BY <1>1, <2>2, <3>1 DEF Typed
    <3>3. buckets' = [buckets EXCEPT ![shape'[c].hash] = @ \cup {c}]
        BY <1>4, <2>1, <2>4, <3>1 DEF Becomes, NewShape, Link, Heap
    <3>4. buckets' = [h \in Hashes |-> IF t.hashed /\ t.hash = h THEN buckets[h] \cup {c} ELSE buckets[h]]
        BY <1>1, <1>2, <2>6, <3>2, <3>3 DEF Typed
    <3> QED BY <1>4, <2>1, <2>3, <3>1, <3>4 DEF Founds, Put
  <2>10. HeapInv(shape', object', buckets')
      BY <1>1, <2>2, <2>6, <2>7, <2>8, <2>9, Founded
  <2>11. Turns(o, t.proto, t.props, x.values)
      BY <1>1, <1>10, <2>2, <2>7, <2>9, TurnsFounded
  <2>12. t.proto = proto /\ t.props = <<>> /\ x.values = <<>>
      BY <2>3, <2>4
  <2> QED BY <2>10, <2>11, <2>12 DEF ShapesInv
<1> QED BY <1>3, <1>4 DEF NewObject

-----------------------------------------------------------------------------
\* What the invariant says of an object and its shape.
LEMMA ShapeOfLive ==
    ASSUME ShapesInv, NEW o \in Objects, object[o] # Nil
    PROVE  /\ HeapInv(shape, object, buckets)
           /\ object[o] \in Object /\ object[o].shape \in Addr
           /\ ShapeOf(o) # Nil /\ Good(ShapeOf(o)) /\ Fits(object[o], ShapeOf(o))
           /\ ShapeOf(o) = shape[object[o].shape]
           /\ ~ShapeOf(o).hashed => ShapeOf(o).refs = 1
           /\ \A h \in Hashes, a \in Addr :
                 a \in buckets[h] <=> IsHashed(shape, a) /\ shape[a].hash = h
           /\ shape \in [Addr -> Shape \cup {Nil}] /\ object \in [Objects -> Object \cup {Nil}]
           /\ buckets \in [Hashes -> SUBSET Addr]
<1>1. HeapInv(shape, object, buckets)
    BY DEF ShapesInv
<1>2. object[o] \in Object /\ object[o].shape \in Addr
    BY <1>1, ObjectTypes DEF HeapInv, Typed
<1>3. shape[object[o].shape] # Nil /\ Fits(object[o], shape[object[o].shape])
    BY <1>1 DEF HeapInv, Placed
<1> QED BY <1>1, <1>2, <1>3 DEF HeapInv, Typed, Tabled, Counted, ShapeOf

\* The shape of an object of its own, not hashed.
Private(s) == [s EXCEPT !.refs = 1, !.hashed = FALSE]

\* js_shape_prepare_update: the shape of o is its own afterwards.
LEMMA PreparedIs ==
    ASSUME ShapesInv, NEW o \in Objects, object[o] # Nil,
           NEW s1, NEW o1, NEW b1, Leaves(shape, object, buckets, o, s1, o1, b1),
           NEW c, c = PreparedAddr(o)
    PROVE  /\ c \in Addr /\ s1[c] = Nil
           /\ IsHeap(Prepared(o), [s1 EXCEPT ![c] = Private(ShapeOf(o))], b1)
<1>1. PICK a : a = object[o].shape
    OBVIOUS
<1>2. PICK s : s = shape[a]
    OBVIOUS
<1>3. /\ a \in Addr /\ s \in Shape /\ ShapeOf(o) = s
      /\ ~s.hashed => s.refs = 1
      /\ \A h \in Hashes, e \in Addr : e \in buckets[h] <=> IsHashed(shape, e) /\ shape[e].hash = h
      /\ shape \in [Addr -> Shape \cup {Nil}] /\ buckets \in [Hashes -> SUBSET Addr]
    BY <1>1, <1>2, ShapeOfLive DEF Good
<1>4. s.refs \in Nat \ {0} /\ s.hash \in Hashes /\ s # Nil /\ s.hashed \in BOOLEAN
    BY <1>3, ShapeTypes
<1>5. IsHeap(Heap, shape, buckets)
    BY DEF IsHeap, Heap
<1>6. PICK u : u = Private(s)
    OBVIOUS
<1>7. CASE ~s.hashed
  <2>1. c = a /\ Prepared(o) = Heap
      BY <1>1, <1>3, <1>7 DEF PreparedAddr, Prepared
  <2>2. s1 = [shape EXCEPT ![a] = Nil] /\ b1 = [h \in Hashes |-> buckets[h] \ {a}]
    <3>1. ~(s.refs > 1)
        BY <1>3, <1>7
    <3> QED BY <1>1, <1>2, <3>1 DEF Leaves
  <2>3. b1 = buckets
    <3>1. \A h \in Hashes : a \notin buckets[h]
        BY <1>2, <1>3, <1>7 DEF IsHashed
    <3> QED BY <1>3, <2>2, <3>1
  <2>4. u = s
    <3>1. s.hashed = FALSE /\ s.refs = 1
        BY <1>3, <1>4, <1>7
    <3>2. s = [proto |-> s.proto, props |-> s.props, size |-> s.size, hashed |-> s.hashed,
               hash |-> s.hash, refs |-> s.refs]
        BY <1>3 DEF Shape
    <3>3. PICK f : f = s.hashed
        OBVIOUS
    <3>4. PICK n : n = s.refs
        OBVIOUS
    <3>5. [s EXCEPT !.refs = n, !.hashed = f] = s
        BY <3>2, <3>3, <3>4
    <3> QED BY <1>6, <3>1, <3>3, <3>4, <3>5, Zenon DEF Private
  <2>5. s1[a] = Nil /\ [s1 EXCEPT ![a] = u] = shape
      BY <1>2, <1>3, <2>2, <2>4
  <2> QED BY <1>3, <1>5, <1>6, <2>1, <2>3, <2>5
<1>8. CASE s.hashed /\ s.refs = 1
  <2>1. c = a /\ Prepared(o) = [Unlink(Heap, a) EXCEPT !.shape[a].hashed = FALSE]
      BY <1>1, <1>3, <1>8 DEF PreparedAddr, Prepared
  <2>2. s1 = [shape EXCEPT ![a] = Nil] /\ b1 = [h \in Hashes |-> buckets[h] \ {a}]
      BY <1>1, <1>2, <1>3, <1>8 DEF Leaves
  <2>3. [buckets EXCEPT ![s.hash] = @ \ {a}] = b1
    <3>1. \A h \in Hashes : h # s.hash => a \notin buckets[h]
        BY <1>2, <1>3
    <3>2. PICK g : g = s.hash
        OBVIOUS
    <3>3. g \in Hashes /\ Elsewhere(buckets, g, a)
        BY <1>4, <3>1, <3>2 DEF Elsewhere
    <3>4. CutOnce(buckets, g, a)
        BY <1>3, <3>3, TakenOut
    <3> QED BY <2>2, <3>2, <3>4 DEF CutOnce
  <2>4. IsHeap(Unlink(Heap, a), shape, b1)
      BY <1>2, <1>5, <2>3, UnlinkIs
  <2>5. IsHeap(Prepared(o), [shape EXCEPT ![a] = [s EXCEPT !.hashed = FALSE]], b1)
    <3>1. PICK m : m = Unlink(Heap, a)
        OBVIOUS
    <3>2. IsHeap(m, shape, b1)
        BY <2>4, <3>1
    <3>3. IsHeap([m EXCEPT !.shape[a].hashed = FALSE],
                 [shape EXCEPT ![a] = [shape[a] EXCEPT !.hashed = FALSE]], b1)
        BY <3>2, RehashIs
    <3> QED BY <1>2, <2>1, <3>1, <3>3
  <2>6. u = [s EXCEPT !.hashed = FALSE]
      BY <1>3, <1>6, <1>8 DEF Private, Shape
  <2>7. s1[a] = Nil /\ [s1 EXCEPT ![a] = u] = [shape EXCEPT ![a] = u]
      BY <1>3, <2>2
  <2> QED BY <1>3, <1>6, <2>1, <2>5, <2>6, <2>7
<1>9. CASE s.hashed /\ s.refs # 1
  <2>1. c = FreeAddr /\ c \in Addr /\ shape[c] = Nil /\ c # a
      BY <1>2, <1>3, <1>4, <1>9, FreeAddrIs DEF PreparedAddr
  <2>2. Prepared(o) = FreeShape(Clone(Heap, a, c), a)
      BY <1>1, <1>3, <1>9, <2>1 DEF Prepared
  <2>3. PICK sc : sc = [shape EXCEPT ![c] = u]
      OBVIOUS
  <2>4. IsHeap(Clone(Heap, a, c), sc, buckets)
      BY <1>2, <1>6, <2>3 DEF IsHeap, Heap, Clone, Private
  <2>5. sc[a] = s /\ s.refs > 1
      BY <1>2, <1>3, <1>4, <1>9, <2>1, <2>3
  <2>6. PICK v : v = [s EXCEPT !.refs = @ - 1]
      OBVIOUS
  <2>7. IsHeap(FreeShape(Clone(Heap, a, c), a), [sc EXCEPT ![a] = v], buckets)
      BY <2>4, <2>5, <2>6, FreeShapeIs
  <2>8. s1 = [shape EXCEPT ![a] = v] /\ b1 = buckets
      BY <1>1, <1>2, <1>3, <2>5, <2>6 DEF Leaves
  <2>9. s1[c] = Nil /\ [sc EXCEPT ![a] = v] = [s1 EXCEPT ![c] = u]
      BY <1>3, <2>1, <2>3, <2>8
  <2> QED BY <1>3, <1>6, <2>1, <2>2, <2>7, <2>8, <2>9
<1> QED BY <1>4, <1>7, <1>8, <1>9

\* o gets the shape t, at c, after its shape is prepared.
Updates(o, c, t, x) ==
    /\ shape' = [Prepared(o).shape EXCEPT ![c] = t] /\ buckets' = Prepared(o).buckets
    /\ Put(object, o, x, object')

\* An update of an object whose shape is prepared keeps the invariant.
LEMMA UpdateKeeps ==
    ASSUME ShapesInv, NEW o \in Objects, object[o] # Nil,
           NEW c, c = PreparedAddr(o), NEW t, Good(t), ~t.hashed, t.refs = 1,
           NEW x \in Object, x.shape = c, Fits(x, t), Updates(o, c, t, x)
    PROVE  ShapesInv' /\ Turns(o, t.proto, t.props, x.values)
<1>1. PICK s1, o1, b1 : Leaves(shape, object, buckets, o, s1, o1, b1)
    BY Leaving
<1>2. HeapInv(s1, o1, b1) /\ o1[o] = Nil
    BY <1>1, Left DEF ShapesInv
<1>3. c \in Addr /\ s1[c] = Nil /\ IsHeap(Prepared(o), [s1 EXCEPT ![c] = Private(ShapeOf(o))], b1)
    BY <1>1, PreparedIs
<1>4. shape' = [s1 EXCEPT ![c] = t] /\ buckets' = b1
  <2>1. PICK u : u = Private(ShapeOf(o))
      OBVIOUS
  <2>2. Prepared(o).shape = [s1 EXCEPT ![c] = u] /\ Prepared(o).buckets = b1
      BY <1>3, <2>1 DEF IsHeap
  <2>3. [[s1 EXCEPT ![c] = u] EXCEPT ![c] = t] = [s1 EXCEPT ![c] = t]
      OBVIOUS
  <2> QED BY <2>2, <2>3 DEF Updates
<1>5. Founds(s1, o1, b1, o, c, t, x, shape', object', buckets')
  <2>1. Put(o1, o, x, object')
      BY <1>1 DEF Leaves, Put, Updates
  <2>2. buckets' = [h \in Hashes |-> IF t.hashed /\ t.hash = h THEN b1[h] \cup {c} ELSE b1[h]]
      BY <1>2, <1>4 DEF HeapInv, Typed
  <2> QED BY <1>4, <2>1, <2>2 DEF Founds
<1>6. HeapInv(shape', object', buckets')
    BY <1>2, <1>3, <1>5, Founded
<1>7. Aside(shape, object, o, s1, o1)
    BY <1>1, LeftAside DEF ShapesInv
<1>8. Turns(o, t.proto, t.props, x.values)
    BY <1>2, <1>3, <1>5, <1>7, TurnsFounded
<1> QED BY <1>6, <1>8 DEF ShapesInv

-----------------------------------------------------------------------------
\* The shape of an object after a change of s to props and proto, of its own.
LEMMA PrivateTypes ==
    ASSUME NEW s, Good(s)
    PROVE  /\ Private(s) \in Shape /\ ~Private(s).hashed /\ Private(s).refs = 1
           /\ Private(s).props = s.props /\ Private(s).size = s.size
           /\ Private(s).proto = s.proto /\ Private(s).hash = s.hash
           /\ Good(Private(s))
<1>1. s \in Shape /\ s.props \in Seq(Prop) /\ s.size \in Nat /\ s.proto \in Protos /\ s.hash \in Hashes
    BY ShapeTypes DEF Good
<1>2. PICK f : f = FALSE
    OBVIOUS
<1>3. PICK t : t = [s EXCEPT !.refs = 1, !.hashed = f]
    OBVIOUS
<1>4. f \in BOOLEAN
    BY <1>2
<1>5. /\ t \in Shape /\ t.hashed = f /\ t.refs = 1 /\ t.props = s.props /\ t.size = s.size
      /\ t.proto = s.proto /\ t.hash = s.hash
  <2>1. t = [proto |-> s.proto, props |-> s.props, size |-> s.size, hashed |-> f,
             hash |-> s.hash, refs |-> 1]
      BY <1>1, <1>3 DEF Shape
  <2>2. t \in Shape
      BY <1>1, <1>4, <2>1 DEF Shape
  <2> QED BY <2>1, <2>2
<1>6. ~t.hashed
    BY <1>2, <1>5
<1>7. Good(t)
    BY <1>5, <1>6 DEF Good, Tidy
<1>8. t = Private(s)
    BY <1>2, <1>3, Zenon DEF Private
<1> QED BY <1>5, <1>6, <1>7, <1>8

\* What Prepared has at its address.
LEMMA PreparedShape ==
    ASSUME ShapesInv, NEW o \in Objects, object[o] # Nil, NEW c, c = PreparedAddr(o)
    PROVE  c \in Addr /\ Prepared(o).shape[c] = Private(ShapeOf(o)) /\ DOMAIN Prepared(o).shape = Addr
<1>1. PICK s1, o1, b1 : Leaves(shape, object, buckets, o, s1, o1, b1)
    BY Leaving
<1>2. HeapInv(s1, o1, b1)
    BY <1>1, Left DEF ShapesInv
<1>3. c \in Addr /\ IsHeap(Prepared(o), [s1 EXCEPT ![c] = Private(ShapeOf(o))], b1)
    BY <1>1, PreparedIs
<1>4. s1 \in [Addr -> Shape \cup {Nil}]
    BY <1>2 DEF HeapInv, Typed
<1> QED BY <1>3, <1>4 DEF IsHeap

\* The heap after the shape at the address of Prepared is put there.
LEMMA PutPrepared ==
    ASSUME ShapesInv, NEW o \in Objects, object[o] # Nil, NEW c, c = PreparedAddr(o), NEW t, NEW x,
           Becomes([Prepared(o) EXCEPT !.shape[c] = t]), Put(object, o, x, object')
    PROVE  Updates(o, c, t, x)
<1>1. PICK m : m = Prepared(o)
    OBVIOUS
<1>2. PICK sh, bk : IsHeap(m, sh, bk)
    BY <1>1, Leaving, PreparedIs
<1>3. m.shape = sh /\ m.buckets = bk
    BY <1>2 DEF IsHeap
<1>4. IsHeap([m EXCEPT !.shape[c] = t], [sh EXCEPT ![c] = t], bk)
    BY <1>2, PutShapeIs
<1> QED BY <1>1, <1>3, <1>4 DEF IsHeap, Becomes, Updates

\* A change that leaves the number of properties alone.
LEMMA RewriteKeeps ==
    ASSUME ShapesInv, NEW o \in Objects, object[o] # Nil, NEW c, c = PreparedAddr(o),
           NEW t \in Shape, ~t.hashed, t.refs = 1,
           Len(t.props) = Len(ShapeOf(o).props), t.size = ShapeOf(o).size,
           NEW x \in Object, x.shape = c, x.size = object[o].size,
           Len(x.values) = Len(object[o].values), Updates(o, c, t, x)
    PROVE  ShapesInv' /\ Turns(o, t.proto, t.props, x.values)
<1>1. Good(ShapeOf(o)) /\ Fits(object[o], ShapeOf(o))
    BY ShapeOfLive
<1>2. Good(t)
    BY <1>1 DEF Good, Tidy
<1>3. Fits(x, t)
    BY <1>1 DEF Fits
<1> QED BY <1>2, <1>3, UpdateKeeps

\* SetPrototype keeps the invariant.
LEMMA SetPrototypeKeeps ==
    ASSUME ShapesInv, NEW o \in Objects, NEW proto \in Protos, SetPrototype(o, proto)
    PROVE  ShapesInv' /\ Turns(o, proto, ShapeOf(o).props, object[o].values)
<1>1. object[o] # Nil
    BY DEF SetPrototype, Live
<1>2. PICK c : c = PreparedAddr(o)
    OBVIOUS
<1>3. PICK u : u = Private(ShapeOf(o))
    OBVIOUS
<1>4. object[o] \in Object /\ Good(ShapeOf(o)) /\ object \in [Objects -> Object \cup {Nil}]
    BY <1>1, ShapeOfLive
<1>5. /\ u \in Shape /\ ~u.hashed /\ u.refs = 1
      /\ u.props = ShapeOf(o).props /\ u.size = ShapeOf(o).size
    BY <1>3, <1>4, PrivateTypes
<1>6. c \in Addr /\ Prepared(o).shape[c] = u /\ DOMAIN Prepared(o).shape = Addr
    BY <1>1, <1>2, <1>3, PreparedShape
<1>7. PICK t : t = [u EXCEPT !.proto = proto]
    OBVIOUS
<1>8. /\ t \in Shape /\ ~t.hashed /\ t.refs = 1 /\ t.props = u.props /\ t.size = u.size
      /\ t.proto = proto
    BY <1>5, <1>7 DEF Shape
<1>9. PICK x : x = [object[o] EXCEPT !.shape = c]
    OBVIOUS
<1>10. x \in Object /\ x.shape = c /\ x.size = object[o].size /\ x.values = object[o].values
    BY <1>4, <1>6, <1>9 DEF Object
<1>11. Updates(o, c, t, x)
  <2>1. PICK m : m = Prepared(o)
      OBVIOUS
  <2>2. [m EXCEPT !.shape[c].proto = proto] = [m EXCEPT !.shape[c] = t]
    <3>1. (m.shape)[c] = u
        BY <1>6, <2>1
    <3> QED BY <1>7, <3>1
  <2>3. Becomes([m EXCEPT !.shape[c].proto = proto])
      BY <1>2, <2>1 DEF SetPrototype
  <2>4. Put(object, o, x, object')
      BY <1>2, <1>4, <1>9 DEF SetPrototype, Put
  <2>5. Becomes([m EXCEPT !.shape[c] = t])
      BY <2>2, <2>3
  <2> QED BY <1>1, <1>2, <2>1, <2>4, <2>5, PutPrepared
<1>12. ShapesInv' /\ Turns(o, t.proto, t.props, x.values)
    BY <1>1, <1>2, <1>5, <1>8, <1>10, <1>11, RewriteKeeps
<1> QED BY <1>5, <1>8, <1>10, <1>12

\* The property of o at k, named atom, has the flags.
Flagged(o, atom, flags, k) ==
    /\ IsAt(o, atom, k)
    /\ Turns(o, ShapeOf(o).proto,
             [ShapeOf(o).props EXCEPT ![k] = [ShapeOf(o).props[k] EXCEPT !.flags = flags]],
             object[o].values)

\* SetFlags keeps the invariant.
LEMMA SetFlagsKeeps ==
    ASSUME ShapesInv, NEW o \in Objects, NEW atom \in Atoms, NEW flags \in BOOLEAN,
           SetFlags(o, atom, flags)
    PROVE  ShapesInv' /\ \E k : Flagged(o, atom, flags, k)
<1>1. object[o] # Nil
    BY DEF SetFlags, Live
<1>2. PICK c : c = PreparedAddr(o)
    OBVIOUS
<1>3. PICK u : u = Private(ShapeOf(o))
    OBVIOUS
<1>4. object[o] \in Object /\ Good(ShapeOf(o)) /\ object \in [Objects -> Object \cup {Nil}]
    BY <1>1, ShapeOfLive
<1>5. /\ u \in Shape /\ ~u.hashed /\ u.refs = 1
      /\ u.props = ShapeOf(o).props /\ u.size = ShapeOf(o).size /\ u.proto = ShapeOf(o).proto
    BY <1>3, <1>4, PrivateTypes
<1>6. c \in Addr /\ Prepared(o).shape[c] = u /\ DOMAIN Prepared(o).shape = Addr
    BY <1>1, <1>2, <1>3, PreparedShape
<1>7. PICK k \in DOMAIN ShapeOf(o).props :
          IsAt(o, atom, k) /\ Becomes([Prepared(o) EXCEPT !.shape[c].props[k].flags = flags])
    BY <1>2 DEF SetFlags
<1>8. PICK p : p = [u.props[k] EXCEPT !.flags = flags]
    OBVIOUS
<1>9. u.props \in Seq(Prop) /\ p \in Prop
  <2>1. u.props \in Seq(Prop) /\ k \in DOMAIN u.props
      BY <1>5, <1>7, ShapeTypes
  <2>2. PICK r : r = u.props[k]
      OBVIOUS
  <2>3. r \in Prop
      BY <2>1, <2>2
  <2>4. p = [r EXCEPT !.flags = flags]
      BY <1>8, <2>2
  <2>5. p \in Prop
      BY <2>3, <2>4 DEF Prop
  <2> QED BY <2>1, <2>5
<1>10. PICK q : q = [u.props EXCEPT ![k] = p]
    OBVIOUS
<1>11. q \in Seq(Prop) /\ Len(q) = Len(u.props)
    BY <1>5, <1>7, <1>9, <1>10
<1>12. PICK t : t = [u EXCEPT !.props = q]
    OBVIOUS
<1>13. /\ t \in Shape /\ ~t.hashed /\ t.refs = 1 /\ t.props = q /\ t.size = u.size
       /\ t.proto = u.proto
    BY <1>5, <1>11, <1>12 DEF Shape
<1>14. PICK x : x = [object[o] EXCEPT !.shape = c]
    OBVIOUS
<1>15. x \in Object /\ x.shape = c /\ x.size = object[o].size /\ x.values = object[o].values
    BY <1>4, <1>6, <1>14 DEF Object
<1>16. Updates(o, c, t, x)
  <2>1. PICK m : m = Prepared(o)
      OBVIOUS
  <2>2. [m EXCEPT !.shape[c].props[k].flags = flags] = [m EXCEPT !.shape[c] = t]
    <3>1. (m.shape)[c] = u
        BY <1>6, <2>1
    <3> QED BY <1>8, <1>10, <1>12, <3>1
  <2>3. Becomes([m EXCEPT !.shape[c].props[k].flags = flags])
      BY <1>7, <2>1
  <2>4. Put(object, o, x, object')
      BY <1>2, <1>4, <1>14 DEF SetFlags, Put
  <2>5. Becomes([m EXCEPT !.shape[c] = t])
      BY <2>2, <2>3
  <2> QED BY <1>1, <1>2, <2>1, <2>4, <2>5, PutPrepared
<1>17. ShapesInv' /\ Turns(o, t.proto, t.props, x.values)
    BY <1>1, <1>2, <1>5, <1>11, <1>13, <1>15, <1>16, RewriteKeeps
<1>18. Flagged(o, atom, flags, k)
    BY <1>5, <1>7, <1>8, <1>10, <1>13, <1>15, <1>17 DEF Flagged
<1> QED BY <1>17, <1>18

-----------------------------------------------------------------------------
\* The places before k.
Rank(places, k) == Cardinality({j \in places : j < k})

\* Later places have more before them.
LEMMA RankOrder ==
    ASSUME NEW places, IsFiniteSet(places), places \subseteq Nat
    PROVE  /\ Cardinality(places) \in Nat
           /\ \A k \in places : Rank(places, k) \in 0..(Cardinality(places) - 1)
           /\ \A k, l \in places : k < l => Rank(places, k) < Rank(places, l)
<1>1. Cardinality(places) \in Nat
    BY FS_CardinalityType
<1>2. PICK N : N = Cardinality(places)
    OBVIOUS
<1>3. \A k \in places : /\ IsFiniteSet({j \in places : j < k})
                         /\ Rank(places, k) \in 0..(N - 1)
  <2>1. ASSUME NEW k \in places
        PROVE  /\ IsFiniteSet({j \in places : j < k})
               /\ Rank(places, k) \in 0..(N - 1)
    <3>1. PICK B : B = {j \in places : j < k}
        OBVIOUS
    <3>2. B \subseteq places /\ k \in places /\ k \notin B
        BY <3>1
    <3>3. IsFiniteSet(B) /\ Cardinality(B) <= Cardinality(places)
          /\ (Cardinality(places) = Cardinality(B) => places = B)
        BY <3>2, FS_Subset
    <3>4. Cardinality(B) \in Nat /\ Cardinality(B) # N
        BY <1>2, <3>2, <3>3, FS_CardinalityType
    <3> QED BY <1>1, <1>2, <3>1, <3>3, <3>4 DEF Rank
  <2> QED BY <2>1
<1>4. \A k, l \in places : k < l => Rank(places, k) < Rank(places, l)
  <2>1. ASSUME NEW k \in places, NEW l \in places, k < l
        PROVE  Rank(places, k) < Rank(places, l)
    <3>1. PICK B : B = {j \in places : j < k}
        OBVIOUS
    <3>2. PICK C : C = {j \in places : j < l}
        OBVIOUS
    <3>3. B \subseteq C /\ k \in C /\ k \notin B
      <4>1. k \in Nat /\ l \in Nat /\ \A j \in places : j \in Nat
          OBVIOUS
      <4>2. k \in C /\ k \notin B
          BY <2>1, <3>1, <3>2, <4>1
      <4>3. \A j \in places : j < k => j < l
          BY <2>1, <4>1
      <4> QED BY <3>1, <3>2, <4>2, <4>3
    <3>4. IsFiniteSet(B) /\ IsFiniteSet(C)
        BY <1>3, <3>1, <3>2
    <3>5. Cardinality(B) <= Cardinality(C) /\ (Cardinality(C) = Cardinality(B) => C = B)
        BY <3>3, <3>4, FS_Subset
    <3>6. Cardinality(B) \in Nat /\ Cardinality(C) \in Nat
        BY <3>4, FS_CardinalityType
    <3> QED BY <3>1, <3>2, <3>3, <3>5, <3>6 DEF Rank
  <2> QED BY <2>1
<1> QED BY <1>1, <1>2, <1>3, <1>4

\* Numbers in their order: there is one that n - 1 are before.
LEMMA PlaceExists ==
    ASSUME NEW places, IsFiniteSet(places), places \subseteq Nat,
           NEW n \in 1..Cardinality(places)
    PROVE  \E k \in places : Rank(places, k) = n - 1
<1>1. PICK N : N = Cardinality(places)
    OBVIOUS
<1>2. PICK f : f = [k \in places |-> Rank(places, k)]
    OBVIOUS
<1>3. N \in Nat /\ f \in [places -> 0..(N - 1)]
    BY <1>1, <1>2, RankOrder
<1>4. \A k, l \in places : k < l => f[k] < f[l]
    BY <1>2, RankOrder
<1>5. f \in Injection(places, 0..(N - 1))
  <2>1. \A k, l \in places : f[k] = f[l] => k = l
    <3>1. ASSUME NEW k \in places, NEW l \in places, f[k] = f[l]
          PROVE  k = l
      <4>1. k \in Nat /\ l \in Nat /\ f[k] \in Int /\ f[l] \in Int
          BY <1>3
      <4> QED BY <1>4, <3>1, <4>1
    <3> QED BY <3>1
  <2> QED BY <1>3, <2>1 DEF Injection, IsInjective
<1>6. IsFiniteSet(0..(N - 1)) /\ Cardinality(0..(N - 1)) = N
  <2>1. N - 1 \in Int /\ 0 \in Int /\ N \in Nat
      BY <1>3
  <2>2. /\ IsFiniteSet(0..(N - 1))
        /\ Cardinality(0..(N - 1)) = IF 0 > N - 1 THEN 0 ELSE (N - 1) - 0 + 1
      BY <2>1, FS_Interval
  <2> QED BY <2>1, <2>2
<1>7. f \in Surjection(places, 0..(N - 1))
    BY <1>1, <1>5, <1>6, FS_Injection
<1>8. PICK k \in places : f[k] = n - 1
    BY <1>1, <1>3, <1>7 DEF Surjection
<1> QED BY <1>2, <1>8

\* Nth is what it says, and the only one.
LEMMA NthPlace ==
    ASSUME NEW places, IsFiniteSet(places), places \subseteq Nat,
           NEW n \in 1..Cardinality(places)
    PROVE  Nth(places, n) \in places /\ Rank(places, Nth(places, n)) = n - 1
BY PlaceExists DEF Nth, Rank

LEMMA PlaceNth ==
    ASSUME NEW places, IsFiniteSet(places), places \subseteq Nat,
           NEW k \in places, NEW n, n = Rank(places, k) + 1
    PROVE  n \in 1..Cardinality(places) /\ Nth(places, n) = k
<1>1. n \in 1..Cardinality(places) /\ Rank(places, k) = n - 1
  <2>1. PICK r : r = Rank(places, k)
      OBVIOUS
  <2>2. PICK N : N = Cardinality(places)
      OBVIOUS
  <2>3. N \in Nat /\ r \in 0..(N - 1) /\ n = r + 1
      BY <2>1, <2>2, RankOrder
  <2> QED BY <2>1, <2>2, <2>3
<1>2. PICK l : l = Nth(places, n)
    OBVIOUS
<1>3. l \in places /\ Rank(places, l) = n - 1
    BY <1>1, <1>2, NthPlace
<1>4. \A i, j \in places : i < j => Rank(places, i) < Rank(places, j)
    BY RankOrder
<1>5. k \in Nat /\ l \in Nat /\ n - 1 \in Int
    BY <1>1, <1>3
<1>6. ~(k < l) /\ ~(l < k)
  <2>1. PICK r : r = n - 1
      OBVIOUS
  <2>2. r \in Int /\ Rank(places, k) = r /\ Rank(places, l) = r /\ ~(r < r)
      BY <1>1, <1>3, <1>5, <2>1
  <2>3. (k < l => r < r) /\ (l < k => r < r)
      BY <1>3, <1>4, <2>2
  <2> QED BY <2>2, <2>3
<1>7. l = k
    BY <1>5, <1>6
<1> QED BY <1>1, <1>2, <1>7

\* What compact_properties moves is a sequence as long as what it keeps.
LEMMA PackedTypes ==
    ASSUME NEW S, NEW seq \in Seq(S), NEW places \in SUBSET DOMAIN seq
    PROVE  /\ Packed(seq, places) \in Seq(S) /\ Cardinality(places) \in Nat
           /\ Len(Packed(seq, places)) = Cardinality(places)
<1>1. DOMAIN seq = 1..Len(seq) /\ Len(seq) \in Nat
    OBVIOUS
<1>2. IsFiniteSet(DOMAIN seq)
    BY <1>1, FS_Interval
<1>3. IsFiniteSet(places) /\ places \subseteq Nat
    BY <1>1, <1>2, FS_Subset
<1>4. Cardinality(places) \in Nat
    BY <1>3, FS_CardinalityType
<1>5. \A n \in 1..Cardinality(places) : Nth(places, n) \in places
    BY <1>3, NthPlace
<1>6. PICK N : N = Cardinality(places)
    OBVIOUS
<1>7. Packed(seq, places) = [n \in 1..N |-> seq[Nth(places, n)]]
    BY <1>6 DEF Packed
<1>8. \A n \in 1..N : seq[Nth(places, n)] \in S
    BY <1>5, <1>6
<1> QED BY <1>4, <1>6, <1>7, <1>8

\* A shape that compact_properties has rewritten is a good one.
LEMMA CompactedTypes ==
    ASSUME NEW s \in Shape, ~s.hashed, s.refs = 1
    PROVE  /\ Good(Compacted(s)) /\ ~Compacted(s).hashed /\ Compacted(s).refs = 1
           /\ Len(Compacted(s).props) = Cardinality(Kept(s.props))
           /\ Compacted(s).props = Packed(s.props, Kept(s.props)) /\ Compacted(s).proto = s.proto
<1>1. PICK q : q = Packed(s.props, Kept(s.props))
    OBVIOUS
<1>2. PICK n : n = Cardinality(Kept(s.props))
    OBVIOUS
<1>3. s.props \in Seq(Prop) /\ Kept(s.props) \in SUBSET DOMAIN s.props
    BY ShapeTypes DEF Kept
<1>4. q \in Seq(Prop) /\ n \in Nat /\ Len(q) = n
    BY <1>1, <1>2, <1>3, PackedTypes
<1>5. PICK z : z = IF n > InitSize THEN n ELSE InitSize
    OBVIOUS
<1>6. z \in Nat /\ n <= z /\ InitSize <= z
    BY <1>4, <1>5, ShapesAssumption
<1>7. PICK t : t = [s EXCEPT !.props = q, !.size = z]
    OBVIOUS
<1>8. /\ t \in Shape /\ ~t.hashed /\ t.refs = 1 /\ t.props = q /\ t.size = z
      /\ t.proto = s.proto
    BY <1>4, <1>6, <1>7 DEF Shape
<1>9. Good(t)
    BY <1>4, <1>6, <1>8 DEF Good, Tidy
<1>10. t = Compacted(s)
    BY <1>1, <1>2, <1>5, <1>7 DEF Compacted
<1> QED BY <1>1, <1>2, <1>4, <1>8, <1>9, <1>10

\* There is a hole where o had the property at k, or the holes are gone, too.
Emptied(o, k, props, values) ==
    /\ props = [ShapeOf(o).props EXCEPT ![k] = Deleted]
    /\ values = [object[o].values EXCEPT ![k] = Nil]
    /\ \/ Turns(o, ShapeOf(o).proto, props, values)
       \/ Turns(o, ShapeOf(o).proto, Packed(props, Kept(props)), Packed(values, Kept(props)))

\* DeleteProperty keeps the invariant, whether it compacts or not.
LEMMA DeletePropertyKeeps ==
    ASSUME ShapesInv, NEW o \in Objects, NEW atom \in Atoms, DeleteProperty(o, atom)
    PROVE  ShapesInv' /\ \E k, props, values : IsAt(o, atom, k) /\ Emptied(o, k, props, values)
<1>1. object[o] # Nil
    BY DEF DeleteProperty, Live
<1>2. PICK c : c = PreparedAddr(o)
    OBVIOUS
<1>3. PICK m : m = Prepared(o)
    OBVIOUS
<1>4. PICK u : u = (m.shape)[c]
    OBVIOUS
<1>5. PICK k \in DOMAIN ShapeOf(o).props :
          LET s == [u EXCEPT !.props[k] = Deleted]
              v == [object[o].values EXCEPT ![k] = Nil]
          IN /\ IsAt(o, atom, k)
             /\ \/ /\ Becomes([m EXCEPT !.shape[c] = Compacted(s)])
                   /\ object' = [object EXCEPT ![o] = [shape |-> c, size |-> Compacted(s).size,
                                                       values |-> Packed(v, Kept(s.props))]]
                \/ /\ Becomes([m EXCEPT !.shape[c] = s])
                   /\ object' = [object EXCEPT ![o] = [shape |-> c, size |-> @.size, values |-> v]]
    BY <1>2, <1>3, <1>4 DEF DeleteProperty
<1>6. /\ object[o] \in Object /\ Good(ShapeOf(o)) /\ object \in [Objects -> Object \cup {Nil}]
      /\ Fits(object[o], ShapeOf(o))
    BY <1>1, ShapeOfLive
<1>7. c \in Addr /\ u = Private(ShapeOf(o))
    BY <1>1, <1>2, <1>3, <1>4, PreparedShape
<1>8. /\ u \in Shape /\ ~u.hashed /\ u.refs = 1
      /\ u.props = ShapeOf(o).props /\ u.size = ShapeOf(o).size /\ u.proto = ShapeOf(o).proto
    BY <1>6, <1>7, PrivateTypes
<1>9. PICK q : q = [u.props EXCEPT ![k] = Deleted]
    OBVIOUS
<1>10. q \in Seq(Prop) /\ Len(q) = Len(u.props) /\ DOMAIN q = 1..Len(q)
  <2>1. u.props \in Seq(Prop) /\ k \in DOMAIN u.props
      BY <1>5, <1>8, ShapeTypes
  <2>2. Deleted \in Prop
      BY DEF Deleted, Prop
  <2> QED BY <1>9, <2>1, <2>2
<1>11. PICK v : v = [object[o].values EXCEPT ![k] = Nil]
    OBVIOUS
<1>12. v \in Seq(Atoms \cup {Nil}) /\ Len(v) = Len(q) /\ DOMAIN v = 1..Len(v)
  <2>1. object[o].values \in Seq(Atoms \cup {Nil}) /\ Len(object[o].values) = Len(u.props)
      BY <1>6, <1>8, ObjectTypes DEF Fits
  <2>2. PICK w : w = object[o].values
      OBVIOUS
  <2>3. u.props \in Seq(Prop) /\ k \in 1..Len(w)
      BY <1>5, <1>8, <2>1, <2>2, ShapeTypes
  <2>4. w \in Seq(Atoms \cup {Nil}) /\ v = [w EXCEPT ![k] = Nil]
      BY <1>11, <2>1, <2>2
  <2>5. v \in Seq(Atoms \cup {Nil}) /\ Len(v) = Len(w)
      BY <2>3, <2>4
  <2> QED BY <1>10, <2>1, <2>2, <2>5
<1>13. PICK s : s = [u EXCEPT !.props = q]
    OBVIOUS
<1>14. /\ s \in Shape /\ ~s.hashed /\ s.refs = 1 /\ s.props = q /\ s.size = u.size
       /\ s.proto = u.proto
    BY <1>8, <1>10, <1>13 DEF Shape
<1>15. s = [u EXCEPT !.props[k] = Deleted]
    BY <1>9, <1>13
<1>16. CASE /\ Becomes([m EXCEPT !.shape[c] = Compacted(s)])
            /\ object' = [object EXCEPT ![o] = [shape |-> c, size |-> Compacted(s).size,
                                                values |-> Packed(v, Kept(s.props))]]
  <2>1. PICK t : t = Compacted(s)
      OBVIOUS
  <2>2. /\ Good(t) /\ ~t.hashed /\ t.refs = 1 /\ Len(t.props) = Cardinality(Kept(q))
        /\ t.props = Packed(q, Kept(q)) /\ t.proto = u.proto
      BY <1>14, <2>1, CompactedTypes
  <2>3. PICK w : w = Packed(v, Kept(q))
      OBVIOUS
  <2>4. w \in Seq(Atoms \cup {Nil}) /\ Len(w) = Cardinality(Kept(q))
    <3>1. Kept(q) \in SUBSET DOMAIN v
        BY <1>10, <1>12 DEF Kept
    <3> QED BY <1>12, <2>3, <3>1, PackedTypes
  <2>5. t.size \in Nat
      BY <2>2, ShapeTypes DEF Good
  <2>6. PICK x : x = [shape |-> c, size |-> t.size, values |-> w]
      OBVIOUS
  <2>7. x \in Object /\ x.shape = c /\ Fits(x, t)
      BY <1>7, <2>2, <2>4, <2>5, <2>6 DEF Object, Fits
  <2>8. Put(object, o, x, object') /\ Becomes([m EXCEPT !.shape[c] = t])
      BY <1>14, <1>16, <2>1, <2>3, <2>6 DEF Put
  <2>9. Updates(o, c, t, x)
      BY <1>1, <1>2, <1>3, <2>8, PutPrepared
  <2>10. ShapesInv' /\ Turns(o, t.proto, t.props, x.values)
      BY <1>1, <1>2, <2>2, <2>7, <2>9, UpdateKeeps
  <2>11. Turns(o, ShapeOf(o).proto, Packed(q, Kept(q)), Packed(v, Kept(q)))
      BY <1>8, <2>2, <2>3, <2>6, <2>10
  <2>12. Emptied(o, k, q, v)
      BY <1>8, <1>9, <1>11, <2>11 DEF Emptied
  <2> QED BY <1>5, <2>10, <2>12
<1>17. CASE /\ Becomes([m EXCEPT !.shape[c] = s])
            /\ object' = [object EXCEPT ![o] = [shape |-> c, size |-> @.size, values |-> v]]
  <2>1. PICK x : x = [shape |-> c, size |-> object[o].size, values |-> v]
      OBVIOUS
  <2>2. /\ x \in Object /\ x.shape = c /\ x.size = object[o].size
        /\ Len(x.values) = Len(object[o].values)
    <3>1. object[o].size \in Nat /\ Len(object[o].values) = Len(u.props)
        BY <1>6, <1>8, ObjectTypes DEF Fits
    <3> QED BY <1>7, <1>10, <1>12, <2>1, <3>1 DEF Object
  <2>3. Put(object, o, x, object') /\ Becomes([m EXCEPT !.shape[c] = s])
      BY <1>6, <1>17, <2>1 DEF Put
  <2>4. Updates(o, c, s, x)
      BY <1>1, <1>2, <1>3, <2>3, PutPrepared
  <2>5. ShapesInv' /\ Turns(o, s.proto, s.props, x.values)
      BY <1>1, <1>2, <1>8, <1>10, <1>14, <2>2, <2>4, RewriteKeeps
  <2>6. Turns(o, ShapeOf(o).proto, q, v)
      BY <1>8, <1>14, <2>1, <2>5
  <2>7. Emptied(o, k, q, v)
      BY <1>8, <1>9, <1>11, <2>6 DEF Emptied
  <2> QED BY <1>5, <2>5, <2>7
<1> QED BY <1>5, <1>11, <1>15, <1>16, <1>17

-----------------------------------------------------------------------------
\* The shape s with the property p.
Longer(s, p) ==
    [s EXCEPT !.hash = IF s.hashed THEN Mix(@) ELSE @,
              !.size = IF Len(s.props) >= @ THEN Grown(@, Len(s.props) + 1) ELSE @,
              !.props = Append(@, p)]

\* A shape with a property more is a good one.
LEMMA LongerTypes ==
    ASSUME NEW s, Good(s), s.refs = 1, NEW p \in Prop, p # Deleted
    PROVE  /\ Good(Longer(s, p)) /\ Longer(s, p).refs = 1 /\ (Longer(s, p).hashed <=> s.hashed)
           /\ Longer(s, p).props = Append(s.props, p) /\ Longer(s, p).proto = s.proto
           /\ s.hashed => Longer(s, p).hash = Mix(s.hash)
<1>1. /\ s \in Shape /\ s.props \in Seq(Prop) /\ s.size \in Nat /\ Len(s.props) \in Nat
      /\ s.hash \in Hashes /\ Len(s.props) <= s.size /\ InitSize <= s.size
      /\ DOMAIN s.props = 1..Len(s.props)
    BY ShapeTypes DEF Good
<1>2. PICK n : n = Len(s.props)
    OBVIOUS
<1>3. PICK z : z = IF n >= s.size THEN Grown(s.size, n + 1) ELSE s.size
    OBVIOUS
<1>4. z \in Nat /\ n + 1 <= z /\ InitSize <= z
  <2>1. Grown(s.size, n + 1) \in Nat /\ n + 1 <= Grown(s.size, n + 1)
      BY <1>1, <1>2 DEF Grown
  <2>2. InitSize \in Nat
      BY ShapesAssumption
  <2> QED BY <1>1, <1>2, <1>3, <2>1, <2>2
<1>5. PICK h : h = IF s.hashed THEN Mix(s.hash) ELSE s.hash
    OBVIOUS
<1>6. h \in Hashes /\ Mix(s.hash) \in Hashes
    BY <1>1, <1>5 DEF Hashes, Mix
<1>7. PICK q : q = Append(s.props, p)
    OBVIOUS
<1>8. /\ q \in Seq(Prop) /\ Len(q) = n + 1 /\ q[n + 1] = p /\ DOMAIN q = 1..(n + 1)
      /\ \A k \in 1..n : q[k] = s.props[k]
    BY <1>1, <1>2, <1>7
<1>9. PICK t : t = [s EXCEPT !.hash = h, !.size = z, !.props = q]
    OBVIOUS
<1>10. /\ t \in Shape /\ t.refs = 1 /\ t.props = q /\ t.proto = s.proto /\ t.size = z /\ t.hash = h
       /\ t.hashed = s.hashed
    BY <1>1, <1>4, <1>6, <1>8, <1>9 DEF Shape
<1>11. Tidy(t)
  <2>1. CASE s.hashed
    <3>1. s.hash = n % 2 /\ \A k \in 1..n : s.props[k] # Deleted
        BY <1>1, <1>2, <2>1 DEF Good, Tidy
    <3>2. h = (n + 1) % 2
      <4>1. h = ((n % 2) + 1) % 2
          BY <1>5, <2>1, <3>1 DEF Mix
      <4>2. n \in Nat
          BY <1>1, <1>2
      <4>3. \A i \in Nat : ((i % 2) + 1) % 2 = (i + 1) % 2
          OBVIOUS
      <4> QED BY <4>1, <4>2, <4>3
    <3>3. \A k \in DOMAIN q : q[k] # Deleted
        BY <1>1, <1>2, <1>8, <3>1
    <3> QED BY <1>8, <1>10, <3>2, <3>3 DEF Tidy
  <2>2. CASE ~s.hashed
      BY <1>10, <2>2 DEF Tidy
  <2> QED BY <2>1, <2>2
<1>12. Good(t)
    BY <1>4, <1>8, <1>10, <1>11 DEF Good
<1>13. t = Longer(s, p)
    BY <1>2, <1>3, <1>5, <1>7, <1>9 DEF Longer
<1> QED BY <1>5, <1>7, <1>10, <1>12, <1>13

\* What AddShapeProperty does.
LEMMA AddShapePropertyIs ==
    ASSUME NEW sh, NEW bk, NEW a, a \in DOMAIN sh, NEW p, NEW m, IsHeap(m, sh, bk),
           NEW t, t = Longer(sh[a], p)
    PROVE  /\ sh[a].hashed =>
                 IsHeap(AddShapeProperty(m, a, p), [sh EXCEPT ![a] = t],
                        [[bk EXCEPT ![sh[a].hash] = @ \ {a}] EXCEPT ![t.hash] = @ \cup {a}])
           /\ ~sh[a].hashed =>
                 IsHeap(AddShapeProperty(m, a, p), [sh EXCEPT ![a] = t], bk)
<1>1. m.shape = sh /\ m.buckets = bk
    BY DEF IsHeap
<1>2. t = [m.shape[a] EXCEPT
              !.hash = IF m.shape[a].hashed THEN Mix(@) ELSE @,
              !.size = IF Len(m.shape[a].props) >= @ THEN Grown(@, Len(m.shape[a].props) + 1) ELSE @,
              !.props = Append(@, p)]
    BY <1>1 DEF Longer
<1>3. CASE sh[a].hashed
  <2>1. PICK n : n = Unlink(m, a)
      OBVIOUS
  <2>2. PICK k : k = [bk EXCEPT ![sh[a].hash] = @ \ {a}]
      OBVIOUS
  <2>3. IsHeap(n, sh, k)
      BY <2>1, <2>2, UnlinkIs
  <2>4. PICK q : q = [n EXCEPT !.shape[a] = t]
      OBVIOUS
  <2>5. PICK v : v = [sh EXCEPT ![a] = t]
      OBVIOUS
  <2>6. IsHeap(q, v, k) /\ v[a] = t
      BY <2>3, <2>4, <2>5, PutShapeIs
  <2>7. IsHeap(Link(q, a), v, [k EXCEPT ![v[a].hash] = @ \cup {a}])
      BY <2>6, LinkIs
  <2>8. AddShapeProperty(m, a, p) = Link(q, a)
      BY <1>1, <1>2, <1>3, <2>1, <2>4 DEF AddShapeProperty
  <2> QED BY <1>3, <2>2, <2>5, <2>6, <2>7, <2>8
<1>4. CASE ~sh[a].hashed
  <2>1. AddShapeProperty(m, a, p) = [m EXCEPT !.shape[a] = t]
      BY <1>1, <1>2, <1>4 DEF AddShapeProperty
  <2> QED BY <1>4, <2>1, PutShapeIs
<1> QED BY <1>3, <1>4

\* A hashed shape is found.
LEMMA Matches ==
    ASSUME ShapesInv, NEW s, Good(s), s.hashed, NEW p \in Prop,
           NEW b \in Addr, IsHashed(shape, b), shape[b].proto = s.proto,
           shape[b].props = Append(s.props, p)
    PROVE  b \in MatchingShapes(s, p)
<1>1. /\ Good(shape[b]) /\ shape[b].hashed /\ shape[b] \in Shape
      /\ \A h \in Hashes : b \in buckets[h] <=> shape[b].hash = h
    BY DEF ShapesInv, HeapInv, IsHashed, Good, Tabled
<1>2. PICK n : n = Len(s.props)
    OBVIOUS
<1>3. n \in Nat /\ s.props \in Seq(Prop) /\ s.hash = n % 2
    BY <1>2, ShapeTypes DEF Good, Tidy
<1>4. Len(shape[b].props) = n + 1
    BY <1>2, <1>3
<1>5. shape[b].hash = (n + 1) % 2
    BY <1>1, <1>4 DEF Good, Tidy
<1>6. \A i \in Nat : ((i % 2) + 1) % 2 = (i + 1) % 2
    OBVIOUS
<1>7. shape[b].hash = Mix(s.hash)
    BY <1>3, <1>5, <1>6 DEF Mix
<1>8. shape[b].hash \in Hashes
    BY <1>1, ShapeTypes
<1> QED BY <1>1, <1>7, <1>8 DEF MatchingShapes

\* What the three ways of add_property come to.
Extended(o, c, size, atom) ==
    [shape |-> c, size |-> size, values |-> Append(object[o].values, atom)]

\* The shape t has what that of o has and the property p.
HasMore(o, t, p) == t.props = Append(ShapeOf(o).props, p)

\* The object has memory for the property more.
LEMMA ExtendedTypes ==
    ASSUME ShapesInv, NEW o \in Objects, object[o] # Nil, NEW atom \in Atoms,
           NEW c \in Addr, NEW t \in Shape, NEW p, HasMore(o, t, p)
    PROVE  /\ Extended(o, c, t.size, atom) \in Object /\ Extended(o, c, t.size, atom).shape = c
           /\ Fits(Extended(o, c, t.size, atom), t)
<1>1. /\ object[o].values \in Seq(Atoms \cup {Nil}) /\ ShapeOf(o).props \in Seq(Prop)
      /\ Len(object[o].values) = Len(ShapeOf(o).props) /\ t.size \in Nat
    BY ShapeOfLive, ObjectTypes, ShapeTypes DEF Fits, Good
<1>2. PICK w : w = Append(object[o].values, atom)
    OBVIOUS
<1>3. w \in Seq(Atoms \cup {Nil}) /\ Len(w) = Len(object[o].values) + 1
  <2>1. PICK v : v = object[o].values
      OBVIOUS
  <2>2. v \in Seq(Atoms \cup {Nil}) /\ atom \in Atoms \cup {Nil} /\ w = Append(v, atom)
      BY <1>1, <1>2, <2>1
  <2>3. w \in Seq(Atoms \cup {Nil}) /\ Len(w) = Len(v) + 1
      BY <2>2
  <2> QED BY <2>1, <2>3
<1>4. Len(t.props) = Len(ShapeOf(o).props) + 1
    BY <1>1 DEF HasMore
<1> QED BY <1>1, <1>2, <1>3, <1>4 DEF Extended, Object, Fits

\* o has the property p more, with the value atom.
Grows(o, atom, p) ==
    Turns(o, ShapeOf(o).proto, Append(ShapeOf(o).props, p), Append(object[o].values, atom))

\* AddProperty keeps the invariant: it joins a shape, clones its own or
\* changes it.
LEMMA AddPropertyKeeps ==
    ASSUME ShapesInv, NEW o \in Objects, NEW atom \in Atoms, NEW flags \in BOOLEAN,
           AddProperty(o, atom, flags)
    PROVE  ShapesInv' /\ Grows(o, atom, [atom |-> atom, flags |-> flags])
<1>1. object[o] # Nil
    BY DEF AddProperty, Live
<1>2. PICK a : a = object[o].shape
    OBVIOUS
<1>3. PICK s : s = shape[a]
    OBVIOUS
<1>4. PICK p : p = [atom |-> atom, flags |-> flags]
    OBVIOUS
<1>5. PICK found : found = IF s.hashed THEN MatchingShapes(s, p) ELSE {}
    OBVIOUS
<1>6. /\ HeapInv(shape, object, buckets) /\ a \in Addr /\ ShapeOf(o) = s /\ s # Nil /\ Good(s)
      /\ Fits(object[o], s) /\ (~s.hashed => s.refs = 1)
      /\ \A h \in Hashes, b \in Addr : b \in buckets[h] <=> IsHashed(shape, b) /\ shape[b].hash = h
      /\ shape \in [Addr -> Shape \cup {Nil}] /\ object \in [Objects -> Object \cup {Nil}]
      /\ buckets \in [Hashes -> SUBSET Addr]
    BY <1>1, <1>2, <1>3, ShapeOfLive
<1>7. /\ s \in Shape /\ s.props \in Seq(Prop) /\ Len(s.props) \in Nat /\ s.refs \in Nat \ {0}
      /\ s.hash \in Hashes /\ s.hashed \in BOOLEAN /\ object[o].size = s.size
    BY <1>6, ShapeTypes DEF Good, Fits
<1>8. p \in Prop /\ p # Deleted
    BY <1>4, ShapesAssumption DEF Prop, Deleted
<1>9. PICK s1, o1, b1 : Leaves(shape, object, buckets, o, s1, o1, b1)
    BY Leaving
<1>10. HeapInv(s1, o1, b1) /\ o1[o] = Nil /\ Aside(shape, object, o, s1, o1)
    BY <1>1, <1>6, <1>9, Left, LeftAside
<1>11. /\ b1 \in [Hashes -> SUBSET Addr] /\ s1 \in [Addr -> Shape \cup {Nil}]
       /\ \A b \in Addr \ {a} : s1[b] = shape[b]
       /\ \A h \in Hashes, b \in Addr : b \in b1[h] <=> IsHashed(s1, b) /\ s1[b].hash = h
  <2>1. Typed(s1, o1, b1) /\ Tabled(s1, b1)
      BY <1>10 DEF HeapInv
  <2>2. b1 \in [Hashes -> SUBSET Addr] /\ s1 \in [Addr -> Shape \cup {Nil}]
      BY <2>1 DEF Typed
  <2>3. \A b \in Addr \ {a} : s1[b] = shape[b]
      BY <1>2, <1>9 DEF Leaves
  <2>4. \A h \in Hashes, b \in Addr : b \in b1[h] <=> IsHashed(s1, b) /\ s1[b].hash = h
      BY <2>1 DEF Tabled
  <2> QED BY <2>2, <2>3, <2>4
<1>12. IsHeap(Heap, shape, buckets)
    BY DEF IsHeap, Heap
<1>13. ASSUME NEW b \in found, Becomes(FreeShape(Dup(Heap, b), a)),
              object' = Valued(o, b, IF shape[b].size # s.size THEN shape[b].size
                                     ELSE object[o].size, atom)
       PROVE  ShapesInv' /\ Grows(o, atom, p)
  <2>1. s.hashed /\ b \in MatchingShapes(s, p)
      BY <1>5, <1>13
  <2>2. /\ b \in Addr /\ IsHashed(shape, b) /\ shape[b] \in Shape
        /\ shape[b].props = Append(s.props, p) /\ shape[b].proto = s.proto
    <3>1. Mix(s.hash) \in Hashes
        BY <1>7 DEF Hashes, Mix
    <3>2. b \in buckets[Mix(s.hash)] /\ shape[b].props = Append(s.props, p) /\ shape[b].proto = s.proto
        BY <2>1 DEF MatchingShapes
    <3>3. b \in Addr /\ IsHashed(shape, b)
        BY <1>6, <3>1, <3>2
    <3> QED BY <1>6, <3>2, <3>3 DEF IsHashed
  <2>3. b # a
    <3>1. Len(shape[b].props) = Len(s.props) + 1
        BY <1>7, <2>2
    <3> QED BY <1>3, <1>7, <3>1
  <2>4. s1[b] = shape[b] /\ IsHashed(s1, b)
      BY <1>11, <2>2, <2>3 DEF IsHashed
  <2>5. PICK x : x = Extended(o, b, shape[b].size, atom)
      OBVIOUS
  <2>6. x \in Object /\ x.shape = b /\ Fits(x, shape[b])
    <3>1. HasMore(o, shape[b], p)
        BY <1>6, <2>2 DEF HasMore
    <3> QED BY <1>1, <2>2, <2>5, <3>1, ExtendedTypes
  <2>7. Put(object, o, x, object')
      BY <1>6, <1>7, <1>13, <2>5 DEF Put, Valued, Extended
  <2>8. shape' = [s1 EXCEPT ![b] = [s1[b] EXCEPT !.refs = @ + 1]] /\ buckets' = b1
    <3>1. PICK w : w = [shape[b] EXCEPT !.refs = @ + 1]
        OBVIOUS
    <3>2. PICK sd : sd = [shape EXCEPT ![b] = w]
        OBVIOUS
    <3>3. PICK m : m = Dup(Heap, b)
        OBVIOUS
    <3>4. IsHeap(m, sd, buckets) /\ sd[a] = s
        BY <1>3, <1>6, <2>2, <2>3, <3>1, <3>2, <3>3 DEF Dup, Heap, IsHeap
    <3>5. CASE s.refs > 1
      <4>1. PICK v : v = [s EXCEPT !.refs = @ - 1]
          OBVIOUS
      <4>2. IsHeap(FreeShape(m, a), [sd EXCEPT ![a] = v], buckets)
          BY <3>4, <3>5, <4>1, FreeShapeIs
      <4>3. s1 = [shape EXCEPT ![a] = v] /\ b1 = buckets
          BY <1>2, <1>3, <1>6, <1>9, <3>5, <4>1 DEF Leaves
      <4>4. [sd EXCEPT ![a] = v] = [s1 EXCEPT ![b] = w]
          BY <1>6, <2>2, <2>3, <3>2, <4>3
      <4> QED BY <1>13, <2>4, <3>1, <3>3, <4>2, <4>3, <4>4 DEF Becomes, IsHeap
    <3>6. CASE ~(s.refs > 1)
      <4>1. PICK k : k = [buckets EXCEPT ![s.hash] = @ \ {a}]
          OBVIOUS
      <4>2. IsHeap(FreeShape(m, a), [sd EXCEPT ![a] = Nil], k)
          BY <2>1, <3>4, <3>6, <4>1, FreeShapeIs
      <4>3. s1 = [shape EXCEPT ![a] = Nil] /\ b1 = [h \in Hashes |-> buckets[h] \ {a}]
          BY <1>2, <1>3, <1>6, <1>9, <3>6 DEF Leaves
      <4>4. k = b1
        <5>1. PICK g : g = s.hash
            OBVIOUS
        <5>2. g \in Hashes /\ Elsewhere(buckets, g, a)
            BY <1>3, <1>6, <1>7, <5>1 DEF Elsewhere
        <5>3. CutOnce(buckets, g, a)
            BY <1>6, <5>2, TakenOut
        <5> QED BY <4>1, <4>3, <5>1, <5>3 DEF CutOnce
      <4>5. [sd EXCEPT ![a] = Nil] = [s1 EXCEPT ![b] = w]
          BY <1>6, <2>2, <2>3, <3>2, <4>3
      <4> QED BY <1>13, <2>4, <3>1, <3>3, <4>2, <4>4, <4>5 DEF Becomes, IsHeap
    <3> QED BY <3>5, <3>6
  <2>9. Joins(s1, o1, b1, o, b, x, shape', object', buckets')
    <3>1. Put(o1, o, x, object')
        BY <1>9, <2>7 DEF Leaves, Put
    <3> QED BY <2>8, <3>1 DEF Joins
  <2>10. HeapInv(shape', object', buckets')
      BY <1>10, <2>2, <2>4, <2>6, <2>9, Joined
  <2>11. Turns(o, s1[b].proto, s1[b].props, x.values)
      BY <1>10, <2>2, <2>4, <2>6, <2>9, TurnsJoined
  <2>12. Grows(o, atom, p)
      BY <1>6, <2>2, <2>4, <2>5, <2>11 DEF Grows, Extended
  <2> QED BY <2>10, <2>12 DEF ShapesInv
<1>14. ASSUME NEW c \in Addr, s1[c] = Nil, NEW t, Good(t), t.refs = 1, t.hashed <=> s.hashed,
              t.props = Append(s.props, p), t.proto = s.proto, found = {},
              shape' = [s1 EXCEPT ![c] = t],
              buckets' = [h \in Hashes |-> IF t.hashed /\ t.hash = h THEN b1[h] \cup {c} ELSE b1[h]],
              NEW x, x = Extended(o, c, t.size, atom), Put(object, o, x, object')
       PROVE  ShapesInv' /\ Grows(o, atom, p)
  <2>1. x \in Object /\ x.shape = c /\ Fits(x, t)
    <3>1. HasMore(o, t, p) /\ t \in Shape
        BY <1>6, <1>14 DEF HasMore, Good
    <3> QED BY <1>1, <1>14, <3>1, ExtendedTypes
  <2>2. t.hashed => \A b \in Addr : IsHashed(s1, b) => ~Alike(s1[b], t)
    <3>1. ASSUME t.hashed, NEW b \in Addr, IsHashed(s1, b), Alike(s1[b], t)
          PROVE  FALSE
      <4>1. CASE b = a
        <5>1. s1[a].props = s.props
            BY <1>2, <1>3, <1>6, <1>9, <3>1, <4>1 DEF Leaves, IsHashed
        <5>2. s.props = Append(s.props, p)
            BY <1>14, <3>1, <4>1, <5>1 DEF Alike
        <5>3. Len(Append(s.props, p)) = Len(s.props) + 1
            BY <1>7
        <5> QED BY <1>7, <5>2, <5>3
      <4>2. CASE b # a
        <5>1. IsHashed(shape, b) /\ shape[b].proto = s.proto /\ shape[b].props = Append(s.props, p)
            BY <1>11, <1>14, <3>1, <4>2 DEF Alike, IsHashed
        <5>2. s.hashed
            BY <1>14, <3>1
        <5>3. b \in MatchingShapes(s, p)
            BY <1>6, <1>8, <5>1, <5>2, Matches
        <5> QED BY <1>5, <1>14, <5>2, <5>3
      <4> QED BY <4>1, <4>2
    <3> QED BY <3>1
  <2>3. Founds(s1, o1, b1, o, c, t, x, shape', object', buckets')
    <3>1. Put(o1, o, x, object')
        BY <1>9, <1>14 DEF Leaves, Put
    <3> QED BY <1>14, <3>1 DEF Founds
  <2>4. HeapInv(shape', object', buckets')
      BY <1>10, <1>14, <2>1, <2>2, <2>3, Founded
  <2>5. Turns(o, t.proto, t.props, x.values)
      BY <1>10, <1>14, <2>1, <2>3, TurnsFounded
  <2>6. Grows(o, atom, p)
      BY <1>6, <1>14, <2>5 DEF Grows, Extended
  <2> QED BY <2>4, <2>6 DEF ShapesInv
<1>15. ASSUME NEW m, NEW c, found = {}, Becomes(AddShapeProperty(m, c, p)),
              object' = Valued(o, c, IF AddShapeProperty(m, c, p).shape[c].size # s.size
                                     THEN AddShapeProperty(m, c, p).shape[c].size
                                     ELSE object[o].size, atom),
              NEW t, shape' = [s1 EXCEPT ![c] = t], c \in Addr
       PROVE  Put(object, o, Extended(o, c, t.size, atom), object')
  <2>1. AddShapeProperty(m, c, p).shape = shape'
      BY <1>15 DEF Becomes
  <2>2. shape'[c] = t
      BY <1>11, <1>15
  <2>3. object' = Valued(o, c, t.size, atom)
      BY <1>7, <1>15, <2>1, <2>2
  <2> QED BY <1>6, <2>3 DEF Put, Valued, Extended
<1>16. CASE /\ found = {} /\ ~(s.hashed /\ s.refs # 1)
            /\ Becomes(AddShapeProperty(Heap, a, p))
            /\ object' = Valued(o, a, IF AddShapeProperty(Heap, a, p).shape[a].size # s.size
                                      THEN AddShapeProperty(Heap, a, p).shape[a].size
                                      ELSE object[o].size, atom)
  <2>1. s.refs = 1 /\ ~(s.refs > 1)
      BY <1>6, <1>16
  <2>2. PICK t : t = Longer(s, p)
      OBVIOUS
  <2>3. /\ Good(t) /\ t.refs = 1 /\ (t.hashed <=> s.hashed) /\ t.props = Append(s.props, p)
        /\ t.proto = s.proto
      BY <1>6, <1>8, <2>1, <2>2, LongerTypes
  <2>4. t.hash \in Hashes
      BY <2>3, ShapeTypes DEF Good
  <2>5. s1 = [shape EXCEPT ![a] = Nil] /\ b1 = [h \in Hashes |-> buckets[h] \ {a}] /\ s1[a] = Nil
    <3>1. s1 = [shape EXCEPT ![a] = Nil] /\ b1 = [h \in Hashes |-> buckets[h] \ {a}]
        BY <1>2, <1>3, <1>9, <2>1 DEF Leaves
    <3> QED BY <1>6, <3>1
  <2>6. [shape EXCEPT ![a] = t] = [s1 EXCEPT ![a] = t]
      BY <1>6, <2>5
  <2>20. a \in DOMAIN shape /\ t = Longer(shape[a], p) /\ (shape[a].hashed <=> s.hashed)
      BY <1>3, <1>6, <2>2
  <2>7. shape' = [s1 EXCEPT ![a] = t]
        /\ buckets' = [h \in Hashes |-> IF t.hashed /\ t.hash = h THEN b1[h] \cup {a} ELSE b1[h]]
    <3>1. CASE s.hashed
      <4>1. PICK g : g = s.hash
          OBVIOUS
      <4>2. g \in Hashes /\ Elsewhere(buckets, g, a)
          BY <1>3, <1>6, <1>7, <4>1 DEF Elsewhere
      <4>3. CutOnce(buckets, g, a)
          BY <1>6, <4>2, TakenOut
      <4>4. PICK k : k = [buckets EXCEPT ![s.hash] = @ \ {a}]
          OBVIOUS
      <4>5. k = b1
          BY <2>5, <4>1, <4>3, <4>4 DEF CutOnce
      <4>6. IsHeap(AddShapeProperty(Heap, a, p), [shape EXCEPT ![a] = t], [k EXCEPT ![t.hash] = @ \cup {a}])
        <5>1. IsHeap(AddShapeProperty(Heap, a, p), [shape EXCEPT ![a] = t],
                     [[buckets EXCEPT ![shape[a].hash] = @ \ {a}] EXCEPT ![t.hash] = @ \cup {a}])
            BY <1>12, <2>20, <3>1, AddShapePropertyIs
        <5> QED BY <1>3, <4>4, <5>1
      <4>7. shape' = [s1 EXCEPT ![a] = t] /\ buckets' = [b1 EXCEPT ![t.hash] = @ \cup {a}]
          BY <1>16, <2>6, <4>5, <4>6 DEF Becomes, IsHeap
      <4>8. [b1 EXCEPT ![t.hash] = @ \cup {a}]
              = [h \in Hashes |-> IF t.hashed /\ t.hash = h THEN b1[h] \cup {a} ELSE b1[h]]
          BY <1>11, <2>3, <2>4, <3>1
      <4> QED BY <4>7, <4>8
    <3>2. CASE ~s.hashed
      <4>1. IsHeap(AddShapeProperty(Heap, a, p), [shape EXCEPT ![a] = t], buckets)
          BY <1>12, <2>20, <3>2, AddShapePropertyIs
      <4>2. shape' = [s1 EXCEPT ![a] = t] /\ buckets' = buckets
          BY <1>16, <2>6, <4>1 DEF Becomes, IsHeap
      <4>3. \A h \in Hashes : a \notin buckets[h]
          BY <1>3, <1>6, <3>2 DEF IsHashed
      <4>4. buckets = b1
          BY <1>6, <2>5, <4>3
      <4>5. b1 = [h \in Hashes |-> IF t.hashed /\ t.hash = h THEN b1[h] \cup {a} ELSE b1[h]]
          BY <1>11, <2>3, <3>2
      <4> QED BY <4>2, <4>4, <4>5
    <3> QED BY <3>1, <3>2
  <2>8. PICK x : x = Extended(o, a, t.size, atom)
      OBVIOUS
  <2>9. Put(object, o, x, object')
      BY <1>6, <1>15, <1>16, <2>7, <2>8
  <2>10. ShapesInv' /\ Grows(o, atom, p)
      BY <1>6, <1>14, <1>16, <2>3, <2>5, <2>7, <2>8, <2>9
  <2> QED BY <1>4, <2>10
<1>17. ASSUME s.hashed, s.refs # 1, found = {}, NEW c, c = FreeAddr,
              NEW m, m = FreeShape(Link([Clone(Heap, a, c) EXCEPT !.shape[c].hashed = TRUE], c), a),
              Becomes(AddShapeProperty(m, c, p)),
              object' = Valued(o, c, IF AddShapeProperty(m, c, p).shape[c].size # s.size
                                     THEN AddShapeProperty(m, c, p).shape[c].size
                                     ELSE object[o].size, atom)
       PROVE  ShapesInv' /\ Grows(o, atom, p)
  <2>1. c \in Addr /\ shape[c] = Nil /\ c # a /\ s.refs > 1
    <3>1. c \in Addr /\ shape[c] = Nil
        BY <1>17, FreeAddrIs
    <3> QED BY <1>3, <1>6, <1>7, <1>17, <3>1
  <2>2. PICK f : f = TRUE
      OBVIOUS
  <2>3. PICK w : w = [Private(s) EXCEPT !.hashed = f]
      OBVIOUS
  <2>4. Good(w) /\ w.refs = 1 /\ w.hashed /\ w.hash = s.hash /\ w.props = s.props /\ w.proto = s.proto
    <3>1. /\ Private(s) \in Shape /\ Private(s).refs = 1
          /\ Private(s).props = s.props /\ Private(s).size = s.size
          /\ Private(s).proto = s.proto /\ Private(s).hash = s.hash
        BY <1>6, PrivateTypes
    <3>2. f \in BOOLEAN
        BY <2>2
    <3>3. /\ w \in Shape /\ w.refs = 1 /\ w.hash = s.hash /\ w.props = s.props /\ w.proto = s.proto
          /\ w.size = s.size /\ w.hashed = f
        BY <2>3, <3>1, <3>2 DEF Shape
    <3>4. w.hashed
        BY <2>2, <3>3
    <3> QED BY <1>6, <1>17, <3>3, <3>4 DEF Good, Tidy
  <2>5. PICK sc : sc = [shape EXCEPT ![c] = w]
      OBVIOUS
  <2>6. IsHeap([Clone(Heap, a, c) EXCEPT !.shape[c].hashed = TRUE], sc, buckets)
    <3>1. PICK u : u = Private(s)
        OBVIOUS
    <3>2. PICK su : su = [shape EXCEPT ![c] = u]
        OBVIOUS
    <3>3. PICK n : n = Clone(Heap, a, c)
        OBVIOUS
    <3>4. IsHeap(n, su, buckets) /\ su[c] = u
        BY <1>3, <1>6, <2>1, <3>1, <3>2, <3>3 DEF IsHeap, Heap, Clone, Private
    <3>5. IsHeap([n EXCEPT !.shape[c].hashed = f], [su EXCEPT ![c] = [su[c] EXCEPT !.hashed = f]], buckets)
        BY <3>4, RehashIs
    <3>6. [su EXCEPT ![c] = [su[c] EXCEPT !.hashed = f]] = sc
        BY <2>3, <2>5, <3>1, <3>2, <3>4
    <3>7. IsHeap([n EXCEPT !.shape[c].hashed = f], sc, buckets)
        BY <3>5, <3>6
    <3> QED BY <2>2, <3>3, <3>7, Zenon
  <2>7. PICK n : n = [Clone(Heap, a, c) EXCEPT !.shape[c].hashed = TRUE]
      OBVIOUS
  <2>8. sc[c] = w /\ sc[a] = s
      BY <1>3, <1>6, <2>1, <2>5
  <2>9. PICK k : k = [buckets EXCEPT ![s.hash] = @ \cup {c}]
      OBVIOUS
  <2>10. IsHeap(Link(n, c), sc, k)
    <3>1. IsHeap(n, sc, buckets)
        BY <2>6, <2>7
    <3>2. IsHeap(Link(n, c), sc, [buckets EXCEPT ![sc[c].hash] = @ \cup {c}])
        BY <3>1, LinkIs
    <3> QED BY <2>4, <2>8, <2>9, <3>2
  <2>11. PICK v : v = [s EXCEPT !.refs = @ - 1]
      OBVIOUS
  <2>12. PICK sf : sf = [sc EXCEPT ![a] = v]
      OBVIOUS
  <2>13. IsHeap(m, sf, k)
    <3>1. IsHeap(FreeShape(Link(n, c), a), sf, k)
        BY <2>1, <2>8, <2>10, <2>11, <2>12, FreeShapeIs
    <3> QED BY <1>17, <2>7, <3>1
  <2>14. sf[c] = w /\ c \in DOMAIN sf
      BY <1>6, <2>1, <2>5, <2>8, <2>12
  <2>15. PICK t : t = Longer(w, p)
      OBVIOUS
  <2>16. /\ Good(t) /\ t.refs = 1 /\ t.hashed /\ t.props = Append(s.props, p)
         /\ t.proto = s.proto
      BY <1>8, <2>4, <2>15, LongerTypes
  <2>17. t.hash \in Hashes
      BY <2>16, ShapeTypes DEF Good
  <2>18. PICK l : l = [k EXCEPT ![s.hash] = @ \ {c}]
      OBVIOUS
  <2>19. IsHeap(AddShapeProperty(m, c, p), [sf EXCEPT ![c] = t], [l EXCEPT ![t.hash] = @ \cup {c}])
    <3>1. IsHeap(AddShapeProperty(m, c, p), [sf EXCEPT ![c] = t],
                 [[k EXCEPT ![sf[c].hash] = @ \ {c}] EXCEPT ![t.hash] = @ \cup {c}])
        BY <2>4, <2>13, <2>14, <2>15, AddShapePropertyIs
    <3> QED BY <2>4, <2>14, <2>18, <3>1
  <2>20. s1 = [shape EXCEPT ![a] = v] /\ b1 = buckets
      BY <1>2, <1>3, <1>6, <1>9, <2>1, <2>11 DEF Leaves
  <2>21. l = b1
    <3>1. \A h \in Hashes : c \notin buckets[h]
        BY <1>6, <2>1 DEF IsHashed
    <3> QED BY <1>6, <1>7, <2>9, <2>18, <2>20, <3>1
  <2>22. [sf EXCEPT ![c] = t] = [s1 EXCEPT ![c] = t]
      BY <1>6, <2>1, <2>5, <2>12, <2>20
  <2>23. shape' = [s1 EXCEPT ![c] = t] /\ buckets' = [b1 EXCEPT ![t.hash] = @ \cup {c}]
    <3>1. IsHeap(AddShapeProperty(m, c, p), [s1 EXCEPT ![c] = t], [b1 EXCEPT ![t.hash] = @ \cup {c}])
        BY <2>19, <2>21, <2>22
    <3>2. PICK r : r = AddShapeProperty(m, c, p)
        OBVIOUS
    <3>3. shape' = r.shape /\ buckets' = r.buckets
        BY <1>17, <3>2 DEF Becomes
    <3>4. PICK z, y : z = [s1 EXCEPT ![c] = t] /\ y = [b1 EXCEPT ![t.hash] = @ \cup {c}]
        OBVIOUS
    <3>5. r.shape = z /\ r.buckets = y
        BY <3>1, <3>2, <3>4 DEF IsHeap
    <3> QED BY <3>3, <3>4, <3>5
  <2>24. buckets' = [h \in Hashes |-> IF t.hashed /\ t.hash = h THEN b1[h] \cup {c} ELSE b1[h]]
      BY <1>11, <2>16, <2>17, <2>23
  <2>25. s1[c] = Nil
      BY <1>11, <2>1
  <2>26. PICK x : x = Extended(o, c, t.size, atom)
      OBVIOUS
  <2>27. Put(object, o, x, object')
      BY <1>15, <1>17, <2>1, <2>23, <2>26
  <2> QED BY <1>14, <1>17, <2>1, <2>16, <2>23, <2>24, <2>25, <2>26, <2>27
<1>18. PICK c : c = FreeAddr
    OBVIOUS
<1>19. PICK m : m = FreeShape(Link([Clone(Heap, a, c) EXCEPT !.shape[c].hashed = TRUE], c), a)
    OBVIOUS
<1>20. \/ \E b \in found :
             /\ Becomes(FreeShape(Dup(Heap, b), a))
             /\ object' = Valued(o, b, IF shape[b].size # s.size THEN shape[b].size
                                       ELSE object[o].size, atom)
       \/ /\ found = {} /\ s.hashed /\ s.refs # 1
          /\ Becomes(AddShapeProperty(m, c, p))
          /\ object' = Valued(o, c, IF AddShapeProperty(m, c, p).shape[c].size # s.size
                                    THEN AddShapeProperty(m, c, p).shape[c].size
                                    ELSE object[o].size, atom)
       \/ /\ found = {} /\ ~(s.hashed /\ s.refs # 1)
          /\ Becomes(AddShapeProperty(Heap, a, p))
          /\ object' = Valued(o, a, IF AddShapeProperty(Heap, a, p).shape[a].size # s.size
                                    THEN AddShapeProperty(Heap, a, p).shape[a].size
                                    ELSE object[o].size, atom)
  <2>1. CASE s.hashed /\ s.refs # 1
      BY <1>2, <1>4, <1>5, <1>6, <1>18, <1>19, <2>1 DEF AddProperty
  <2>2. CASE ~(s.hashed /\ s.refs # 1)
      BY <1>2, <1>4, <1>5, <1>6, <1>18, <1>19, <2>2 DEF AddProperty
  <2> QED BY <2>1, <2>2
<1> QED BY <1>4, <1>13, <1>16, <1>17, <1>18, <1>19, <1>20

-----------------------------------------------------------------------------
(***************************************************************************)
(* Shapes: the theorem                                                     *)
(***************************************************************************)

\* Every state keeps the invariant.
LEMMA ShapesInvHolds ==
    ShapesSpec => []ShapesInv
<1>1. ShapesInit => ShapesInv
  <2>1. SUFFICES ASSUME ShapesInit
                 PROVE  HeapInv(shape, object, buckets)
      BY DEF ShapesInv
  <2>2. /\ \A a \in Addr : shape[a] = Nil
        /\ \A o \in Objects : object[o] = Nil
        /\ \A h \in Hashes : buckets[h] = {}
      BY <2>1 DEF ShapesInit
  <2>3. Typed(shape, object, buckets)
      BY <2>1 DEF ShapesInit, Typed
  <2> QED BY <2>2, <2>3 DEF HeapInv, Tabled, Counted, Distinct, Placed, IsHashed
<1>2. ShapesInv /\ [ShapesNext]_shapevars => ShapesInv'
  <2>1. SUFFICES ASSUME ShapesInv, [ShapesNext]_shapevars
                 PROVE  ShapesInv'
      OBVIOUS
  <2>2. CASE UNCHANGED shapevars
      BY <2>1, <2>2 DEF ShapesInv, shapevars
  <2>3. ASSUME NEW o \in Objects, FreeObject(o)
        PROVE  ShapesInv'
      BY <2>1, <2>3, FreeObjectKeeps
  <2>4. ASSUME NEW o \in Objects, NEW proto \in Protos, NewObject(o, proto) \/ SetPrototype(o, proto)
        PROVE  ShapesInv'
      BY <2>1, <2>4, NewObjectKeeps, SetPrototypeKeeps
  <2>5. ASSUME NEW o \in Objects, NEW atom \in Atoms, DeleteProperty(o, atom)
        PROVE  ShapesInv'
      BY <2>1, <2>5, DeletePropertyKeeps
  <2>6. ASSUME NEW o \in Objects, NEW atom \in Atoms, NEW flags \in BOOLEAN,
               AddProperty(o, atom, flags) \/ SetFlags(o, atom, flags)
        PROVE  ShapesInv'
      BY <2>1, <2>6, AddPropertyKeeps, SetFlagsKeeps
  <2> QED BY <2>1, <2>2, <2>3, <2>4, <2>5, <2>6 DEF ShapesNext
<1> QED BY <1>1, <1>2, PTL DEF ShapesSpec

\* The invariant is what SharingExact asks for.
LEMMA ShapesInvSays ==
    ASSUME ShapesInv
    PROVE  SharingExact
<1>1. /\ HeapInv(shape, object, buckets) /\ Typed(shape, object, buckets)
      /\ Tabled(shape, buckets) /\ Counted(shape, object) /\ Distinct(shape) /\ Placed(shape, object)
      /\ \A a \in Addr : shape[a] # Nil => Good(shape[a])
    BY DEF ShapesInv, HeapInv
<1>2. ShapesTypeOK
    BY <1>1 DEF ShapesTypeOK, Typed
<1>3. ASSUME NEW a \in Addr, shape[a] # Nil, NEW users, users = Users(object, a)
      PROVE  /\ shape[a].refs = Cardinality(users)
             /\ ~shape[a].hashed => Cardinality(users) = 1
             /\ shape[a].hashed =>
                   /\ a \in buckets[shape[a].hash] /\ \A p \in ToSet(shape[a].props) : p # Deleted
                   /\ \A b \in Addr \ {a} : shape[b] = Nil \/ ~shape[b].hashed
                          \/ shape[b].proto # shape[a].proto \/ shape[b].props # shape[a].props
             /\ \A o \in users :
                   /\ object[o].size = shape[a].size
                   /\ Len(object[o].values) = Len(shape[a].props)
                   /\ Len(shape[a].props) <= shape[a].size /\ InitSize <= shape[a].size
  <2>1. Good(shape[a]) /\ shape[a].hash \in Hashes
      BY <1>1, <1>3, ShapeTypes DEF Good
  <2>2. shape[a].refs = Cardinality(users) /\ (~shape[a].hashed => Cardinality(users) = 1)
      BY <1>1, <1>3 DEF Counted
  <2>3. ASSUME shape[a].hashed
        PROVE  /\ a \in buckets[shape[a].hash] /\ \A p \in ToSet(shape[a].props) : p # Deleted
               /\ \A b \in Addr \ {a} : shape[b] = Nil \/ ~shape[b].hashed
                      \/ shape[b].proto # shape[a].proto \/ shape[b].props # shape[a].props
    <3>1. a \in buckets[shape[a].hash]
        BY <1>1, <1>3, <2>1, <2>3 DEF Tabled, IsHashed
    <3>2. \A p \in ToSet(shape[a].props) : p # Deleted
        BY <2>1, <2>3 DEF Good, Tidy, ToSet
    <3>3. \A b \in Addr \ {a} : shape[b] = Nil \/ ~shape[b].hashed
               \/ shape[b].proto # shape[a].proto \/ shape[b].props # shape[a].props
        BY <1>1, <1>3, <2>3 DEF Distinct, IsHashed, Alike
    <3> QED BY <3>1, <3>2, <3>3
  <2>4. ASSUME NEW o \in users
        PROVE  /\ object[o].size = shape[a].size
               /\ Len(object[o].values) = Len(shape[a].props)
               /\ Len(shape[a].props) <= shape[a].size /\ InitSize <= shape[a].size
      BY <1>1, <1>3, <2>1, <2>4 DEF Placed, Users, Fits, Good
  <2> QED BY <2>2, <2>3, <2>4
<1>4. \A a \in Addr : {o \in Objects : Live(o) /\ object[o].shape = a} = Users(object, a)
    BY DEF Users, Live
<1>5. \A h \in Hashes : \A a \in buckets[h] : shape[a] # Nil /\ shape[a].hash = h
    BY <1>1 DEF Tabled, Typed, IsHashed
<1>6. \A o \in Objects : Live(o) => ShapeOf(o) # Nil
    BY <1>1 DEF Placed, Live, ShapeOf
<1> QED BY <1>2, <1>3, <1>4, <1>5, <1>6 DEF SharingExact

\* SharingExact, whatever the objects, names, prototypes and addresses: objects
\* that js_new_shape2, find_hashed_shape_prop and add_property let share a shape
\* are those it counts, a shape that left rt->shape_hash has one object, and no
\* step leaves a freed shape there or memory too small for an object.
THEOREM ShapesShared == ShapesSpec => []SharingExact
BY ShapesInvHolds, ShapesInvSays, PTL

-----------------------------------------------------------------------------
(***************************************************************************)
(* Packed: what is kept of a sequence                                      *)
(***************************************************************************)

\* Q is places, which are N, and e behind them.
LastPlace(places, e, N, Q) ==
    /\ N \in Nat /\ IsFiniteSet(Q) /\ Q \subseteq Nat /\ Cardinality(Q) = N + 1
    /\ Nth(Q, N + 1) = e /\ \A n \in 1..N : Nth(Q, n) = Nth(places, n)

\* A place behind all others is the last.
LEMMA NthMore ==
    ASSUME NEW places, IsFiniteSet(places), places \subseteq Nat,
           NEW e \in Nat, \A k \in places : k < e,
           NEW N, N = Cardinality(places), NEW Q, Q = places \cup {e}
    PROVE  LastPlace(places, e, N, Q)
<1>1. e \notin places
  <2>1. ~(e < e)
      OBVIOUS
  <2> QED BY <2>1
<1>2. N \in Nat /\ IsFiniteSet(Q) /\ Cardinality(Q) = N + 1
    BY <1>1, FS_AddElement, FS_CardinalityType
<1>3. Q \subseteq Nat
    OBVIOUS
<1>4. Nth(Q, N + 1) = e
  <2>1. {j \in Q : j < e} = places
    <3>1. ~(e < e)
        OBVIOUS
    <3> QED BY <3>1
  <2>2. Rank(Q, e) = N
      BY <2>1 DEF Rank
  <2> QED BY <1>2, <1>3, <2>2, PlaceNth
<1>5. ASSUME NEW n \in 1..N
      PROVE  Nth(Q, n) = Nth(places, n)
  <2>1. PICK k : k = Nth(places, n)
      OBVIOUS
  <2>2. k \in places /\ Rank(places, k) = n - 1
      BY <2>1, NthPlace
  <2>3. k \in Nat /\ ~(e < k)
    <3>1. k \in Nat /\ k < e
        BY <2>2
    <3> QED BY <3>1
  <2>4. {j \in Q : j < k} = {j \in places : j < k}
      BY <2>3
  <2>5. Rank(Q, k) + 1 = n
    <3>1. Rank(Q, k) = n - 1
        BY <2>2, <2>4 DEF Rank
    <3> QED BY <1>2, <3>1
  <2>6. k \in Q
      BY <2>2
  <2>7. Nth(Q, n) = k
      BY <1>2, <1>3, <2>5, <2>6, PlaceNth
  <2> QED BY <2>1, <2>7
<1> QED BY <1>2, <1>3, <1>4, <1>5 DEF LastPlace

\* Where the nth is when the rth is removed.
Moved(n, r) == IF n < r THEN n ELSE n + 1

\* Q is places, which are N, without the rth, which is k.
PlaceLess(places, k, r, N, Q) ==
    /\ N \in Nat \ {0} /\ r \in 1..N /\ Nth(places, r) = k
    /\ IsFiniteSet(Q) /\ Q \subseteq Nat /\ Cardinality(Q) = N - 1
    /\ \A n \in 1..(N - 1) : Nth(Q, n) = Nth(places, Moved(n, r))

\* Without one of the places, those behind it move up.
LEMMA NthLess ==
    ASSUME NEW places, IsFiniteSet(places), places \subseteq Nat,
           NEW k \in places, NEW r, r = Rank(places, k) + 1,
           NEW N, N = Cardinality(places), NEW Q, Q = places \ {k}
    PROVE  PlaceLess(places, k, r, N, Q)
<1>1. r \in 1..N /\ Nth(places, r) = k
    BY PlaceNth
<1>2. N \in Nat \ {0} /\ IsFiniteSet(Q) /\ Cardinality(Q) = N - 1
  <2>1. N \in Nat /\ IsFiniteSet(Q) /\ Cardinality(Q) = N - 1
      BY FS_RemoveElement, FS_CardinalityType
  <2> QED BY <1>1, <2>1
<1>3. Q \subseteq Nat /\ k \in Nat
    OBVIOUS
<1>4. \A i, j \in places : i < j => Rank(places, i) < Rank(places, j)
    BY RankOrder
<1>5. Rank(places, k) = r - 1
  <2>1. Rank(places, k) \in 0..(N - 1)
      BY RankOrder
  <2> QED BY <1>2, <2>1
<1>6. ASSUME NEW n \in 1..(N - 1)
      PROVE  Nth(Q, n) = Nth(places, Moved(n, r))
  <2>1. PICK m : m = Moved(n, r)
      OBVIOUS
  <2>2. m \in 1..N /\ n \in Nat /\ m # r /\ (m < r <=> n < r) /\ r \in Nat
      BY <1>1, <1>2, <2>1 DEF Moved
  <2>3. PICK l : l = Nth(places, m)
      OBVIOUS
  <2>4. l \in places /\ Rank(places, l) = m - 1
      BY <2>2, <2>3, NthPlace
  <2>5. l \in Nat /\ l # k /\ l \in Q
    <3>1. Rank(places, l) # Rank(places, k)
        BY <1>1, <1>5, <2>2, <2>4
    <3> QED BY <2>4, <3>1
  <2>6. Rank(Q, l) = n - 1
    <3>1. CASE n < r
      <4>1. ~(k < l)
        <5>1. Rank(places, l) < Rank(places, k)
            BY <1>1, <1>5, <2>2, <2>4, <3>1
        <5>2. ~(Rank(places, k) < Rank(places, l))
            BY <1>5, <2>2, <2>4, <5>1
        <5> QED BY <1>4, <2>4, <5>2
      <4>2. {j \in Q : j < l} = {j \in places : j < l}
          BY <4>1
      <4>3. Rank(Q, l) = Rank(places, l)
          BY <4>2 DEF Rank
      <4> QED BY <2>1, <2>4, <3>1, <4>3 DEF Moved
    <3>2. CASE ~(n < r)
      <4>1. k < l
        <5>1. ~(Rank(places, l) < Rank(places, k))
            BY <1>5, <2>1, <2>2, <2>4, <3>2
        <5>2. ~(l < k)
            BY <1>4, <2>4, <5>1
        <5> QED BY <1>3, <2>5, <5>2
      <4>2. PICK B : B = {j \in places : j < l}
          OBVIOUS
      <4>3. k \in B /\ {j \in Q : j < l} = B \ {k}
          BY <4>1, <4>2
      <4>4. IsFiniteSet(B) /\ Cardinality(B) = m - 1
        <5>1. B \subseteq places /\ Cardinality(B) = m - 1
            BY <2>4, <4>2 DEF Rank
        <5>2. IsFiniteSet(B)
            BY <5>1, FS_Subset
        <5> QED BY <5>1, <5>2
      <4>5. Cardinality(B \ {k}) = Cardinality(B) - 1
          BY <4>3, <4>4, FS_RemoveElement
      <4>6. Rank(Q, l) = (m - 1) - 1
          BY <4>3, <4>4, <4>5 DEF Rank
      <4> QED BY <2>1, <2>2, <3>2, <4>6 DEF Moved
    <3> QED BY <3>1, <3>2
  <2>7. n = Rank(Q, l) + 1
      BY <2>2, <2>6
  <2>8. Nth(Q, n) = l
      BY <1>2, <1>3, <2>5, <2>7, PlaceNth
  <2> QED BY <2>1, <2>3, <2>8
<1> QED BY <1>1, <1>2, <1>3, <1>6 DEF PlaceLess

\* All places are in their order.
LEMMA NthAll ==
    ASSUME NEW N \in Nat, NEW n \in 1..N
    PROVE  Nth(1..N, n) = n
<1>1. IsFiniteSet(1..N) /\ 1..N \subseteq Nat
    BY FS_Interval
<1>2. {j \in 1..N : j < n} = 1..(n - 1)
    OBVIOUS
<1>3. n - 1 \in Nat
    OBVIOUS
<1>4. PICK m : m = n - 1
    OBVIOUS
<1>5. Cardinality(1..m) = m
  <2>1. m \in Nat /\ 1 \in Int /\ m \in Int
      BY <1>3, <1>4
  <2>2. Cardinality(1..m) = IF 1 > m THEN 0 ELSE m - 1 + 1
      BY <2>1, FS_Interval
  <2> QED BY <2>1, <2>2
<1>6. Rank(1..N, n) = n - 1
    BY <1>2, <1>4, <1>5 DEF Rank
<1>7. n = Rank(1..N, n) + 1
    BY <1>6
<1> QED BY <1>1, <1>7, PlaceNth

-----------------------------------------------------------------------------
\* The elements that Packed keeps.
LEMMA PackedIs ==
    ASSUME NEW S, NEW z \in Seq(S), NEW places \in SUBSET DOMAIN z,
           NEW N, N = Cardinality(places), NEW p, p = Packed(z, places)
    PROVE  /\ N \in Nat /\ p \in Seq(S) /\ Len(p) = N /\ DOMAIN p = 1..N
           /\ IsFiniteSet(places) /\ places \subseteq Nat
           /\ \A n \in 1..N : Nth(places, n) \in places /\ p[n] = z[Nth(places, n)]
<1>1. DOMAIN z = 1..Len(z) /\ Len(z) \in Nat
    OBVIOUS
<1>2. IsFiniteSet(1..Len(z))
    BY <1>1, FS_Interval
<1>3. IsFiniteSet(places) /\ places \subseteq Nat
    BY <1>1, <1>2, FS_Subset
<1>4. N \in Nat /\ p \in Seq(S) /\ Len(p) = N
    BY PackedTypes
<1>5. DOMAIN p = 1..N
    BY <1>4
<1>6. \A n \in 1..N : Nth(places, n) \in places
    BY <1>3, NthPlace
<1>7. p = [n \in 1..N |-> z[Nth(places, n)]]
    BY DEF Packed
<1>8. \A n \in 1..N : p[n] = z[Nth(places, n)]
    BY <1>7
<1> QED BY <1>3, <1>4, <1>5, <1>6, <1>8

\* Sequences of the same elements are the same.
LEMMA SameSeq ==
    ASSUME NEW S, NEW p \in Seq(S), NEW q \in Seq(S), Len(p) = Len(q),
           \A n \in 1..Len(p) : p[n] = q[n]
    PROVE  p = q
OBVIOUS

\* An element more that is kept comes last.
LEMMA PackedMore ==
    ASSUME NEW S, NEW z \in Seq(S), NEW v \in S, NEW places \in SUBSET DOMAIN z,
           NEW e, e = Len(z) + 1
    PROVE  Packed(Append(z, v), places \cup {e}) = Append(Packed(z, places), v)
<1>1. PICK p : p = Packed(z, places)
    OBVIOUS
<1>2. PICK N : N = Cardinality(places)
    OBVIOUS
<1>3. /\ N \in Nat /\ p \in Seq(S) /\ Len(p) = N
      /\ IsFiniteSet(places) /\ places \subseteq Nat
      /\ \A n \in 1..N : Nth(places, n) \in places /\ p[n] = z[Nth(places, n)]
    BY <1>1, <1>2, PackedIs
<1>4. PICK y : y = Append(z, v)
    OBVIOUS
<1>5. PICK Q : Q = places \cup {e}
    OBVIOUS
<1>6. /\ y \in Seq(S) /\ e \in Nat /\ y[e] = v /\ Q \in SUBSET DOMAIN y
      /\ \A k \in places : k < e /\ y[k] = z[k]
  <2>1. DOMAIN z = 1..Len(z) /\ Len(z) \in Nat
      OBVIOUS
  <2>2. y \in Seq(S) /\ DOMAIN y = 1..e /\ y[e] = v /\ \A k \in 1..Len(z) : y[k] = z[k]
      BY <1>4, <2>1
  <2> QED BY <1>5, <2>1, <2>2
<1>7. /\ Cardinality(Q) = N + 1 /\ Nth(Q, N + 1) = e
      /\ \A n \in 1..N : Nth(Q, n) = Nth(places, n)
  <2>1. \A k \in places : k < e
      BY <1>6
  <2>2. e \in Nat
      BY <1>6
  <2>3. LastPlace(places, e, N, Q)
      BY <1>2, <1>3, <1>5, <2>1, <2>2, NthMore
  <2> QED BY <2>3 DEF LastPlace
<1>8. PICK q : q = Packed(y, Q)
    OBVIOUS
<1>9. q \in Seq(S) /\ Len(q) = N + 1 /\ \A n \in 1..(N + 1) : q[n] = y[Nth(Q, n)]
    BY <1>6, <1>7, <1>8, PackedIs
<1>10. PICK a : a = Append(p, v)
    OBVIOUS
<1>11. a \in Seq(S) /\ Len(a) = N + 1 /\ a[N + 1] = v /\ \A n \in 1..N : a[n] = p[n]
    BY <1>3, <1>10
<1>12. \A n \in 1..(N + 1) : q[n] = a[n]
  <2>1. q[N + 1] = a[N + 1]
      BY <1>3, <1>6, <1>7, <1>9, <1>11
  <2>2. ASSUME NEW n \in 1..N
        PROVE  q[n] = a[n]
    <3>1. n \in 1..(N + 1)
        BY <1>3
    <3>2. q[n] = y[Nth(places, n)] /\ Nth(places, n) \in places
        BY <1>3, <1>7, <1>9, <3>1
    <3> QED BY <1>3, <1>6, <1>11, <3>2
  <2>3. \A n \in 1..(N + 1) : n = N + 1 \/ n \in 1..N
      BY <1>3
  <2> QED BY <2>1, <2>2, <2>3
<1>13. q = a
    BY <1>9, <1>11, <1>12, SameSeq
<1> QED BY <1>1, <1>4, <1>5, <1>8, <1>10, <1>13

\* What is not kept does not matter.
LEMMA PackedSkips ==
    ASSUME NEW S, NEW z \in Seq(S), NEW y \in Seq(S), NEW places \in SUBSET DOMAIN z,
           places \in SUBSET DOMAIN y, \A k \in places : y[k] = z[k]
    PROVE  Packed(y, places) = Packed(z, places)
<1>1. PICK N : N = Cardinality(places)
    OBVIOUS
<1>2. \A n \in 1..N : Nth(places, n) \in places
    BY <1>1, PackedIs
<1>3. \A n \in 1..N : y[Nth(places, n)] = z[Nth(places, n)]
    BY <1>2
<1> QED BY <1>1, <1>3 DEF Packed

\* What RemoveAt leaves.
LEMMA RemovedOne ==
    ASSUME NEW S, NEW p \in Seq(S), NEW N, N = Len(p), NEW r \in 1..N, NEW a, a = RemoveAt(p, r)
    PROVE  a \in Seq(S) /\ Len(a) = N - 1 /\ \A n \in 1..(N - 1) : a[n] = p[Moved(n, r)]
<1>1. N \in Nat /\ \A n \in 1..N : p[n] \in S
    OBVIOUS
<1>2. PICK u \in Nat, w \in Nat : r = u + 1 /\ N = r + w
  <2>1. r \in Nat /\ N \in Nat /\ 1 <= r /\ r <= N
      OBVIOUS
  <2>2. r - 1 \in Nat /\ N - r \in Nat /\ r = (r - 1) + 1 /\ N = r + (N - r)
      BY <2>1
  <2> QED BY <2>2
<1>3. PICK b : b = SubSeq(p, 1, u)
    OBVIOUS
<1>4. PICK c : c = SubSeq(p, r + 1, r + w)
    OBVIOUS
<1>5. b \in Seq(S) /\ Len(b) = u /\ \A n \in 1..u : b[n] = p[n]
  <2>1. \A n \in 1..u : p[n] \in S
    <3>1. \A n \in 1..u : n \in 1..N
        BY <1>2, <1>1
    <3> QED BY <1>1, <3>1
  <2>2. /\ b \in Seq(S)
        /\ Len(b) = IF 1 <= u THEN u - 1 + 1 ELSE 0
        /\ \A n \in 1..(u - 1 + 1) : b[n] = p[1 + n - 1]
      BY <1>3, <2>1, SubSeqProperties
  <2>3. u - 1 + 1 = u /\ (1 <= u <=> u # 0) /\ \A n \in 1..u : 1 + n - 1 = n
      BY <1>2
  <2> QED BY <1>2, <2>2, <2>3
<1>6. c \in Seq(S) /\ Len(c) = w /\ \A n \in 1..w : c[n] = p[r + n]
  <2>1. \A n \in (r + 1)..(r + w) : p[n] \in S
    <3>1. \A n \in (r + 1)..(r + w) : n \in 1..N
        BY <1>2, <1>1
    <3> QED BY <1>1, <3>1
  <2>2. PICK i \in Int, j \in Int : i = r + 1 /\ j = r + w
      BY <1>2
  <2>3. \A n \in i..j : p[n] \in S
      BY <2>1, <2>2
  <2>4. /\ SubSeq(p, i, j) \in Seq(S)
        /\ Len(SubSeq(p, i, j)) = IF i <= j THEN j - i + 1 ELSE 0
        /\ \A n \in 1..(j - i + 1) : SubSeq(p, i, j)[n] = p[i + n - 1]
      BY <2>3, SubSeqProperties
  <2>5. c = SubSeq(p, i, j)
      BY <1>4, <2>2
  <2>6. j - i + 1 = w /\ (i <= j <=> w # 0) /\ \A n \in 1..w : i + n - 1 = r + n
      BY <1>2, <2>2
  <2> QED BY <1>2, <2>4, <2>5, <2>6
<1>7. a = b \o c
  <2>1. r - 1 = u
      BY <1>2
  <2> QED BY <1>2, <1>3, <1>4, <2>1 DEF RemoveAt
<1>8. /\ a \in Seq(S) /\ Len(a) = u + w
      /\ \A n \in 1..(u + w) : a[n] = IF n <= u THEN b[n] ELSE c[n - u]
  <2>1. b \in Seq(S) /\ c \in Seq(S) /\ Len(b) = u /\ Len(c) = w
      BY <1>5, <1>6
  <2>2. /\ b \o c \in Seq(S) /\ Len(b \o c) = Len(b) + Len(c)
        /\ \A n \in 1..(Len(b) + Len(c)) :
              (b \o c)[n] = IF n <= Len(b) THEN b[n] ELSE c[n - Len(b)]
      BY <2>1, ConcatProperties
  <2> QED BY <1>7, <2>1, <2>2
<1>9. u + w = N - 1
    BY <1>2
<1>10. ASSUME NEW n \in 1..(N - 1)
      PROVE  a[n] = p[Moved(n, r)]
  <2>1. CASE n <= u
    <3>1. n < r /\ n \in 1..u /\ n \in 1..(u + w)
        BY <1>2, <1>9, <2>1
    <3> QED BY <1>5, <1>8, <2>1, <3>1 DEF Moved
  <2>2. CASE ~(n <= u)
    <3>1. ~(n < r) /\ n - u \in 1..w /\ r + (n - u) = n + 1 /\ n \in 1..(u + w)
        BY <1>2, <1>9, <2>2
    <3>2. a[n] = c[n - u]
        BY <1>8, <2>2, <3>1
    <3>3. c[n - u] = p[n + 1]
        BY <1>6, <3>1
    <3> QED BY <3>1, <3>2, <3>3 DEF Moved
  <2> QED BY <2>1, <2>2
<1> QED BY <1>8, <1>9, <1>10

\* The element at k is the rth that is kept; p without it is what is kept of the others.
LessOne(z, places, k, r, p) ==
    r \in DOMAIN p /\ p[r] = z[k] /\ Packed(z, places \ {k}) = RemoveAt(p, r)

\* Without one of them, the others are what is left.
LEMMA PackedLess ==
    ASSUME NEW S, NEW z \in Seq(S), NEW places \in SUBSET DOMAIN z, NEW k \in places,
           NEW r, r = Rank(places, k) + 1, NEW p, p = Packed(z, places)
    PROVE  LessOne(z, places, k, r, p)
<1>1. PICK N : N = Cardinality(places)
    OBVIOUS
<1>2. /\ p \in Seq(S) /\ Len(p) = N /\ DOMAIN p = 1..N
      /\ IsFiniteSet(places) /\ places \subseteq Nat
      /\ \A n \in 1..N : p[n] = z[Nth(places, n)]
    BY <1>1, PackedIs
<1>3. PICK Q : Q = places \ {k}
    OBVIOUS
<1>4. /\ N \in Nat \ {0} /\ r \in 1..N /\ Nth(places, r) = k /\ Cardinality(Q) = N - 1
      /\ \A n \in 1..(N - 1) : Nth(Q, n) = Nth(places, Moved(n, r))
  <2>1. IsFiniteSet(places) /\ places \subseteq Nat
      BY <1>2
  <2>2. PlaceLess(places, k, r, N, Q)
      BY <1>1, <1>3, <2>1, NthLess
  <2> QED BY <2>2 DEF PlaceLess
<1>5. PICK q : q = Packed(z, Q)
    OBVIOUS
<1>6. q \in Seq(S) /\ Len(q) = N - 1 /\ \A n \in 1..(N - 1) : q[n] = z[Nth(Q, n)]
  <2>1. Q \in SUBSET DOMAIN z
      BY <1>3
  <2>2. PICK M : M = Cardinality(Q)
      OBVIOUS
  <2>3. q \in Seq(S) /\ Len(q) = M /\ \A n \in 1..M : q[n] = z[Nth(Q, n)]
      BY <1>5, <2>1, <2>2, PackedIs
  <2> QED BY <1>4, <2>2, <2>3
<1>7. PICK a : a = RemoveAt(p, r)
    OBVIOUS
<1>8. /\ a \in Seq(S) /\ Len(a) = N - 1
      /\ \A n \in 1..(N - 1) : a[n] = p[Moved(n, r)]
    BY <1>2, <1>4, <1>7, RemovedOne
<1>9. \A n \in 1..(N - 1) : q[n] = a[n]
  <2>1. ASSUME NEW n \in 1..(N - 1)
        PROVE  q[n] = a[n]
    <3>1. PICK m : m = Moved(n, r)
        OBVIOUS
    <3>2. m \in 1..N
        BY <1>4, <3>1 DEF Moved
    <3>3. q[n] = z[Nth(places, m)] /\ a[n] = p[m]
        BY <1>4, <1>6, <1>8, <3>1
    <3> QED BY <1>2, <3>2, <3>3
  <2> QED BY <2>1
<1>10. q = a
    BY <1>4, <1>6, <1>8, <1>9, SameSeq
<1> QED BY <1>2, <1>3, <1>4, <1>5, <1>7, <1>10 DEF LessOne

\* One of them is replaced.
LEMMA PackedPut ==
    ASSUME NEW S, NEW z \in Seq(S), NEW places \in SUBSET DOMAIN z, NEW k \in places,
           NEW v \in S, NEW r, r = Rank(places, k) + 1, NEW p, p = Packed(z, places)
    PROVE  Packed([z EXCEPT ![k] = v], places) = [p EXCEPT ![r] = v]
<1>1. PICK N : N = Cardinality(places)
    OBVIOUS
<1>2. /\ N \in Nat /\ p \in Seq(S) /\ Len(p) = N /\ DOMAIN p = 1..N
      /\ IsFiniteSet(places) /\ places \subseteq Nat
      /\ \A n \in 1..N : Nth(places, n) \in places /\ p[n] = z[Nth(places, n)]
    BY <1>1, PackedIs
<1>3. r \in 1..N /\ Nth(places, r) = k
    BY <1>1, <1>2, PlaceNth
<1>4. PICK y : y = [z EXCEPT ![k] = v]
    OBVIOUS
<1>5. y \in Seq(S) /\ DOMAIN y = DOMAIN z /\ y[k] = v /\ \A j \in DOMAIN z : j # k => y[j] = z[j]
    BY <1>4
<1>6. PICK q : q = Packed(y, places)
    OBVIOUS
<1>7. q \in Seq(S) /\ Len(q) = N /\ \A n \in 1..N : q[n] = y[Nth(places, n)]
    BY <1>1, <1>5, <1>6, PackedIs
<1>8. PICK a : a = [p EXCEPT ![r] = v]
    OBVIOUS
<1>9. a \in Seq(S) /\ Len(a) = N /\ a[r] = v /\ \A n \in 1..N : n # r => a[n] = p[n]
    BY <1>2, <1>3, <1>8
<1>10. \A n \in 1..N : q[n] = a[n]
  <2>1. ASSUME NEW n \in 1..N
        PROVE  q[n] = a[n]
    <3>1. CASE n = r
        BY <1>3, <1>5, <1>7, <1>9, <3>1
    <3>2. CASE n # r
      <4>1. PICK l : l = Nth(places, n)
          OBVIOUS
      <4>2. l \in places /\ Rank(places, l) = n - 1
          BY <1>1, <1>2, <4>1, NthPlace
      <4>3. l # k
        <5>1. Rank(places, k) = r - 1
            BY <1>1, <1>2, <1>3, NthPlace
        <5> QED BY <1>3, <2>1, <3>2, <4>2, <5>1
      <4>4. q[n] = y[l] /\ a[n] = p[n] /\ p[n] = z[l]
          BY <1>2, <1>7, <1>9, <2>1, <3>2, <4>1
      <4> QED BY <1>5, <4>2, <4>3, <4>4
    <3> QED BY <3>1, <3>2
  <2> QED BY <2>1
<1>11. q = a
    BY <1>2, <1>7, <1>9, <1>10, SameSeq
<1> QED BY <1>4, <1>6, <1>8, <1>11

\* When all are kept nothing changes.
LEMMA PackedAll ==
    ASSUME NEW S, NEW z \in Seq(S)
    PROVE  Packed(z, DOMAIN z) = z
<1>1. PICK N : N = Len(z)
    OBVIOUS
<1>2. N \in Nat /\ DOMAIN z = 1..N
    BY <1>1
<1>3. Cardinality(1..N) = N
  <2>1. N \in Int /\ 1 \in Int
      BY <1>2
  <2>2. Cardinality(1..N) = IF 1 > N THEN 0 ELSE N - 1 + 1
      BY <2>1, FS_Interval
  <2> QED BY <1>2, <2>2
<1>4. PICK p : p = Packed(z, DOMAIN z)
    OBVIOUS
<1>5. p \in Seq(S) /\ Len(p) = N /\ \A n \in 1..N : p[n] = z[Nth(1..N, n)]
    BY <1>2, <1>3, <1>4, PackedIs
<1>6. \A n \in 1..N : p[n] = z[n]
    BY <1>2, <1>5, NthAll
<1>7. p = z
    BY <1>1, <1>5, <1>6, SameSeq
<1> QED BY <1>4, <1>7

-----------------------------------------------------------------------------
(***************************************************************************)
(* Shapes implements OwnProperties                                         *)
(***************************************************************************)

\* Properties with their values, and what a script sees of them.
PropValue == [atom : Atoms \cup {Nil}, flags : BOOLEAN, value : Atoms \cup {Nil}]
Valuing(p, v) == [atom |-> p.atom, flags |-> p.flags, value |-> v]
Zipped(props, values) == [k \in DOMAIN props |-> Valuing(props[k], values[k])]
Scripted(proto, props, values) == [proto |-> proto, props |-> Packed(Zipped(props, values), Kept(props))]

\* The properties of an object and their values.
Paired(props, values) ==
    props \in Seq(Prop) /\ values \in Seq(Atoms \cup {Nil}) /\ Len(values) = Len(props)

\* They are one sequence.
LEMMA ZippedTypes ==
    ASSUME NEW props, NEW values, Paired(props, values), NEW z, z = Zipped(props, values)
    PROVE  /\ z \in Seq(PropValue) /\ Len(z) = Len(props) /\ DOMAIN z = 1..Len(props)
           /\ DOMAIN z = DOMAIN props /\ Len(props) \in Nat
           /\ \A k \in DOMAIN z : z[k] = Valuing(props[k], values[k])
           /\ Kept(props) \in SUBSET DOMAIN z
<1>1. PICK n : n = Len(props)
    OBVIOUS
<1>2. /\ n \in Nat /\ DOMAIN props = 1..n /\ \A k \in 1..n : props[k] \in Prop
      /\ \A k \in 1..n : values[k] \in Atoms \cup {Nil}
    BY <1>1 DEF Paired
<1>3. \A k \in 1..n : Valuing(props[k], values[k]) \in PropValue
    BY <1>2 DEF Valuing, PropValue, Prop
<1>4. z = [k \in 1..n |-> Valuing(props[k], values[k])]
    BY <1>2 DEF Zipped
<1>5. z \in Seq(PropValue) /\ Len(z) = n /\ DOMAIN z = 1..n
    BY <1>2, <1>3, <1>4
<1>6. \A k \in 1..n : z[k] = Valuing(props[k], values[k])
    BY <1>4
<1>7. Kept(props) \in SUBSET (1..n)
    BY <1>2 DEF Kept
<1> QED BY <1>1, <1>2, <1>5, <1>6, <1>7

\* View is what a script sees.
LEMMA ViewIs ==
    ASSUME NEW x, NEW s
    PROVE  View(x, s) = Scripted(s.proto, s.props, x.values)
BY DEF View, Scripted, Zipped, Valuing

\* The objects of the abstract specification.
LEMMA OwnOf ==
    /\ DOMAIN Own = {q \in Objects : object[q] # Nil}
    /\ \A q \in Objects : object[q] # Nil =>
          Own[q] = Scripted(ShapeOf(q).proto, ShapeOf(q).props, object[q].values)
    /\ Own = [q \in DOMAIN Own |-> Own[q]]
BY ViewIs DEF Own, Live

\* The same in the next state.
OwnNext ==
    /\ DOMAIN Own' = {q \in Objects : object'[q] # Nil}
    /\ \A q \in Objects : object'[q] # Nil =>
          Own'[q] = Scripted(shape'[object'[q].shape].proto, shape'[object'[q].shape].props,
                             object'[q].values)
    /\ Own' = [q \in DOMAIN Own' |-> Own'[q]]

LEMMA OwnNextIs == OwnNext
BY ViewIs DEF OwnNext, Own, Live, ShapeOf

\* What is aside is seen as before.
LEMMA AsideSeen ==
    ASSUME NEW o \in Objects, Aside(shape, object, o, shape', object')
    PROVE  \A q \in Objects \ {o} : /\ q \in DOMAIN Own' <=> q \in DOMAIN Own
                                    /\ q \in DOMAIN Own => Own'[q] = Own[q]
<1>1. ASSUME NEW q \in Objects \ {o}
      PROVE  /\ q \in DOMAIN Own' <=> q \in DOMAIN Own
             /\ q \in DOMAIN Own => Own'[q] = Own[q]
  <2>1. object'[q] = object[q]
      BY <1>1 DEF Aside
  <2>2. q \in DOMAIN Own' <=> q \in DOMAIN Own
      BY <1>1, <2>1, OwnOf, OwnNextIs DEF OwnNext
  <2>3. ASSUME q \in DOMAIN Own
        PROVE  Own'[q] = Own[q]
    <3>1. object[q] # Nil
        BY <2>3, OwnOf
    <3>2. Alike(shape'[object[q].shape], ShapeOf(q))
        BY <1>1, <3>1 DEF Aside, ShapeOf
    <3>3. Own[q] = Scripted(ShapeOf(q).proto, ShapeOf(q).props, object[q].values)
        BY <3>1, OwnOf
    <3>4. Own'[q] = Scripted(shape'[object[q].shape].proto, shape'[object[q].shape].props,
                             object[q].values)
        BY <2>1, <3>1, OwnNextIs DEF OwnNext
    <3> QED BY <3>2, <3>3, <3>4 DEF Alike
  <2> QED BY <2>2, <2>3
<1> QED BY <1>1

\* A script sees r of the object, and what it saw of the others.
SeenAs(o, r) == Own' = [q \in DOMAIN Own \cup {o} |-> IF q = o THEN r ELSE Own[q]]

\* An object that turns is what it has turned to.
LEMMA TurnsSeen ==
    ASSUME NEW o \in Objects, NEW proto, NEW props, NEW values, Turns(o, proto, props, values)
    PROVE  SeenAs(o, Scripted(proto, props, values))
<1>1. o \in DOMAIN Own' /\ Own'[o] = Scripted(proto, props, values)
    BY OwnNextIs DEF OwnNext, Turns
<1>2. \A q \in Objects \ {o} : /\ q \in DOMAIN Own' <=> q \in DOMAIN Own
                               /\ q \in DOMAIN Own => Own'[q] = Own[q]
    BY AsideSeen DEF Turns
<1>3. DOMAIN Own' \subseteq Objects /\ DOMAIN Own \subseteq Objects /\ Own' = [q \in DOMAIN Own' |-> Own'[q]]
    BY OwnOf, OwnNextIs DEF OwnNext
<1>4. DOMAIN Own' = DOMAIN Own \cup {o}
    BY <1>1, <1>2, <1>3
<1>5. \A q \in DOMAIN Own' : Own'[q] = IF q = o THEN Scripted(proto, props, values) ELSE Own[q]
    BY <1>1, <1>2, <1>3
<1> QED BY <1>3, <1>4, <1>5 DEF SeenAs

\* The same of an object that was there.
LEMMA TurnsPut ==
    ASSUME NEW o \in Objects, object[o] # Nil, NEW proto, NEW props, NEW values,
           Turns(o, proto, props, values), NEW r, r = Scripted(proto, props, values)
    PROVE  o \in DOMAIN Own /\ Own' = [Own EXCEPT ![o] = r]
<1>1. o \in DOMAIN Own
    BY OwnOf
<1>2. SeenAs(o, r)
    BY TurnsSeen
<1>3. DOMAIN Own \cup {o} = DOMAIN Own
    BY <1>1
<1>4. PICK D : D = DOMAIN Own
    OBVIOUS
<1>5. Own' = [q \in D |-> IF q = o THEN r ELSE Own[q]]
    BY <1>2, <1>3, <1>4 DEF SeenAs
<1>6. Own = [q \in D |-> Own[q]]
    BY <1>4, OwnOf
<1> QED BY <1>1, <1>4, <1>5, <1>6

\* What an object has.
LEMMA PairedNow ==
    ASSUME ShapesInv, NEW o \in Objects, object[o] # Nil
    PROVE  Paired(ShapeOf(o).props, object[o].values)
BY ShapeOfLive, ObjectTypes, ShapeTypes DEF Paired, Fits, Good

\* free_object
LEMMA FreeSeen ==
    ASSUME NEW o \in Objects, FreeObject(o), Goes(o)
    PROVE  Apart!Free(o)
<1>1. o \in DOMAIN Own
    BY OwnOf DEF FreeObject, Live
<1>2. o \notin DOMAIN Own'
    BY OwnNextIs DEF OwnNext, Goes
<1>3. \A q \in Objects \ {o} : /\ q \in DOMAIN Own' <=> q \in DOMAIN Own
                               /\ q \in DOMAIN Own => Own'[q] = Own[q]
    BY AsideSeen DEF Goes
<1>4. DOMAIN Own' \subseteq Objects /\ DOMAIN Own \subseteq Objects /\ Own' = [q \in DOMAIN Own' |-> Own'[q]]
    BY OwnOf, OwnNextIs DEF OwnNext
<1>5. DOMAIN Own' = DOMAIN Own \ {o}
    BY <1>2, <1>3, <1>4
<1>6. \A q \in DOMAIN Own' : Own'[q] = Own[q]
    BY <1>2, <1>3, <1>4
<1>7. Own' = [q \in DOMAIN Own \ {o} |-> Own[q]]
    BY <1>4, <1>5, <1>6
<1> QED BY <1>1, <1>7 DEF Apart!Free, Apart!Live

\* JS_NewObjectFromShape
LEMMA NewSeen ==
    ASSUME NEW o \in Objects, NEW proto, NewObject(o, proto), Turns(o, proto, <<>>, <<>>)
    PROVE  Apart!New(o, proto)
<1>1. o \notin DOMAIN Own
    BY OwnOf DEF NewObject, Live
<1>2. Scripted(proto, <<>>, <<>>) = [proto |-> proto, props |-> <<>>]
  <2>1. Kept(<<>>) = {}
      BY DEF Kept
  <2>2. Cardinality(Kept(<<>>)) = 0
      BY <2>1, FS_EmptySet
  <2>3. Packed(Zipped(<<>>, <<>>), Kept(<<>>)) = <<>>
      BY <2>2 DEF Packed
  <2> QED BY <2>3 DEF Scripted
<1>3. PICK r : r = Scripted(proto, <<>>, <<>>)
    OBVIOUS
<1>4. SeenAs(o, r)
    BY <1>3, TurnsSeen
<1>5. r = [proto |-> proto, props |-> <<>>]
    BY <1>2, <1>3
<1> QED BY <1>1, <1>4, <1>5 DEF Apart!New, Apart!Live, SeenAs

\* JS_SetPrototypeInternal
LEMMA SetPrototypeSeen ==
    ASSUME ShapesInv, NEW o \in Objects, NEW proto, SetPrototype(o, proto),
           Turns(o, proto, ShapeOf(o).props, object[o].values)
    PROVE  Apart!SetPrototype(o, proto)
<1>1. object[o] # Nil
    BY DEF SetPrototype, Live
<1>2. PICK r : r = Scripted(proto, ShapeOf(o).props, object[o].values)
    OBVIOUS
<1>3. o \in DOMAIN Own /\ Own' = [Own EXCEPT ![o] = r]
    BY <1>1, <1>2, TurnsPut
<1>4. Own[o] = Scripted(ShapeOf(o).proto, ShapeOf(o).props, object[o].values)
    BY <1>1, OwnOf
<1>5. r = [Own[o] EXCEPT !.proto = proto]
    BY <1>2, <1>4 DEF Scripted
<1>6. Own' = [Own EXCEPT ![o].proto = proto]
    BY <1>3, <1>5
<1> QED BY <1>3, <1>6 DEF Apart!SetPrototype, Apart!Live

\* What has a name is not deleted.
LEMMA NamedKept ==
    ASSUME ShapesInv, NEW o \in Objects, object[o] # Nil, NEW atom \in Atoms, NEW k,
           IsAt(o, atom, k)
    PROVE  /\ k \in DOMAIN ShapeOf(o).props /\ k \in Kept(ShapeOf(o).props)
           /\ ShapeOf(o).props[k].atom = atom /\ atom # Nil
<1>1. atom # Nil
    BY ShapesAssumption
<1>2. Deleted.atom = Nil
    BY DEF Deleted
<1> QED BY <1>1, <1>2 DEF IsAt, Kept

\* js_update_property_flags
LEMMA FlagsSeen ==
    ASSUME ShapesInv, NEW o \in Objects, object[o] # Nil, NEW atom \in Atoms,
           NEW flags \in BOOLEAN, NEW k, Flagged(o, atom, flags, k)
    PROVE  Apart!SetFlags(o, atom, flags)
<1>1. PICK props : props = ShapeOf(o).props
    OBVIOUS
<1>2. PICK values : values = object[o].values
    OBVIOUS
<1>3. PICK z : z = Zipped(props, values)
    OBVIOUS
<1>4. PICK K : K = Kept(props)
    OBVIOUS
<1>5. Paired(props, values)
    BY <1>1, <1>2, PairedNow
<1>6. /\ z \in Seq(PropValue) /\ DOMAIN z = DOMAIN props /\ K \in SUBSET DOMAIN z
      /\ \A j \in DOMAIN z : z[j] = Valuing(props[j], values[j])
    BY <1>3, <1>4, <1>5, ZippedTypes
<1>7. k \in DOMAIN props /\ k \in K /\ props[k].atom = atom /\ atom # Nil
    BY <1>1, <1>4, NamedKept DEF Flagged
<1>8. PICK f : f = [props[k] EXCEPT !.flags = flags]
    OBVIOUS
<1>9. f \in Prop /\ f.atom = atom /\ f.flags = flags
  <2>1. props[k] \in Prop
      BY <1>5, <1>7 DEF Paired
  <2> QED BY <1>7, <1>8, <2>1 DEF Prop
<1>10. PICK new : new = [props EXCEPT ![k] = f]
    OBVIOUS
<1>11. /\ DOMAIN new = DOMAIN props /\ new[k] = f
       /\ \A j \in DOMAIN props : j # k => new[j] = props[j]
    BY <1>5, <1>7, <1>10 DEF Paired
<1>12. Kept(new) = K
  <2>1. f # Deleted /\ props[k] # Deleted
      BY <1>7, <1>9 DEF Deleted
  <2> QED BY <1>4, <1>11, <2>1 DEF Kept
<1>13. PICK e : e = Valuing(f, values[k])
    OBVIOUS
<1>14. e \in PropValue /\ e = [z[k] EXCEPT !.flags = flags] /\ z[k].atom = atom
  <2>1. z[k] \in PropValue /\ z[k] = Valuing(props[k], values[k])
      BY <1>6, <1>7
  <2>2. e = [atom |-> atom, flags |-> flags, value |-> values[k]]
      BY <1>9, <1>13 DEF Valuing
  <2>3. z[k] = [atom |-> atom, flags |-> props[k].flags, value |-> values[k]]
      BY <1>7, <2>1 DEF Valuing
  <2>4. values[k] \in Atoms \cup {Nil}
      BY <2>1, <2>3 DEF PropValue
  <2> QED BY <2>2, <2>3, <2>4 DEF PropValue
<1>15. Zipped(new, values) = [z EXCEPT ![k] = e]
  <2>1. \A j \in DOMAIN z : Valuing(new[j], values[j]) = IF j = k THEN e ELSE z[j]
      BY <1>6, <1>11, <1>13
  <2>2. Zipped(new, values) = [j \in DOMAIN z |-> Valuing(new[j], values[j])]
      BY <1>6, <1>11 DEF Zipped
  <2>3. [z EXCEPT ![k] = e] = [j \in DOMAIN z |-> IF j = k THEN e ELSE z[j]]
      BY <1>6
  <2> QED BY <2>1, <2>2, <2>3
<1>16. PICK r : r = Rank(K, k) + 1
    OBVIOUS
<1>17. PICK p : p = Packed(z, K)
    OBVIOUS
<1>18. z \in Seq(PropValue) /\ K \in SUBSET DOMAIN z /\ k \in K /\ e \in PropValue
    BY <1>6, <1>7, <1>14
<1>19. r \in DOMAIN p /\ p[r] = z[k]
  <2>1. z \in Seq(PropValue) /\ K \in SUBSET DOMAIN z /\ k \in K
      BY <1>18
  <2>2. LessOne(z, K, k, r, p)
      BY <1>16, <1>17, <2>1, PackedLess
  <2> QED BY <2>2 DEF LessOne
<1>20. Packed([z EXCEPT ![k] = e], K) = [p EXCEPT ![r] = e]
    BY <1>16, <1>17, <1>18, PackedPut
<1>21. PICK proto : proto = ShapeOf(o).proto
    OBVIOUS
<1>22. Scripted(proto, new, values) = [proto |-> proto, props |-> [p EXCEPT ![r] = e]]
    BY <1>12, <1>15, <1>20 DEF Scripted
<1>23. Own[o] = [proto |-> proto, props |-> p]
    BY <1>1, <1>2, <1>3, <1>4, <1>17, <1>21, OwnOf DEF Scripted
<1>24. PICK w : w = Scripted(proto, new, values)
    OBVIOUS
<1>25. o \in DOMAIN Own /\ Own' = [Own EXCEPT ![o] = w]
  <2>1. Turns(o, proto, new, values)
      BY <1>1, <1>2, <1>8, <1>10, <1>21 DEF Flagged
  <2> QED BY <1>24, <2>1, TurnsPut
<1>26. w = [Own[o] EXCEPT !.props[r].flags = flags]
    BY <1>14, <1>19, <1>22, <1>23, <1>24
<1>27. Own' = [Own EXCEPT ![o].props[r].flags = flags]
    BY <1>25, <1>26
<1>28. r \in DOMAIN Own[o].props /\ Own[o].props[r].atom = atom
    BY <1>14, <1>19, <1>23
<1> QED BY <1>25, <1>27, <1>28 DEF Apart!SetFlags, Apart!Live, Apart!IsAt

\* A script sees the same when the deleted properties are gone.
LEMMA CompactSeen ==
    ASSUME NEW proto, NEW props, NEW values, Paired(props, values), NEW K, K = Kept(props)
    PROVE  Scripted(proto, Packed(props, K), Packed(values, K)) = Scripted(proto, props, values)
<1>1. PICK z : z = Zipped(props, values)
    OBVIOUS
<1>2. /\ z \in Seq(PropValue) /\ DOMAIN z = 1..Len(props) /\ DOMAIN z = DOMAIN props
      /\ \A j \in DOMAIN z : z[j] = Valuing(props[j], values[j])
      /\ K \in SUBSET DOMAIN z
    BY <1>1, ZippedTypes
<1>3. props \in Seq(Prop) /\ K \in SUBSET DOMAIN props
    BY <1>2 DEF Paired
<1>4. values \in Seq(Atoms \cup {Nil}) /\ K \in SUBSET DOMAIN values
    BY <1>2 DEF Paired
<1>5. PICK N : N = Cardinality(K)
    OBVIOUS
<1>6. PICK q : q = Packed(props, K)
    OBVIOUS
<1>7. PICK v : v = Packed(values, K)
    OBVIOUS
<1>8. PICK p : p = Packed(z, K)
    OBVIOUS
<1>9. /\ q \in Seq(Prop) /\ DOMAIN q = 1..N
      /\ \A n \in 1..N : Nth(K, n) \in K /\ q[n] = props[Nth(K, n)]
    BY <1>3, <1>5, <1>6, PackedIs
<1>10. \A n \in 1..N : v[n] = values[Nth(K, n)]
    BY <1>4, <1>5, <1>7, PackedIs
<1>11. /\ p \in Seq(PropValue) /\ Len(p) = N /\ N \in Nat /\ DOMAIN p = 1..N
       /\ \A n \in 1..N : p[n] = z[Nth(K, n)]
  <2>1. z \in Seq(PropValue) /\ K \in SUBSET DOMAIN z
      BY <1>2
  <2> QED BY <1>5, <1>8, <2>1, PackedIs
<1>12. Kept(q) = DOMAIN p
  <2>1. \A n \in 1..N : q[n] # Deleted
      BY <1>9 DEF Kept
  <2> QED BY <1>9, <1>11, <2>1 DEF Kept
<1>13. Zipped(q, v) = p
  <2>1. Zipped(q, v) = [n \in 1..N |-> Valuing(q[n], v[n])]
      BY <1>9 DEF Zipped
  <2>2. \A n \in 1..N : Valuing(q[n], v[n]) = p[n]
    <3>1. ASSUME NEW n \in 1..N
          PROVE  Valuing(q[n], v[n]) = p[n]
      <4>1. PICK k : k = Nth(K, n)
          OBVIOUS
      <4>2. k \in DOMAIN z /\ q[n] = props[k] /\ v[n] = values[k] /\ p[n] = z[k]
          BY <1>2, <1>9, <1>10, <1>11, <4>1
      <4> QED BY <1>2, <4>2
    <3> QED BY <3>1
  <2>3. p = [n \in 1..N |-> p[n]]
      BY <1>11
  <2> QED BY <2>1, <2>2, <2>3
<1>14. Packed(p, DOMAIN p) = p
    BY <1>11, PackedAll
<1>15. Scripted(proto, q, v) = [proto |-> proto, props |-> p]
    BY <1>12, <1>13, <1>14 DEF Scripted
<1>16. Scripted(proto, props, values) = [proto |-> proto, props |-> p]
    BY <1>1, <1>8 DEF Scripted
<1> QED BY <1>6, <1>7, <1>15, <1>16

\* delete_property
LEMMA DeleteSeen ==
    ASSUME ShapesInv, NEW o \in Objects, object[o] # Nil, NEW atom \in Atoms,
           NEW k, IsAt(o, atom, k), NEW q, NEW v, Emptied(o, k, q, v)
    PROVE  Apart!Delete(o, atom)
<1>1. PICK props : props = ShapeOf(o).props
    OBVIOUS
<1>2. PICK values : values = object[o].values
    OBVIOUS
<1>3. PICK z : z = Zipped(props, values)
    OBVIOUS
<1>4. PICK K : K = Kept(props)
    OBVIOUS
<1>5. PICK proto : proto = ShapeOf(o).proto
    OBVIOUS
<1>6. Paired(props, values)
    BY <1>1, <1>2, PairedNow
<1>7. /\ z \in Seq(PropValue) /\ DOMAIN z = DOMAIN props /\ K \in SUBSET DOMAIN z
      /\ \A j \in DOMAIN z : z[j] = Valuing(props[j], values[j])
    BY <1>3, <1>4, <1>6, ZippedTypes
<1>8. k \in DOMAIN props /\ k \in K /\ props[k].atom = atom
    BY <1>1, <1>4, NamedKept
<1>9. /\ q = [props EXCEPT ![k] = Deleted] /\ v = [values EXCEPT ![k] = Nil]
      /\ Turns(o, proto, q, v) \/ Turns(o, proto, Packed(q, Kept(q)), Packed(v, Kept(q)))
    BY <1>1, <1>2, <1>5 DEF Emptied
<1>10. Paired(q, v)
  <2>1. Deleted \in Prop
      BY DEF Deleted, Prop
  <2>2. q \in Seq(Prop) /\ Len(q) = Len(props)
      BY <1>6, <1>8, <1>9, <2>1 DEF Paired
  <2>3. v \in Seq(Atoms \cup {Nil}) /\ Len(v) = Len(values)
    <3>1. values \in Seq(Atoms \cup {Nil}) /\ k \in 1..Len(values)
        BY <1>6, <1>8 DEF Paired
    <3> QED BY <1>9, <3>1
  <2> QED BY <1>6, <2>2, <2>3 DEF Paired
<1>11. /\ DOMAIN q = DOMAIN props /\ q[k] = Deleted
       /\ \A j \in DOMAIN props : j # k => q[j] = props[j] /\ v[j] = values[j]
  <2>1. DOMAIN props = 1..Len(props) /\ DOMAIN values = 1..Len(props)
      BY <1>6 DEF Paired
  <2> QED BY <1>8, <1>9, <2>1
<1>12. PICK M : M = K \ {k}
    OBVIOUS
<1>13. Kept(q) = M
    BY <1>4, <1>11, <1>12 DEF Kept
<1>14. PICK y : y = Zipped(q, v)
    OBVIOUS
<1>15. /\ y \in Seq(PropValue) /\ DOMAIN y = DOMAIN q /\ M \in SUBSET DOMAIN y
       /\ \A j \in DOMAIN y : y[j] = Valuing(q[j], v[j])
    BY <1>10, <1>13, <1>14, ZippedTypes
<1>16. Packed(y, M) = Packed(z, M)
  <2>1. y \in Seq(PropValue) /\ z \in Seq(PropValue) /\ M \in SUBSET DOMAIN y /\ M \in SUBSET DOMAIN z
      BY <1>7, <1>11, <1>15
  <2>2. \A j \in M : y[j] = z[j]
      BY <1>7, <1>11, <1>12, <1>15
  <2> QED BY <2>1, <2>2, PackedSkips
<1>17. PICK p : p = Packed(z, K)
    OBVIOUS
<1>18. PICK r : r = Rank(K, k) + 1
    OBVIOUS
<1>19. r \in DOMAIN p /\ p[r] = z[k] /\ Packed(y, M) = RemoveAt(p, r)
  <2>1. z \in Seq(PropValue) /\ K \in SUBSET DOMAIN z /\ k \in K
      BY <1>7, <1>8
  <2>2. LessOne(z, K, k, r, p)
      BY <1>17, <1>18, <2>1, PackedLess
  <2> QED BY <1>12, <1>16, <2>2 DEF LessOne
<1>20. PICK w : w = Scripted(proto, q, v)
    OBVIOUS
<1>21. w = [proto |-> proto, props |-> RemoveAt(p, r)]
    BY <1>13, <1>14, <1>19, <1>20 DEF Scripted
<1>22. o \in DOMAIN Own /\ Own' = [Own EXCEPT ![o] = w]
  <2>1. CASE Turns(o, proto, q, v)
      BY <1>20, <2>1, TurnsPut
  <2>2. CASE Turns(o, proto, Packed(q, Kept(q)), Packed(v, Kept(q)))
    <3>1. PICK a : a = Packed(q, Kept(q))
        OBVIOUS
    <3>2. PICK b : b = Packed(v, Kept(q))
        OBVIOUS
    <3>3. Turns(o, proto, a, b)
        BY <2>2, <3>1, <3>2
    <3>4. w = Scripted(proto, a, b)
        BY <1>10, <1>20, <3>1, <3>2, CompactSeen
    <3> QED BY <3>3, <3>4, TurnsPut
  <2> QED BY <1>9, <2>1, <2>2
<1>23. Own[o] = [proto |-> proto, props |-> p]
    BY <1>1, <1>2, <1>3, <1>4, <1>5, <1>17, OwnOf DEF Scripted
<1>24. w = [Own[o] EXCEPT !.props = RemoveAt(@, r)]
    BY <1>21, <1>23
<1>25. Own' = [Own EXCEPT ![o].props = RemoveAt(@, r)]
    BY <1>22, <1>24
<1>26. r \in DOMAIN Own[o].props /\ Own[o].props[r].atom = atom
  <2>1. z[k] = Valuing(props[k], values[k])
      BY <1>7, <1>8
  <2> QED BY <1>8, <1>19, <1>23, <2>1 DEF Valuing
<1>27. Own' = [Own EXCEPT ![o].props = Apart!RemoveAt(@, r)]
    BY <1>25 DEF Apart!RemoveAt, RemoveAt
<1> QED BY <1>22, <1>26, <1>27 DEF Apart!Delete, Apart!Live, Apart!IsAt

\* add_property
LEMMA AddSeen ==
    ASSUME ShapesInv, NEW o \in Objects, object[o] # Nil, NEW atom \in Atoms,
           NEW flags \in BOOLEAN, ~Has(o, atom), NEW f, f = [atom |-> atom, flags |-> flags],
           Grows(o, atom, f)
    PROVE  Apart!Add(o, atom, flags)
<1>1. PICK props : props = ShapeOf(o).props
    OBVIOUS
<1>2. PICK values : values = object[o].values
    OBVIOUS
<1>3. PICK z : z = Zipped(props, values)
    OBVIOUS
<1>4. PICK K : K = Kept(props)
    OBVIOUS
<1>5. PICK proto : proto = ShapeOf(o).proto
    OBVIOUS
<1>6. Paired(props, values)
    BY <1>1, <1>2, PairedNow
<1>7. /\ z \in Seq(PropValue) /\ DOMAIN z = DOMAIN props /\ K \in SUBSET DOMAIN z
      /\ Len(z) = Len(props) /\ \A j \in DOMAIN z : z[j] = Valuing(props[j], values[j])
    BY <1>3, <1>4, <1>6, ZippedTypes
<1>8. PICK N \in Nat : N = Len(props)
    BY <1>6 DEF Paired
<1>9. f \in Prop /\ f # Deleted
  <2>1. atom # Nil
      BY ShapesAssumption
  <2> QED BY <2>1 DEF Prop, Deleted
<1>10. PICK q : q = Append(props, f)
    OBVIOUS
<1>11. PICK v : v = Append(values, atom)
    OBVIOUS
<1>12. /\ q \in Seq(Prop) /\ Len(q) = N + 1 /\ DOMAIN q = 1..(N + 1) /\ q[N + 1] = f
       /\ \A j \in 1..N : q[j] = props[j]
    BY <1>6, <1>8, <1>9, <1>10 DEF Paired
<1>13. /\ v \in Seq(Atoms \cup {Nil}) /\ Len(v) = N + 1 /\ v[N + 1] = atom
       /\ \A j \in 1..N : v[j] = values[j]
    BY <1>6, <1>8, <1>11 DEF Paired
<1>14. Paired(q, v)
    BY <1>12, <1>13 DEF Paired
<1>15. DOMAIN props = 1..N /\ \A j \in 1..(N + 1) : j = N + 1 \/ j \in 1..N
    BY <1>6, <1>8 DEF Paired
<1>16. Kept(q) = K \cup {N + 1}
  <2>1. \A j \in Kept(q) : j \in K \cup {N + 1}
      BY <1>4, <1>12, <1>15 DEF Kept
  <2>2. \A j \in K : j \in Kept(q)
    <3>1. \A j \in 1..N : j \in 1..(N + 1)
        OBVIOUS
    <3> QED BY <1>4, <1>12, <1>15, <3>1 DEF Kept
  <2>3. N + 1 \in Kept(q)
      BY <1>9, <1>12 DEF Kept
  <2> QED BY <2>1, <2>2, <2>3
<1>17. PICK e : e = [atom |-> atom, flags |-> flags, value |-> atom]
    OBVIOUS
<1>18. e \in PropValue /\ e = Valuing(f, atom)
    BY <1>17 DEF PropValue, Valuing
<1>19. PICK y : y = Zipped(q, v)
    OBVIOUS
<1>20. /\ y \in Seq(PropValue) /\ Len(y) = N + 1
       /\ \A j \in 1..(N + 1) : y[j] = Valuing(q[j], v[j])
  <2>1. /\ y \in Seq(PropValue) /\ Len(y) = Len(q) /\ DOMAIN y = DOMAIN q
        /\ \A j \in DOMAIN y : y[j] = Valuing(q[j], v[j])
      BY <1>14, <1>19, ZippedTypes
  <2> QED BY <1>12, <2>1
<1>21. PICK a : a = Append(z, e)
    OBVIOUS
<1>22. a \in Seq(PropValue) /\ Len(a) = N + 1 /\ a[N + 1] = e /\ \A j \in 1..N : a[j] = z[j]
  <2>1. z \in Seq(PropValue) /\ Len(z) = N
      BY <1>7, <1>8
  <2> QED BY <1>18, <1>21, <2>1
<1>23. y = a
  <2>1. \A j \in 1..N : y[j] = a[j]
    <3>1. \A j \in 1..N : j \in 1..(N + 1)
        OBVIOUS
    <3>2. \A j \in 1..N : y[j] = Valuing(props[j], values[j])
        BY <1>12, <1>13, <1>20, <3>1
    <3>3. \A j \in 1..N : a[j] = Valuing(props[j], values[j])
        BY <1>7, <1>15, <1>22
    <3> QED BY <3>2, <3>3
  <2>2. y[N + 1] = a[N + 1]
      BY <1>12, <1>13, <1>18, <1>20, <1>22
  <2>3. \A j \in 1..Len(y) : y[j] = a[j]
      BY <1>15, <1>20, <2>1, <2>2
  <2> QED BY <1>20, <1>22, <2>3, SameSeq
<1>24. PICK p : p = Packed(z, K)
    OBVIOUS
<1>25. Packed(y, Kept(q)) = Append(p, e)
  <2>1. z \in Seq(PropValue) /\ K \in SUBSET DOMAIN z /\ N + 1 = Len(z) + 1
      BY <1>7, <1>8
  <2>2. PICK M : M = K \cup {N + 1}
      OBVIOUS
  <2>3. Packed(a, M) = Append(p, e)
      BY <1>18, <1>21, <1>24, <2>1, <2>2, PackedMore
  <2>4. Kept(q) = M
      BY <1>16, <2>2
  <2> QED BY <1>23, <2>3, <2>4
<1>26. PICK w : w = Scripted(proto, q, v)
    OBVIOUS
<1>27. w = [proto |-> proto, props |-> Append(p, e)]
    BY <1>19, <1>25, <1>26 DEF Scripted
<1>28. o \in DOMAIN Own /\ Own' = [Own EXCEPT ![o] = w]
  <2>1. Turns(o, proto, q, v)
      BY <1>1, <1>2, <1>5, <1>10, <1>11 DEF Grows
  <2> QED BY <1>26, <2>1, TurnsPut
<1>29. Own[o] = [proto |-> proto, props |-> p]
    BY <1>1, <1>2, <1>3, <1>4, <1>5, <1>24, OwnOf DEF Scripted
<1>30. w = [Own[o] EXCEPT !.props = Append(@, e)]
  <2>1. PICK c : c = Append(p, e)
      OBVIOUS
  <2>2. w = [proto |-> proto, props |-> c]
      BY <1>27, <2>1
  <2>3. w = [Own[o] EXCEPT !.props = c]
      BY <1>29, <2>2
  <2>4. c = Append(Own[o].props, e)
      BY <1>29, <2>1
  <2> QED BY <2>3, <2>4
<1>31. Own' = [Own EXCEPT ![o].props = Append(@, e)]
    BY <1>28, <1>30
<1>32. \A r \in DOMAIN p : p[r].atom # atom
  <2>1. \A r \in DOMAIN p : Nth(K, r) \in K /\ p[r] = z[Nth(K, r)]
    <3>1. z \in Seq(PropValue) /\ K \in SUBSET DOMAIN z
        BY <1>7
    <3>2. PICK n : n = Cardinality(K)
        OBVIOUS
    <3>3. DOMAIN p = 1..n /\ \A r \in 1..n : Nth(K, r) \in K /\ p[r] = z[Nth(K, r)]
        BY <1>24, <3>1, <3>2, PackedIs
    <3> QED BY <3>3
  <2>2. \A j \in K : z[j].atom # atom
    <3>1. \A j \in DOMAIN props : props[j].atom # atom
        BY <1>1 DEF Has, IsAt
    <3> QED BY <1>7, <3>1 DEF Valuing
  <2> QED BY <2>1, <2>2
<1>33. \A r \in DOMAIN Own[o].props : Own[o].props[r].atom # atom
    BY <1>29, <1>32
<1> QED BY <1>17, <1>28, <1>31, <1>33 DEF Apart!Add, Apart!Live, Apart!IsAt

-----------------------------------------------------------------------------
\* Every step is one of OwnProperties.
LEMMA ShapesStepSeen ==
    ShapesInv /\ [ShapesNext]_shapevars => [Apart!Next]_Own
<1> SUFFICES ASSUME ShapesInv, [ShapesNext]_shapevars
             PROVE  [Apart!Next]_Own
    OBVIOUS
<1>1. CASE UNCHANGED shapevars
  <2>1. shape' = shape /\ object' = object
      BY <1>1 DEF shapevars
  <2>2. Own' = Own
      BY <2>1 DEF Own, Live, View, ShapeOf, Kept, Packed, Nth
  <2> QED BY <2>2
<1>2. ASSUME NEW o \in Objects, FreeObject(o)
      PROVE  Apart!Next
  <2>1. Apart!Free(o)
      BY <1>2, FreeObjectKeeps, FreeSeen
  <2> QED BY <2>1 DEF Apart!Next
<1>3. ASSUME NEW o \in Objects, NEW proto \in Protos, NewObject(o, proto)
      PROVE  Apart!Next
  <2>1. Apart!New(o, proto)
      BY <1>3, NewObjectKeeps, NewSeen
  <2> QED BY <2>1 DEF Apart!Next
<1>4. ASSUME NEW o \in Objects, NEW proto \in Protos, SetPrototype(o, proto)
      PROVE  Apart!Next
  <2>1. Apart!SetPrototype(o, proto)
      BY <1>4, SetPrototypeKeeps, SetPrototypeSeen
  <2> QED BY <2>1 DEF Apart!Next
<1>5. ASSUME NEW o \in Objects, NEW atom \in Atoms, DeleteProperty(o, atom)
      PROVE  Apart!Next
  <2>1. object[o] # Nil
      BY <1>5 DEF DeleteProperty, Live
  <2>2. PICK k, props, values : IsAt(o, atom, k) /\ Emptied(o, k, props, values)
      BY <1>5, DeletePropertyKeeps
  <2>3. Apart!Delete(o, atom)
      BY <2>1, <2>2, DeleteSeen
  <2> QED BY <2>3 DEF Apart!Next
<1>6. ASSUME NEW o \in Objects, NEW atom \in Atoms, NEW flags \in BOOLEAN,
             AddProperty(o, atom, flags)
      PROVE  Apart!Next
  <2>1. object[o] # Nil /\ ~Has(o, atom)
      BY <1>6 DEF AddProperty, Live
  <2>2. PICK f : f = [atom |-> atom, flags |-> flags]
      OBVIOUS
  <2>3. Grows(o, atom, f)
      BY <1>6, <2>2, AddPropertyKeeps
  <2>4. Apart!Add(o, atom, flags)
      BY <2>1, <2>2, <2>3, AddSeen
  <2> QED BY <2>4 DEF Apart!Next
<1>7. ASSUME NEW o \in Objects, NEW atom \in Atoms, NEW flags \in BOOLEAN,
             SetFlags(o, atom, flags)
      PROVE  Apart!Next
  <2>1. object[o] # Nil
      BY <1>7 DEF SetFlags, Live
  <2>2. PICK k : Flagged(o, atom, flags, k)
      BY <1>7, SetFlagsKeeps
  <2>3. Apart!SetFlags(o, atom, flags)
      BY <2>1, <2>2, FlagsSeen
  <2> QED BY <2>3 DEF Apart!Next
<1> QED BY <1>1, <1>2, <1>3, <1>4, <1>5, <1>6, <1>7 DEF ShapesNext

\* Sharing shapes, copying on write and compacting are not seen by scripts: what
\* is done to an object changes that object as OwnProperties says, and no other.
THEOREM SharingUnseen == ShapesSpec => ObjectsApart
<1>1. ShapesInit => Apart!Init
  <2>1. SUFFICES ASSUME ShapesInit
                 PROVE  Own = [o \in {} |-> <<>>]
      BY DEF Apart!Init
  <2>2. \A o \in Objects : object[o] = Nil
      BY <2>1 DEF ShapesInit
  <2>3. {o \in Objects : Live(o)} = {}
      BY <2>2 DEF Live
  <2> QED BY <2>3 DEF Own
<1>2. ShapesInv /\ [ShapesNext]_shapevars => [Apart!Next]_Own
    BY ShapesStepSeen
<1> QED BY <1>1, <1>2, ShapesInvHolds, PTL DEF ShapesSpec, ObjectsApart, Apart!Spec

-----------------------------------------------------------------------------
(***************************************************************************)
(* MapIterators: the inductive invariant                                   *)
(***************************************************************************)

\* The iterators that stand on a record, and the calls of forEach.
Standing(s, r) == {i \in Iters : s.state[i] = "live" /\ s.cur[i] = r}
Calling(s, r) == {c \in DOMAIN s.calls : s.calls[c].record = r}

\* The locks of each record.
Locks(s) == [r \in Records |-> Cardinality(Standing(s, r)) + Cardinality(Calling(s, r))]

\* A record on the list has one reference for each lock, and one of the map
\* unless it is empty; h counts the locks.
Counts(s, h) ==
    \A r \in Records :
        /\ r \in s.records => s.refs[r] > 0 /\ s.refs[r] = h[r] + (IF s.empty[r] THEN 0 ELSE 1)
        /\ h[r] > 0 => r \in s.records

\* The references of s are in order, if h counts the locks.
Balanced(s, h) == s \in Map /\ ~s.fault /\ h \in [Records -> Nat] /\ Counts(s, h)

\* Iterators that are values of the map or of a call are not gone; only
\* records that are not empty have a value, and only an iterator that was made
\* has a record.
There(s, i) == s.state[i] \in {"live", "done"}
Sound(s) ==
    /\ \A r \in Records : s.value[r] # None =>
          r \in s.records /\ ~s.empty[r] /\ There(s, s.value[r])
    /\ \A c \in DOMAIN s.calls : s.calls[c].value # None => There(s, s.calls[c].value)
    /\ \A i \in Iters : s.state[i] = "unused" => s.cur[i] = None

\* The state of a map that is not freed, as a whole.
Whole(s) == Balanced(s, Locks(s)) /\ Sound(s) /\ s.live

\* Records are made in their order: n is the next.
Made(s, n) ==
    /\ \A r \in s.records : r < n
    /\ \A r \in Records : r >= n => ~s.empty[r]

\* What clear has done.
Cleared(s, tb, mh, cl) ==
    /\ cl # None => mh = TRUE /\ tb = {}
    /\ cl = 0 => \A r \in s.records : s.empty[r]
    /\ cl \in Records =>
          /\ \A r \in s.records : r < cl => s.empty[r]
          /\ cl \in s.records \/ \E i \in Values : s.state[i] = "dead"

\* The hash table has the records that are not deleted, one for each key.
Hashed(s, ks, tb) ==
    /\ tb = {r \in s.records : ~s.empty[r]}
    /\ \A q, r \in tb : ks[q] = ks[r] => q = r

\* Nothing is left of a map that is freed.
Freed(s, tb, mh) ==
    /\ s.records = {} /\ tb = {} /\ s.calls = <<>> /\ mh = FALSE
    /\ \A i \in Iters : s.state[i] # "live"

\* The types, as far as each step keeps them by itself.
MapTyped(s, n, ks, tb, hd, mh, cl) ==
    /\ s \in Map /\ n \in 1..MaxRecords + 1 /\ ks \in Seq(Keys) /\ Len(ks) = n - 1
    /\ tb \subseteq Records /\ hd \subseteq Iters /\ (\A i \in hd : There(s, i))
    /\ mh \in BOOLEAN /\ cl \in {None, 0} \cup Records

\* While no freed memory was read.
Fine(s, n, ks, tb, mh, cl) ==
    /\ s.live => Whole(s)
    /\ Sound(s) /\ Made(s, n) /\ Cleared(s, tb, mh, cl)
    /\ cl = None => Hashed(s, ks, tb)
    /\ ~s.live => Freed(s, tb, mh)
    /\ s.calls # <<>> => mh = TRUE

\* A state of the map that is in order.
MapState(s, n, ks, tb, hd, mh, cl) ==
    /\ MapTyped(s, n, ks, tb, hd, mh, cl)
    /\ s.fault => cl \in Records /\ \E i \in Values : s.state[i] = "dead"
    /\ ~s.fault => Fine(s, n, ks, tb, mh, cl)

\* The inductive invariant of MapIterators.
MapInv == MapState(map, next, key, table, held, mapHeld, clearing)

-----------------------------------------------------------------------------
\* The fields of the map.
LEMMA MapFields ==
    ASSUME NEW s \in Map
    PROVE  /\ s.records \in SUBSET Records /\ s.refs \in [Records -> Nat]
           /\ s.empty \in [Records -> BOOLEAN] /\ s.value \in [Records -> Values \cup {None}]
           /\ s.state \in [Iters -> {"unused", "live", "done", "dead"}]
           /\ s.cur \in [Iters -> Records \cup {None}] /\ s.live \in BOOLEAN
           /\ s.calls \in Seq([record : Records, value : Values \cup {None}])
           /\ s.fault \in BOOLEAN
           /\ Len(s.calls) \in Nat /\ DOMAIN s.calls = 1..Len(s.calls)
BY DEF Map

\* Records are numbers; None and 0 are no records.
LEMMA RecordNumbers ==
    /\ MaxRecords \in Nat /\ Records \subseteq Nat \ {0} /\ None \notin Records /\ None # 0
    /\ Values \subseteq Iters /\ None \notin Iters \cup Keys /\ IsFiniteSet(Iters)
BY MapAssumption DEF Records

\* The locks of a record can be counted.
LEMMA LockSets ==
    ASSUME NEW s \in Map, NEW r
    PROVE  /\ IsFiniteSet(Standing(s, r)) /\ Cardinality(Standing(s, r)) \in Nat
           /\ IsFiniteSet(Calling(s, r)) /\ Cardinality(Calling(s, r)) \in Nat
<1>1. IsFiniteSet(Iters) /\ Standing(s, r) \subseteq Iters
    BY RecordNumbers DEF Standing
<1>2. IsFiniteSet(DOMAIN s.calls) /\ Calling(s, r) \subseteq DOMAIN s.calls
  <2>1. Len(s.calls) \in Nat /\ DOMAIN s.calls = 1..Len(s.calls)
      BY MapFields
  <2>2. IsFiniteSet(1..Len(s.calls))
      BY <2>1, FS_Interval
  <2> QED BY <2>1, <2>2 DEF Calling
<1>3. IsFiniteSet(Standing(s, r))
    BY <1>1, FS_Subset
<1>4. IsFiniteSet(Calling(s, r))
    BY <1>2, FS_Subset
<1> QED BY <1>3, <1>4, FS_CardinalityType

\* Each record has a number of locks.
LEMMA LocksType ==
    ASSUME NEW s \in Map
    PROVE  Locks(s) \in [Records -> Nat]
BY LockSets DEF Locks

\* The value of a call.
LEMMA CallValues ==
    ASSUME NEW s \in Map, NEW c \in DOMAIN s.calls
    PROVE  /\ s.calls[c] \in [record : Records, value : Values \cup {None}]
           /\ s.calls[c].record \in Records
           /\ s.calls[c].value # None => s.calls[c].value \in Iters
<1>1. PICK T : T = [record : Records, value : Values \cup {None}]
    OBVIOUS
<1>2. s.calls \in Seq(T)
    BY <1>1, MapFields
<1>3. s.calls[c] \in [record : Records, value : Values \cup {None}]
  <2>1. s.calls[c] \in T
      BY <1>2
  <2> QED BY <1>1, <2>1
<1>4. s.calls[c].record \in Records /\ s.calls[c].value \in Values \cup {None}
    BY <1>3
<1> QED BY <1>3, <1>4, RecordNumbers

\* A record that somebody stands on, or is called for, is locked.
LEMMA LockedRecord ==
    ASSUME NEW s \in Map, NEW r \in Records,
           Standing(s, r) # {} \/ Calling(s, r) # {}
    PROVE  Locks(s)[r] > 0
<1>1. Cardinality(Standing(s, r)) # 0 \/ Cardinality(Calling(s, r)) # 0
    BY LockSets, FS_EmptySet
<1> QED BY <1>1, LockSets DEF Locks

\* Everything but the records of the list and their references is the same.
Same(s, t) ==
    /\ t.empty = s.empty /\ t.value = s.value /\ t.state = s.state /\ t.cur = s.cur
    /\ t.calls = s.calls /\ t.live = s.live

\* No record goes that is not empty.
Fewer(s, t) ==
    /\ t.records \subseteq s.records
    /\ \A r \in s.records : r \notin t.records => s.empty[r]

\* map_decref_record: one lock less, and the record goes with the last if it
\* is empty.
LEMMA DecrefKeeps ==
    ASSUME NEW s, NEW h, Balanced(s, h), NEW r \in Records, h[r] > 0,
           NEW t, t = Decref(s, r)
    PROVE  Balanced(t, [h EXCEPT ![r] = @ - 1]) /\ Same(s, t) /\ Fewer(s, t)
<1>1. /\ s \in Map /\ s.fault = FALSE /\ h \in [Records -> Nat] /\ r \in s.records /\ s.refs[r] > 0
      /\ s.refs[r] = h[r] + (IF s.empty[r] THEN 0 ELSE 1)
      /\ s.refs \in [Records -> Nat] /\ s.empty \in [Records -> BOOLEAN] /\ s.records \subseteq Records
    BY MapFields DEF Balanced, Counts
<1>2. PICK g : g = [h EXCEPT ![r] = @ - 1]
    OBVIOUS
<1>3. g \in [Records -> Nat] /\ g[r] = h[r] - 1 /\ \A q \in Records \ {r} : g[q] = h[q]
    BY <1>1, <1>2
<1>4. CASE s.refs[r] > 1
  <2>1. t = [s EXCEPT !.refs[r] = @ - 1]
      BY <1>1, <1>4 DEF Decref
  <2>2. PICK f : f = [s.refs EXCEPT ![r] = @ - 1]
      OBVIOUS
  <2>3. f \in [Records -> Nat] /\ f[r] = s.refs[r] - 1 /\ \A q \in Records \ {r} : f[q] = s.refs[q]
      BY <1>1, <1>4, <2>2
  <2>4. t = [s EXCEPT !.refs = f]
      BY <2>1, <2>2
  <2>5. t \in Map /\ t.refs = f /\ t.records = s.records /\ t.fault = s.fault /\ Same(s, t)
      BY <1>1, <2>3, <2>4 DEF Map, Same
  <2>6. Counts(t, g)
    <3>1. ASSUME NEW q \in Records
          PROVE  /\ q \in t.records => t.refs[q] > 0 /\ t.refs[q] = g[q] + (IF t.empty[q] THEN 0 ELSE 1)
                 /\ g[q] > 0 => q \in t.records
      <4>1. CASE q = r
          BY <1>1, <1>3, <1>4, <2>3, <2>5, <4>1 DEF Same
      <4>2. CASE q # r
          BY <1>3, <2>3, <2>5, <3>1, <4>2 DEF Balanced, Counts, Same
      <4> QED BY <4>1, <4>2
    <3> QED BY <3>1 DEF Counts
  <2> QED BY <1>1, <1>2, <1>3, <2>5, <2>6 DEF Balanced, Fewer
<1>5. CASE ~(s.refs[r] > 1)
  <2>1. s.refs[r] = 1 /\ s.empty[r] /\ h[r] = 1
      BY <1>1, <1>5
  <2>2. t = [s EXCEPT !.refs[r] = 0, !.records = @ \ {r}, !.fault = @ \/ ~s.empty[r]]
      BY <1>1, <1>5 DEF Decref
  <2>3. PICK f : f = [s.refs EXCEPT ![r] = 0]
      OBVIOUS
  <2>4. f \in [Records -> Nat] /\ f[r] = 0 /\ \A q \in Records \ {r} : f[q] = s.refs[q]
      BY <1>1, <2>3
  <2>5. PICK R : R = s.records \ {r}
      OBVIOUS
  <2>6. PICK b : b = FALSE
      OBVIOUS
  <2>7. (s.fault \/ ~s.empty[r]) = b
      BY <1>1, <2>1, <2>6
  <2>8. t = [s EXCEPT !.refs = f, !.records = R, !.fault = b]
      BY <2>2, <2>3, <2>5, <2>7
  <2>9. b \in BOOLEAN /\ R \subseteq Records
      BY <1>1, <2>5, <2>6
  <2>10. t \in Map /\ t.refs = f /\ t.records = R /\ t.fault = b /\ Same(s, t)
      BY <1>1, <2>4, <2>8, <2>9 DEF Map, Same
  <2>11. Counts(t, g)
    <3>1. ASSUME NEW q \in Records
          PROVE  /\ q \in t.records => t.refs[q] > 0 /\ t.refs[q] = g[q] + (IF t.empty[q] THEN 0 ELSE 1)
                 /\ g[q] > 0 => q \in t.records
      <4>1. CASE q = r
          BY <1>3, <2>1, <2>5, <2>10, <4>1
      <4>2. CASE q # r
          BY <1>3, <2>4, <2>5, <2>10, <3>1, <4>2 DEF Balanced, Counts, Same
      <4> QED BY <4>1, <4>2
    <3> QED BY <3>1 DEF Counts
  <2>12. Fewer(s, t)
      BY <2>1, <2>5, <2>10 DEF Fewer
  <2>13. ~t.fault
      BY <2>6, <2>10
  <2> QED BY <1>2, <1>3, <2>10, <2>11, <2>12, <2>13 DEF Balanced
<1> QED BY <1>4, <1>5

\* A record on the list may be locked once more.
LEMMA LockKeeps ==
    ASSUME NEW s, NEW h, Balanced(s, h), NEW r \in s.records, NEW t, t = Locked(s, r)
    PROVE  Balanced(t, [h EXCEPT ![r] = @ + 1]) /\ Same(s, t) /\ t.records = s.records
<1>1. /\ s \in Map /\ h \in [Records -> Nat] /\ r \in Records
      /\ s.refs \in [Records -> Nat] /\ s.records \subseteq Records
    BY MapFields DEF Balanced
<1>2. PICK g : g = [h EXCEPT ![r] = @ + 1]
    OBVIOUS
<1>3. g \in [Records -> Nat] /\ g[r] = h[r] + 1 /\ \A q \in Records \ {r} : g[q] = h[q]
    BY <1>1, <1>2
<1>4. PICK f : f = [s.refs EXCEPT ![r] = @ + 1]
    OBVIOUS
<1>5. f \in [Records -> Nat] /\ f[r] = s.refs[r] + 1 /\ \A q \in Records \ {r} : f[q] = s.refs[q]
    BY <1>1, <1>4
<1>6. t = [s EXCEPT !.refs = f]
    BY <1>4 DEF Locked
<1>7. t \in Map /\ t.refs = f /\ t.records = s.records /\ t.fault = s.fault /\ Same(s, t)
    BY <1>1, <1>5, <1>6 DEF Map, Same
<1>8. Counts(t, g)
  <2>1. ASSUME NEW q \in Records
        PROVE  /\ q \in t.records => t.refs[q] > 0 /\ t.refs[q] = g[q] + (IF t.empty[q] THEN 0 ELSE 1)
               /\ g[q] > 0 => q \in t.records
    <3>1. CASE q = r
        BY <1>1, <1>3, <1>5, <1>7, <3>1 DEF Balanced, Counts, Same
    <3>2. CASE q # r
        BY <1>3, <1>5, <1>7, <2>1, <3>2 DEF Balanced, Counts, Same
    <3> QED BY <3>1, <3>2
  <2> QED BY <2>1 DEF Counts
<1> QED BY <1>2, <1>3, <1>7, <1>8 DEF Balanced

-----------------------------------------------------------------------------
(***************************************************************************)
(* Iterators step, calls begin and end                                     *)
(***************************************************************************)

\* Nothing is locked or unlocked.
LEMMA LocksSame ==
    ASSUME NEW s, NEW t, t.state = s.state, t.cur = s.cur, t.calls = s.calls
    PROVE  Locks(t) = Locks(s)
BY DEF Locks, Standing, Calling

\* Iterator i stands on r, in s, and on no record in t.
StepsOff(s, t, i, r) ==
    /\ s.state[i] = "live" /\ s.cur[i] = r
    /\ ~(t.state[i] = "live" /\ t.cur[i] \in Records)
    /\ \A j \in Iters \ {i} : t.state[j] = s.state[j] /\ t.cur[j] = s.cur[j]
    /\ t.calls = s.calls

\* The record that an iterator leaves has one lock less.
LEMMA LocksStepOff ==
    ASSUME NEW s \in Map, NEW t \in Map, NEW i \in Iters, NEW r \in Records, StepsOff(s, t, i, r)
    PROVE  Locks(s)[r] > 0 /\ Locks(t) = [Locks(s) EXCEPT ![r] = @ - 1]
<1>1. i \in Standing(s, r) /\ Standing(t, r) = Standing(s, r) \ {i}
    BY DEF StepsOff, Standing
<1>2. \A q \in Records \ {r} : Standing(t, q) = Standing(s, q)
    BY DEF StepsOff, Standing
<1>3. \A q : Calling(t, q) = Calling(s, q)
    BY DEF StepsOff, Calling
<1>4. Cardinality(Standing(t, r)) = Cardinality(Standing(s, r)) - 1
  <2>1. Cardinality(Standing(s, r) \ {i}) = Cardinality(Standing(s, r)) - 1
      BY <1>1, LockSets, FS_RemoveElement
  <2> QED BY <1>1, <2>1
<1>5. Locks(s)[r] > 0
    BY <1>1, LockedRecord
<1>6. \A q \in Records : Locks(t)[q] = IF q = r THEN Locks(s)[q] - 1 ELSE Locks(s)[q]
    BY <1>2, <1>3, <1>4, LockSets DEF Locks
<1>7. Locks(s) \in [Records -> Nat] /\ Locks(t) \in [Records -> Nat]
    BY LocksType
<1> QED BY <1>5, <1>6, <1>7

\* Iterator i stands on no record, in s, and on r in t.
StepsOn(s, t, i, r) ==
    /\ ~(s.state[i] = "live" /\ s.cur[i] \in Records)
    /\ t.state[i] = "live" /\ t.cur[i] = r
    /\ \A j \in Iters \ {i} : t.state[j] = s.state[j] /\ t.cur[j] = s.cur[j]
    /\ t.calls = s.calls

\* The record that an iterator comes to has one lock more.
LEMMA LocksStepOn ==
    ASSUME NEW s \in Map, NEW t \in Map, NEW i \in Iters, NEW r \in Records, StepsOn(s, t, i, r)
    PROVE  Locks(t) = [Locks(s) EXCEPT ![r] = @ + 1]
<1>1. i \notin Standing(s, r) /\ Standing(t, r) = Standing(s, r) \cup {i}
    BY DEF StepsOn, Standing
<1>2. \A q \in Records \ {r} : Standing(t, q) = Standing(s, q)
    BY DEF StepsOn, Standing
<1>3. \A q : Calling(t, q) = Calling(s, q)
    BY DEF StepsOn, Calling
<1>4. Cardinality(Standing(t, r)) = Cardinality(Standing(s, r)) + 1
  <2>1. Cardinality(Standing(s, r) \cup {i}) = Cardinality(Standing(s, r)) + 1
      BY <1>1, LockSets, FS_AddElement
  <2> QED BY <1>1, <2>1
<1>5. \A q \in Records : Locks(t)[q] = IF q = r THEN Locks(s)[q] + 1 ELSE Locks(s)[q]
    BY <1>2, <1>3, <1>4, LockSets DEF Locks
<1>6. Locks(s) \in [Records -> Nat] /\ Locks(t) \in [Records -> Nat]
    BY LocksType
<1> QED BY <1>5, <1>6

\* The iterators stand where they stood.
Rests(s, t) == t.state = s.state /\ t.cur = s.cur

\* A call of forEach for the record c.record.
LEMMA LocksEnter ==
    ASSUME NEW s \in Map, NEW t \in Map, Rests(s, t),
           NEW c \in [record : Records, value : Values \cup {None}], t.calls = Append(s.calls, c)
    PROVE  Locks(t) = [Locks(s) EXCEPT ![c.record] = @ + 1]
<1>1. PICK r : r = c.record
    OBVIOUS
<1>2. PICK n : n = Len(s.calls) + 1
    OBVIOUS
<1>3. /\ n \in Nat /\ DOMAIN t.calls = 1..n /\ t.calls[n] = c /\ DOMAIN s.calls = 1..(n - 1)
      /\ \A d \in 1..(n - 1) : t.calls[d] = s.calls[d]
  <2>1. s.calls \in Seq([record : Records, value : Values \cup {None}]) /\ Len(s.calls) \in Nat
      BY MapFields
  <2> QED BY <1>2, <2>1
<1>4. r \in Records
    BY <1>1
<1>5. n \notin Calling(s, r) /\ Calling(t, r) = Calling(s, r) \cup {n}
    BY <1>1, <1>3 DEF Calling
<1>6. \A q \in Records \ {r} : Calling(t, q) = Calling(s, q)
    BY <1>1, <1>3 DEF Calling
<1>7. \A q : Standing(t, q) = Standing(s, q)
    BY DEF Rests, Standing
<1>8. Cardinality(Calling(t, r)) = Cardinality(Calling(s, r)) + 1
  <2>1. Cardinality(Calling(s, r) \cup {n}) = Cardinality(Calling(s, r)) + 1
      BY <1>5, LockSets, FS_AddElement
  <2> QED BY <1>5, <2>1
<1>9. \A q \in Records : Locks(t)[q] = IF q = r THEN Locks(s)[q] + 1 ELSE Locks(s)[q]
  <2>1. /\ Cardinality(Standing(s, r)) \in Nat /\ Cardinality(Calling(s, r)) \in Nat
        /\ Cardinality(Standing(t, r)) = Cardinality(Standing(s, r))
      BY <1>7, LockSets
  <2>2. Locks(t)[r] = Locks(s)[r] + 1
      BY <1>4, <1>8, <2>1 DEF Locks
  <2>3. \A q \in Records \ {r} : Locks(t)[q] = Locks(s)[q]
      BY <1>6, <1>7 DEF Locks
  <2> QED BY <2>2, <2>3
<1>10. Locks(s) \in [Records -> Nat] /\ Locks(t) \in [Records -> Nat]
    BY LocksType
<1> QED BY <1>1, <1>4, <1>9, <1>10

\* The last call leaves its record.
Returns(s, t) ==
    /\ s.calls # <<>>
    /\ DOMAIN t.calls = 1..(Len(s.calls) - 1)
    /\ \A d \in 1..(Len(s.calls) - 1) : t.calls[d] = s.calls[d]

\* The record of a call that returns has one lock less.
LEMMA LocksLeave ==
    ASSUME NEW s \in Map, NEW t \in Map, Rests(s, t), Returns(s, t),
           NEW r, r = s.calls[Len(s.calls)].record
    PROVE  r \in Records /\ Locks(s)[r] > 0 /\ Locks(t) = [Locks(s) EXCEPT ![r] = @ - 1]
<1>1. PICK n : n = Len(s.calls)
    OBVIOUS
<1>2. s.calls \in Seq([record : Records, value : Values \cup {None}]) /\ n \in Nat \ {0}
  <2>1. s.calls \in Seq([record : Records, value : Values \cup {None}])
      BY MapFields
  <2>2. n \in Nat
      BY <1>1, <2>1
  <2>3. n # 0
      BY <1>1, <2>1 DEF Returns
  <2> QED BY <2>1, <2>2, <2>3
<1>3. /\ DOMAIN s.calls = 1..n /\ DOMAIN t.calls = 1..(n - 1)
      /\ \A d \in 1..(n - 1) : t.calls[d] = s.calls[d]
    BY <1>1, <1>2 DEF Returns
<1>4. r \in Records /\ n \in 1..n
  <2>1. n \in 1..n /\ n \in DOMAIN s.calls
      BY <1>1, <1>2
  <2>2. s.calls[n].record \in Records
      BY <2>1, CallValues
  <2> QED BY <1>1, <2>1, <2>2
<1>5. n \in Calling(s, r) /\ Calling(t, r) = Calling(s, r) \ {n}
    BY <1>1, <1>2, <1>3, <1>4 DEF Calling
<1>6. \A q \in Records \ {r} : Calling(t, q) = Calling(s, q)
    BY <1>1, <1>2, <1>3 DEF Calling
<1>7. \A q : Standing(t, q) = Standing(s, q)
    BY DEF Rests, Standing
<1>8. Cardinality(Calling(t, r)) = Cardinality(Calling(s, r)) - 1
  <2>1. IsFiniteSet(Calling(s, r)) /\ Cardinality(Calling(s, r)) \in Nat
      BY LockSets
  <2>2. Cardinality(Calling(s, r) \ {n}) = Cardinality(Calling(s, r)) - 1
      BY <1>5, <2>1, FS_RemoveElement
  <2> QED BY <1>5, <2>2
<1>9. Locks(s)[r] > 0
    BY <1>4, <1>5, LockedRecord
<1>10. \A q \in Records : Locks(t)[q] = IF q = r THEN Locks(s)[q] - 1 ELSE Locks(s)[q]
  <2>1. /\ Cardinality(Standing(s, r)) \in Nat /\ Cardinality(Calling(s, r)) \in Nat
        /\ Cardinality(Standing(t, r)) = Cardinality(Standing(s, r))
      BY <1>7, LockSets
  <2>2. Locks(t)[r] = Locks(s)[r] - 1
      BY <1>4, <1>8, <2>1 DEF Locks
  <2>3. \A q \in Records \ {r} : Locks(t)[q] = Locks(s)[q]
      BY <1>6, <1>7 DEF Locks
  <2> QED BY <2>2, <2>3
<1>11. Locks(s) \in [Records -> Nat] /\ Locks(t) \in [Records -> Nat]
    BY LocksType
<1> QED BY <1>4, <1>9, <1>10, <1>11

-----------------------------------------------------------------------------
(***************************************************************************)
(* Finalizers                                                              *)
(***************************************************************************)

\* The references to an iterator are a number, and there is nobody who has it
\* when it is 0.
LEMMA RefsNumber ==
    ASSUME NEW s \in Map, NEW i
    PROVE  /\ ValueRefs(s, i) \in Nat
           /\ ValueRefs(s, i) = 0 => /\ \A r \in s.records : s.value[r] # i
                                    /\ \A c \in DOMAIN s.calls : s.calls[c].value # i
<1>1. PICK V : V = {r \in s.records : s.value[r] = i}
    OBVIOUS
<1>2. PICK C : C = {c \in DOMAIN s.calls : s.calls[c].value = i}
    OBVIOUS
<1>3. Len(s.calls) \in Nat /\ DOMAIN s.calls = 1..Len(s.calls) /\ s.records \subseteq Records
    BY MapFields
<1>4. IsFiniteSet(V) /\ IsFiniteSet(C)
  <2>1. IsFiniteSet(1..MaxRecords) /\ IsFiniteSet(1..Len(s.calls))
      BY <1>3, RecordNumbers, FS_Interval
  <2>2. V \subseteq 1..MaxRecords /\ C \subseteq 1..Len(s.calls)
      BY <1>1, <1>2, <1>3 DEF Records
  <2>3. IsFiniteSet(V)
      BY <2>1, <2>2, FS_Subset
  <2>4. IsFiniteSet(C)
      BY <2>1, <2>2, FS_Subset
  <2> QED BY <2>3, <2>4
<1>5. ValueRefs(s, i) = Cardinality(V) + Cardinality(C)
    BY <1>1, <1>2 DEF ValueRefs
<1>6. Cardinality(V) \in Nat /\ Cardinality(C) \in Nat
    BY <1>4, FS_CardinalityType
<1>7. ASSUME ValueRefs(s, i) = 0
      PROVE  V = {} /\ C = {}
  <2>1. Cardinality(V) = 0 /\ Cardinality(C) = 0
      BY <1>5, <1>6, <1>7
  <2> QED BY <1>4, <2>1, FS_EmptySet
<1>8. V = {} => \A r \in s.records : s.value[r] # i
    BY <1>1
<1>9. C = {} => \A c \in DOMAIN s.calls : s.calls[c].value # i
    BY <1>2
<1> QED BY <1>5, <1>6, <1>7, <1>8, <1>9

\* The same iterators have come to the end of the list.
SameEnds(s, t) == \A i \in Iters : t.state[i] = "done" <=> s.state[i] = "done"

\* An object is released: nothing changes, or an iterator among the values is
\* finalized, which may take an empty record with it.
Releases(s, t) ==
    /\ t.empty = s.empty /\ t.value = s.value /\ t.calls = s.calls /\ t.cur = s.cur
    /\ Fewer(s, t)
    /\ t.records = s.records \/ \E i \in Values : t.state[i] = "dead"
    /\ \A i \in held \cap Iters : t.state[i] = s.state[i]
    /\ \A i \in Iters : s.state[i] = "dead" => t.state[i] = "dead"
    /\ \A i \in Iters : s.state[i] # "live" => t.state[i] # "live"
    /\ SameEnds(s, t)

\* js_map_iterator_finalizer of an iterator that no value names.
LEMMA FinalizeKeeps ==
    ASSUME NEW s, Whole(s), NEW i \in Iters, There(s, i), ValueRefs(s, i) = 0,
           NEW t, t = Finalize(s, i)
    PROVE  /\ Whole(t) /\ t.empty = s.empty /\ t.value = s.value /\ t.calls = s.calls
           /\ t.cur = s.cur /\ Fewer(s, t) /\ (t.records = s.records \/ t.state[i] = "dead")
           /\ \A j \in Iters \ {i} : t.state[j] = s.state[j]
           /\ t.state[i] \in {"done", "dead"} /\ SameEnds(s, t)
<1>1. /\ s \in Map /\ Balanced(s, Locks(s)) /\ Sound(s) /\ s.live /\ s.state[i] \in {"live", "done"}
      /\ s.records \subseteq Records /\ s.cur[i] \in Records \cup {None}
      /\ s.state \in [Iters -> {"unused", "live", "done", "dead"}]
      /\ s.value \in [Records -> Values \cup {None}] /\ DOMAIN s.calls = 1..Len(s.calls)
      /\ Len(s.calls) \in Nat
    BY MapFields DEF Whole, Balanced, There
<1>2. /\ \A r \in s.records : s.value[r] # i
      /\ \A c \in DOMAIN s.calls : s.calls[c].value # i
    BY <1>1, RefsNumber
<1>3. CASE s.state[i] = "done"
  <2>1. t = s
      BY <1>3 DEF Finalize
  <2> QED BY <1>1, <1>3, <2>1 DEF Fewer, Whole, SameEnds
<1>4. CASE s.state[i] = "live" /\ s.cur[i] = None
  <2>1. t = [s EXCEPT !.state[i] = "dead"]
      BY <1>4 DEF Finalize
  <2>2. PICK f : f = [s.state EXCEPT ![i] = "dead"]
      OBVIOUS
  <2>3. f \in [Iters -> {"unused", "live", "done", "dead"}] /\ f[i] = "dead"
        /\ \A j \in Iters \ {i} : f[j] = s.state[j]
      BY <1>1, <2>2
  <2>4. t = [s EXCEPT !.state = f]
      BY <2>1, <2>2
  <2>5. /\ t \in Map /\ t.state = f /\ t.records = s.records /\ t.refs = s.refs /\ t.empty = s.empty
        /\ t.value = s.value /\ t.cur = s.cur /\ t.live = s.live /\ t.calls = s.calls /\ t.fault = s.fault
      BY <1>1, <2>3, <2>4 DEF Map
  <2>6. Locks(t) = Locks(s)
    <3>1. \A r \in Records : Standing(t, r) = Standing(s, r)
        BY <1>4, <2>3, <2>5, RecordNumbers DEF Standing
    <3>2. \A r \in Records : Calling(t, r) = Calling(s, r)
        BY <2>5 DEF Calling
    <3> QED BY <3>1, <3>2 DEF Locks
  <2>7. Balanced(t, Locks(t))
      BY <1>1, <2>5, <2>6 DEF Balanced, Counts
  <2>8. Sound(t)
    <3>1. ASSUME NEW q \in Records, s.value[q] # None
          PROVE  q \in t.records /\ ~t.empty[q] /\ There(t, t.value[q])
      <4>1. q \in s.records /\ ~s.empty[q] /\ There(s, s.value[q])
          BY <1>1, <3>1 DEF Sound
      <4>2. s.value[q] # i /\ s.value[q] \in Iters
          BY <1>1, <1>2, <3>1, <4>1, RecordNumbers
      <4> QED BY <2>3, <2>5, <4>1, <4>2 DEF There
    <3>2. ASSUME NEW c \in DOMAIN s.calls, s.calls[c].value # None
          PROVE  There(t, s.calls[c].value)
      <4>1. There(s, s.calls[c].value) /\ s.calls[c].value # i
          BY <1>1, <1>2, <3>2 DEF Sound
      <4>2. s.calls[c].value \in Iters
          BY <1>1, <3>2, CallValues
      <4> QED BY <2>3, <2>5, <4>1, <4>2 DEF There
    <3>3. \A j \in Iters : t.state[j] = "unused" => t.cur[j] = None
        BY <1>1, <2>3, <2>5 DEF Sound
    <3> QED BY <2>5, <3>1, <3>2, <3>3 DEF Sound
  <2>9. SameEnds(s, t)
      BY <1>4, <2>3, <2>5 DEF SameEnds
  <2> QED BY <1>1, <2>3, <2>5, <2>7, <2>8, <2>9 DEF Whole, Fewer
<1>5. CASE s.state[i] = "live" /\ s.cur[i] # None
  <2>1. PICK r : r = s.cur[i]
      OBVIOUS
  <2>2. r \in Records
      BY <1>1, <1>5, <2>1
  <2>3. PICK d : d = Decref(s, r)
      OBVIOUS
  <2>4. t = [d EXCEPT !.state[i] = "dead"]
      BY <1>1, <1>5, <2>1, <2>3 DEF Finalize
  <2>5. Locks(s)[r] > 0
    <3>1. i \in Standing(s, r)
        BY <1>5, <2>1 DEF Standing
    <3> QED BY <1>1, <2>2, <3>1, LockedRecord
  <2>6. PICK g : g = [Locks(s) EXCEPT ![r] = @ - 1]
      OBVIOUS
  <2>7. Balanced(d, g) /\ Same(s, d) /\ Fewer(s, d)
      BY <1>1, <2>2, <2>3, <2>5, <2>6, DecrefKeeps
  <2>8. PICK f : f = [d.state EXCEPT ![i] = "dead"]
      OBVIOUS
  <2>9. f \in [Iters -> {"unused", "live", "done", "dead"}] /\ f[i] = "dead"
        /\ \A j \in Iters \ {i} : f[j] = s.state[j]
      BY <1>1, <2>7, <2>8 DEF Same
  <2>10. t = [d EXCEPT !.state = f]
      BY <2>4, <2>8
  <2>11. d \in Map /\ ~d.fault
      BY <2>7 DEF Balanced
  <2>12. /\ t \in Map /\ t.state = f /\ t.records = d.records /\ t.refs = d.refs /\ t.empty = s.empty
         /\ t.value = s.value /\ t.cur = s.cur /\ t.live = s.live /\ t.calls = s.calls /\ t.fault = d.fault
      BY <2>7, <2>9, <2>10, <2>11 DEF Map, Same
  <2>13. Locks(t) = g
    <3>1. StepsOff(s, t, i, r)
        BY <1>5, <2>1, <2>9, <2>12 DEF StepsOff
    <3> QED BY <1>1, <2>2, <2>6, <2>12, <3>1, LocksStepOff
  <2>14. Balanced(t, Locks(t))
      BY <2>7, <2>11, <2>12, <2>13 DEF Balanced, Counts, Same
  <2>15. Fewer(s, t)
      BY <2>7, <2>12 DEF Fewer
  <2>16. Sound(t)
    <3>1. ASSUME NEW q \in Records, s.value[q] # None
          PROVE  q \in t.records /\ ~t.empty[q] /\ There(t, t.value[q])
      <4>1. q \in s.records /\ ~s.empty[q] /\ There(s, s.value[q])
          BY <1>1, <3>1 DEF Sound
      <4>2. s.value[q] # i /\ s.value[q] \in Iters
          BY <1>1, <1>2, <3>1, <4>1, RecordNumbers
      <4> QED BY <2>9, <2>12, <2>15, <4>1, <4>2 DEF Fewer, There
    <3>2. ASSUME NEW c \in DOMAIN s.calls, s.calls[c].value # None
          PROVE  There(t, s.calls[c].value)
      <4>1. There(s, s.calls[c].value) /\ s.calls[c].value # i
          BY <1>1, <1>2, <3>2 DEF Sound
      <4>2. s.calls[c].value \in Iters
          BY <1>1, <3>2, CallValues
      <4> QED BY <2>9, <2>12, <4>1, <4>2 DEF There
    <3>3. \A j \in Iters : t.state[j] = "unused" => t.cur[j] = None
        BY <1>1, <2>9, <2>12 DEF Sound
    <3> QED BY <2>12, <3>1, <3>2, <3>3 DEF Sound
  <2>17. SameEnds(s, t)
      BY <1>5, <2>9, <2>12 DEF SameEnds
  <2> QED BY <1>1, <2>9, <2>12, <2>14, <2>15, <2>16, <2>17 DEF Whole
<1> QED BY <1>1, <1>3, <1>4, <1>5

-----------------------------------------------------------------------------
\* JS_FreeValue of a value that is an iterator or nothing, while the script or
\* a call has the map.
LEMMA FreeValueKeeps ==
    ASSUME NEW s, Whole(s), NEW v \in Values \cup {None}, v # None => There(s, v),
           mapHeld \/ s.calls # <<>>, NEW t, t = FreeValue(s, v)
    PROVE  Whole(t) /\ Releases(s, t)
<1>1. CASE v = None \/ v \in held \/ ValueRefs(s, v) > 0
  <2>1. t = s
      BY <1>1 DEF FreeValue
  <2> QED BY <2>1 DEF Releases, Fewer, SameEnds
<1>2. CASE ~(v = None \/ v \in held \/ ValueRefs(s, v) > 0)
  <2>1. v \in Values /\ v \in Iters /\ There(s, v) /\ v \notin held
      BY <1>2, RecordNumbers
  <2>2. ValueRefs(s, v) = 0
    <3>1. ValueRefs(s, v) \in Nat
        BY RefsNumber DEF Whole, Balanced
    <3> QED BY <1>2, <3>1
  <2>3. PICK u : u = Finalize(s, v)
      OBVIOUS
  <2>4. /\ Whole(u) /\ u.empty = s.empty /\ u.value = s.value /\ u.calls = s.calls
        /\ u.cur = s.cur /\ Fewer(s, u) /\ (u.records = s.records \/ u.state[v] = "dead")
        /\ \A j \in Iters \ {v} : u.state[j] = s.state[j]
        /\ u.state[v] \in {"done", "dead"} /\ SameEnds(s, u)
      BY <2>1, <2>2, <2>3, FinalizeKeeps
  <2>5. Reached(u, mapHeld)
      BY <2>4 DEF Reached
  <2>6. t = u
      BY <1>2, <2>3, <2>5 DEF FreeValue
  <2>7. \A j \in held \cap Iters : u.state[j] = s.state[j]
      BY <2>1, <2>4
  <2>8. \A j \in Iters : s.state[j] = "dead" => u.state[j] = "dead"
      BY <2>1, <2>4 DEF There
  <2>9. \A j \in Iters : s.state[j] # "live" => u.state[j] # "live"
      BY <2>4
  <2> QED BY <2>1, <2>4, <2>6, <2>7, <2>8, <2>9 DEF Releases
<1> QED BY <1>1, <1>2

\* The value of a record is replaced, by nothing or by an iterator that is there.
MayHave(s, r, v) == v \in Values \cup {None} /\ (v # None => r \in s.records /\ ~s.empty[r] /\ There(s, v))

\* The value of a record is set, to one that it may have.
IsPut(s, r, v, t) == t = [s EXCEPT !.value[r] = v]

\* Nothing but this value is changed.
HasPut(s, r, v, t) ==
    /\ t.records = s.records /\ t.refs = s.refs /\ t.empty = s.empty
    /\ t.state = s.state /\ t.cur = s.cur /\ t.calls = s.calls
    /\ t.value[r] = v /\ \A q \in Records \ {r} : t.value[q] = s.value[q]

\* A record that is not deleted may have a value.
LEMMA PutValueKeeps ==
    ASSUME NEW s, Whole(s), NEW r \in Records, NEW v, MayHave(s, r, v), NEW t, IsPut(s, r, v, t)
    PROVE  Whole(t) /\ HasPut(s, r, v, t)
<1>1. /\ s \in Map /\ Balanced(s, Locks(s)) /\ Sound(s) /\ s.live
      /\ s.value \in [Records -> Values \cup {None}]
    BY MapFields DEF Whole, Balanced
<1>2. PICK f : f = [s.value EXCEPT ![r] = v]
    OBVIOUS
<1>3. f \in [Records -> Values \cup {None}] /\ f[r] = v /\ \A q \in Records \ {r} : f[q] = s.value[q]
    BY <1>1, <1>2 DEF MayHave
<1>4. t = [s EXCEPT !.value = f]
    BY <1>2 DEF IsPut
<1>5. /\ t \in Map /\ t.records = s.records /\ t.refs = s.refs /\ t.empty = s.empty /\ t.live = s.live
      /\ t.state = s.state /\ t.cur = s.cur /\ t.calls = s.calls /\ t.fault = s.fault /\ t.value = f
    BY <1>1, <1>3, <1>4 DEF Map
<1>6. Balanced(t, Locks(t))
  <2>1. Locks(t) = Locks(s)
      BY <1>5, LocksSame
  <2> QED BY <1>1, <1>5, <2>1 DEF Balanced, Counts
<1>7. Sound(t)
  <2>1. ASSUME NEW q \in Records, f[q] # None
        PROVE  q \in s.records /\ ~s.empty[q] /\ There(s, f[q])
      BY <1>1, <1>3, <2>1 DEF Sound, MayHave
  <2>2. \A j : There(t, j) <=> There(s, j)
      BY <1>5 DEF There
  <2> QED BY <1>1, <1>5, <2>1, <2>2 DEF Sound
<1> QED BY <1>1, <1>3, <1>5, <1>6, <1>7 DEF Whole, HasPut

\* Any record may lose its value.
LEMMA NoValueKeeps ==
    ASSUME NEW s, Whole(s), NEW r \in Records, NEW t, t = [s EXCEPT !.value[r] = None]
    PROVE  Whole(t) /\ HasPut(s, r, None, t)
<1>1. MayHave(s, r, None) /\ IsPut(s, r, None, t)
    BY DEF MayHave, IsPut
<1> QED BY <1>1, PutValueKeeps

\* A record is taken out of the map, and off the list if nobody stands on it.
Removes(s, t, r) ==
    /\ t.calls = s.calls /\ t.cur = s.cur
    /\ Fewer([s EXCEPT !.empty[r] = TRUE], t)
    /\ \A q \in Records \ {r} : t.empty[q] = s.empty[q]
    /\ r \in t.records => t.empty[r]
    /\ (s.records \subseteq t.records \cup {r}) \/ \E i \in Values : t.state[i] = "dead"
    /\ \A i \in held \cap Iters : t.state[i] = s.state[i]
    /\ \A i \in Iters : s.state[i] = "dead" => t.state[i] = "dead"
    /\ SameEnds(s, t)

\* map_delete_record_internal: the record is off the list, or empty and locked.
LEMMA DeleteInternalKeeps ==
    ASSUME NEW s, Whole(s), NEW r \in s.records, mapHeld \/ s.calls # <<>>,
           NEW t, t = DeleteInternal(s, r)
    PROVE  Whole(t) /\ Removes(s, t, r)
<1>1. /\ s \in Map /\ Balanced(s, Locks(s)) /\ Sound(s) /\ s.live /\ r \in Records
      /\ s.value \in [Records -> Values \cup {None}] /\ s.empty \in [Records -> BOOLEAN]
      /\ s.records \subseteq Records
    BY MapFields DEF Whole, Balanced
<1>2. PICK e : e = [s EXCEPT !.empty[r] = TRUE]
    OBVIOUS
<1>3. e.records = s.records /\ e.empty[r] = TRUE /\ \A q \in Records \ {r} : e.empty[q] = s.empty[q]
    BY <1>1, <1>2 DEF Map
<1>4. CASE s.empty[r]
  <2>1. t = s
      BY <1>4 DEF DeleteInternal
  <2> QED BY <1>2, <1>4, <2>1 DEF Removes, Fewer, SameEnds
<1>5. CASE ~s.empty[r]
  <2>1. PICK v : v = s.value[r]
      OBVIOUS
  <2>2. PICK n : n = [s EXCEPT !.value[r] = None]
      OBVIOUS
  <2>3. /\ Whole(n) /\ n.records = s.records /\ n.refs = s.refs /\ n.empty = s.empty
        /\ n.state = s.state /\ n.cur = s.cur /\ n.calls = s.calls
        /\ n.value[r] = None
      BY <1>1, <2>2, NoValueKeeps DEF HasPut
  <2>4. v \in Values \cup {None} /\ (v # None => There(n, v))
      BY <1>1, <2>1, <2>3 DEF Sound, There
  <2>5. PICK u : u = FreeValue(n, v)
      OBVIOUS
  <2>6. Whole(u) /\ Releases(n, u)
      BY <2>3, <2>4, <2>5, FreeValueKeeps
  <2>7. /\ u \in Map /\ Balanced(u, Locks(u)) /\ Sound(u) /\ u.live
        /\ u.refs \in [Records -> Nat] /\ u.empty \in [Records -> BOOLEAN] /\ u.records \subseteq Records
      BY <2>6, MapFields DEF Whole, Balanced
  <2>8. u.empty = s.empty /\ u.value[r] = None /\ r \in u.records /\ u.calls = s.calls /\ u.cur = s.cur
      BY <1>5, <2>3, <2>6 DEF Releases, Fewer
  <2>9. Locks(u) \in [Records -> Nat] /\ u.refs[r] = Locks(u)[r] + 1 /\ u.refs[r] \in Nat
      BY <1>1, <1>5, <2>7, <2>8 DEF Balanced, Counts
  <2>10. /\ u.records \subseteq s.records /\ \A q \in s.records : q \notin u.records => s.empty[q]
         /\ u.records = s.records \/ \E i \in Values : u.state[i] = "dead"
         /\ \A i \in held \cap Iters : u.state[i] = s.state[i]
         /\ \A i \in Iters : s.state[i] = "dead" => u.state[i] = "dead"
         /\ SameEnds(s, u)
      BY <2>3, <2>6 DEF Releases, Fewer, SameEnds
  <2>11. CASE u.refs[r] = 1
    <3>1. t = [u EXCEPT !.refs[r] = 0, !.records = @ \ {r}]
        BY <1>5, <2>1, <2>2, <2>5, <2>11 DEF DeleteInternal
    <3>2. PICK f : f = [u.refs EXCEPT ![r] = 0]
        OBVIOUS
    <3>3. f \in [Records -> Nat] /\ \A q \in Records \ {r} : f[q] = u.refs[q]
        BY <2>7, <3>2
    <3>4. PICK R : R = u.records \ {r}
        OBVIOUS
    <3>5. t = [u EXCEPT !.refs = f, !.records = R]
        BY <3>1, <3>2, <3>4
    <3>6. R \subseteq Records
        BY <2>7, <3>4
    <3>7. /\ t \in Map /\ t.records = R /\ t.refs = f /\ t.empty = u.empty /\ t.value = u.value
          /\ t.state = u.state /\ t.cur = u.cur /\ t.calls = u.calls /\ t.live = u.live /\ t.fault = u.fault
        BY <2>7, <3>3, <3>5, <3>6 DEF Map
    <3>8. Locks(t) = Locks(u)
        BY <3>7, LocksSame
    <3>9. Counts(t, Locks(u))
      <4>1. Locks(u)[r] = 0
          BY <1>1, <2>9, <2>11
      <4>2. ASSUME NEW q \in Records
            PROVE  /\ q \in t.records => t.refs[q] > 0 /\ t.refs[q] = Locks(u)[q] + (IF t.empty[q] THEN 0 ELSE 1)
                   /\ Locks(u)[q] > 0 => q \in t.records
        <5>1. CASE q = r
            BY <3>4, <3>7, <4>1, <5>1
        <5>2. CASE q # r
            BY <2>7, <3>3, <3>4, <3>7, <4>2, <5>2 DEF Balanced, Counts
        <5> QED BY <5>1, <5>2
      <4> QED BY <4>2 DEF Counts
    <3>10. Balanced(t, Locks(t))
        BY <2>7, <3>7, <3>8, <3>9 DEF Balanced
    <3>11. Sound(t)
      <4>1. \A q \in Records : t.value[q] # None => q \in t.records /\ ~t.empty[q] /\ There(u, t.value[q])
          BY <2>7, <2>8, <3>4, <3>7 DEF Sound
      <4>2. \A w : There(t, w) <=> There(u, w)
          BY <3>7 DEF There
      <4> QED BY <2>7, <3>7, <4>1, <4>2 DEF Sound
    <3>12. Fewer(e, t)
        BY <1>3, <2>10, <3>4, <3>7, <1>1 DEF Fewer
    <3>13. (s.records \subseteq t.records \cup {r}) \/ \E i \in Values : t.state[i] = "dead"
        BY <2>10, <3>4, <3>7
    <3>14. Removes(s, t, r)
        BY <1>2, <2>8, <2>10, <3>4, <3>7, <3>12, <3>13 DEF Removes, SameEnds
    <3> QED BY <2>7, <3>7, <3>10, <3>11, <3>14 DEF Whole
  <2>12. CASE u.refs[r] # 1
    <3>1. t = [u EXCEPT !.refs[r] = @ - 1, !.empty[r] = TRUE]
        BY <1>5, <2>1, <2>2, <2>5, <2>12 DEF DeleteInternal
    <3>2. PICK f : f = [u.refs EXCEPT ![r] = @ - 1]
        OBVIOUS
    <3>3. u.refs[r] - 1 \in Nat /\ u.refs[r] - 1 = Locks(u)[r] /\ u.refs[r] - 1 > 0
      <4>1. u.refs[r] > 0
          BY <1>1, <2>7, <2>8 DEF Balanced, Counts
      <4>2. Locks(u)[r] \in Nat
          BY <1>1, <2>9
      <4> QED BY <2>9, <2>12, <4>1, <4>2
    <3>4. f \in [Records -> Nat] /\ f[r] = u.refs[r] - 1 /\ \A q \in Records \ {r} : f[q] = u.refs[q]
        BY <1>1, <2>7, <3>2, <3>3
    <3>5. PICK E : E = [u.empty EXCEPT ![r] = TRUE]
        OBVIOUS
    <3>6. E \in [Records -> BOOLEAN] /\ E[r] = TRUE /\ \A q \in Records \ {r} : E[q] = u.empty[q]
        BY <1>1, <2>7, <3>5
    <3>7. t = [u EXCEPT !.refs = f, !.empty = E]
        BY <3>1, <3>2, <3>5
    <3>8. /\ t \in Map /\ t.records = u.records /\ t.refs = f /\ t.empty = E /\ t.value = u.value
          /\ t.state = u.state /\ t.cur = u.cur /\ t.calls = u.calls /\ t.live = u.live /\ t.fault = u.fault
        BY <2>7, <3>4, <3>6, <3>7 DEF Map
    <3>9. Locks(t) = Locks(u)
        BY <3>8, LocksSame
    <3>10. Counts(t, Locks(u))
      <4>1. ASSUME NEW q \in Records
            PROVE  /\ q \in t.records => t.refs[q] > 0 /\ t.refs[q] = Locks(u)[q] + (IF t.empty[q] THEN 0 ELSE 1)
                   /\ Locks(u)[q] > 0 => q \in t.records
        <5>1. CASE q = r
          <6>1. t.empty[q] = TRUE /\ t.refs[q] = Locks(u)[q] /\ t.refs[q] > 0 /\ Locks(u)[q] \in Nat /\ q \in t.records
              BY <2>8, <2>9, <3>3, <3>4, <3>6, <3>8, <4>1, <5>1
          <6> QED BY <6>1
        <5>2. CASE q # r
          <6>1. t.empty[q] = u.empty[q] /\ t.refs[q] = u.refs[q] /\ (q \in t.records <=> q \in u.records)
              BY <3>4, <3>6, <3>8, <4>1, <5>2
          <6> QED BY <2>7, <4>1, <6>1 DEF Balanced, Counts
        <5> QED BY <5>1, <5>2
      <4> QED BY <4>1 DEF Counts
    <3>11. Balanced(t, Locks(t))
        BY <2>7, <3>8, <3>9, <3>10 DEF Balanced
    <3>12. Sound(t)
      <4>1. \A q \in Records : t.value[q] # None => q \in t.records /\ ~t.empty[q] /\ There(u, t.value[q])
          BY <2>7, <2>8, <3>6, <3>8 DEF Sound
      <4>2. \A w : There(t, w) <=> There(u, w)
          BY <3>8 DEF There
      <4> QED BY <2>7, <3>8, <4>1, <4>2 DEF Sound
    <3>13. Fewer(e, t)
        BY <1>3, <2>8, <2>10, <3>8, <1>1 DEF Fewer
    <3>14. (s.records \subseteq t.records \cup {r}) \/ \E i \in Values : t.state[i] = "dead"
        BY <2>10, <3>8
    <3>15. \A q \in Records \ {r} : t.empty[q] = s.empty[q]
        BY <2>8, <3>6, <3>8
    <3>16. Removes(s, t, r)
        BY <1>2, <2>8, <2>10, <3>6, <3>8, <3>13, <3>14, <3>15 DEF Removes, SameEnds
    <3> QED BY <2>7, <3>8, <3>11, <3>12, <3>16 DEF Whole
  <2> QED BY <2>11, <2>12
<1> QED BY <1>4, <1>5

-----------------------------------------------------------------------------
\* There is a first record.
LEMMA FirstIs ==
    ASSUME NEW L \in SUBSET Records, L # {}
    PROVE  First(L) \in L /\ \A q \in L : First(L) <= q
<1>1. L \subseteq Nat /\ IsFiniteSet(L)
  <2>1. IsFiniteSet(1..MaxRecords) /\ L \subseteq 1..MaxRecords
      BY RecordNumbers, FS_Interval DEF Records
  <2>2. IsFiniteSet(L)
      BY <2>1, FS_Subset
  <2> QED BY <2>2, RecordNumbers
<1>2. Cardinality(L) \in Nat /\ Cardinality(L) # 0
    BY <1>1, FS_CardinalityType, FS_EmptySet
<1>3. 1 \in 1..Cardinality(L)
    BY <1>2
<1>4. PICK k \in L : Cardinality({j \in L : j < k}) = 1 - 1
    BY <1>1, <1>3, PlaceExists DEF Rank
<1>5. PICK B : B = {j \in L : j < k}
    OBVIOUS
<1>6. IsFiniteSet(B) /\ Cardinality(B) = 0
  <2>1. B \subseteq L
      BY <1>5
  <2>2. IsFiniteSet(B)
      BY <1>1, <2>1, FS_Subset
  <2>3. Cardinality(B) = 1 - 1
      BY <1>4, <1>5
  <2> QED BY <2>2, <2>3
<1>7. B = {}
    BY <1>6, FS_EmptySet
<1>8. \A q \in L : k <= q
  <2>1. \A q \in L : q \in Nat /\ k \in Nat
      BY <1>1
  <2>2. \A q \in L : ~(q < k)
      BY <1>5, <1>7
  <2> QED BY <2>1, <2>2
<1> QED BY <1>4, <1>8 DEF First

\* The map is freed: the script, a call of forEach and its iterators are gone.
LEMMA FreeMapKeeps ==
    ASSUME NEW s \in Map, ~s.fault, NEW t, t = FreeMap(s)
    PROVE  /\ t \in Map /\ ~t.fault /\ ~t.live /\ t.records = {} /\ t.empty = s.empty
           /\ t.state = s.state /\ t.cur = s.cur /\ t.calls = s.calls
           /\ \A r \in Records : t.value[r] = None
<1>1. PICK f : f = FALSE
    OBVIOUS
<1>2. PICK V : V = [r \in Records |-> None]
    OBVIOUS
<1>3. PICK N : N = [r \in Records |-> 0]
    OBVIOUS
<1>4. PICK e : e = {}
    OBVIOUS
<1>5. t = [s EXCEPT !.live = f, !.records = e, !.value = V, !.refs = N]
    BY <1>1, <1>2, <1>3, <1>4 DEF FreeMap
<1>6. /\ f \in BOOLEAN /\ V \in [Records -> Values \cup {None}] /\ N \in [Records -> Nat]
      /\ e \in SUBSET Records
    BY <1>1, <1>2, <1>3, <1>4
<1>7. /\ t \in Map /\ t.live = f /\ t.records = e /\ t.value = V /\ t.empty = s.empty
      /\ t.state = s.state /\ t.cur = s.cur /\ t.calls = s.calls /\ t.fault = s.fault
    BY <1>5, <1>6 DEF Map
<1> QED BY <1>1, <1>2, <1>4, <1>7

-----------------------------------------------------------------------------
(***************************************************************************)
(* MapIterators: the steps                                                 *)
(***************************************************************************)

\* What the invariant says of a map that is not freed, outside of a clear.
LEMMA RunningMap ==
    ASSUME MapInv, ~map.fault
    PROVE  /\ MapTyped(map, next, key, table, held, mapHeld, clearing)
           /\ Fine(map, next, key, table, mapHeld, clearing)
           /\ map \in Map /\ map.live \in BOOLEAN /\ (mapHeld => map.live)
           /\ (map.live => Whole(map))
           /\ \A i \in Iters : map.state[i] = "live" => map.live
<1>1. /\ MapTyped(map, next, key, table, held, mapHeld, clearing)
      /\ Fine(map, next, key, table, mapHeld, clearing)
    BY DEF MapInv, MapState
<1>2. map \in Map /\ map.live \in BOOLEAN
    BY <1>1, MapFields DEF MapTyped
<1>3. mapHeld => map.live
    BY <1>1 DEF Fine, Freed
<1>4. \A i \in Iters : map.state[i] = "live" => map.live
    BY <1>1 DEF Fine, Freed
<1>5. map.live => Whole(map)
    BY <1>1 DEF Fine
<1> QED BY <1>1, <1>2, <1>3, <1>4, <1>5

\* Outside of a clear: nothing is deleted, and the map stays.
LEMMA Stays ==
    ASSUME MapInv, ~map.fault, clearing = None, map.live,
           NEW t, Whole(t), Fewer(map, t), t.empty = map.empty, t.calls # <<>> => mapHeld,
           NEW hd \in SUBSET Iters, \A i \in hd : There(t, i)
    PROVE  MapState(t, next, key, table, hd, mapHeld, clearing)
<1>1. /\ MapTyped(map, next, key, table, held, mapHeld, clearing)
      /\ Fine(map, next, key, table, mapHeld, clearing)
    BY RunningMap
<1>2. t \in Map /\ ~t.fault /\ t.live /\ Sound(t)
    BY DEF Whole, Balanced
<1>3. MapTyped(t, next, key, table, hd, mapHeld, clearing)
    BY <1>1, <1>2 DEF MapTyped
<1>4. Made(t, next)
    BY <1>1 DEF Fine, Made, Fewer
<1>5. Cleared(t, table, mapHeld, clearing)
    BY RecordNumbers DEF Cleared
<1>6. Hashed(t, key, table)
  <2>1. Hashed(map, key, table)
      BY <1>1 DEF Fine
  <2> QED BY <2>1 DEF Hashed, Fewer
<1>7. mapHeld \in BOOLEAN
    BY <1>1 DEF MapTyped
<1>8. Fine(t, next, key, table, mapHeld, clearing)
    BY <1>2, <1>4, <1>5, <1>6, <1>7 DEF Fine
<1> QED BY <1>2, <1>3, <1>8 DEF MapState

\* Outside of a clear: the map is freed.
Gone(s, t) ==
    /\ t \in Map /\ t.fault = FALSE /\ t.live = FALSE /\ t.records = {} /\ t.empty = s.empty
    /\ \A r \in Records : t.value[r] = None
    /\ t.calls = <<>>
    /\ \A i \in Iters : t.state[i] # "live" /\ (t.state[i] = "unused" => t.cur[i] = None)

\* The invariant holds when the map was freed.
LEMMA Frees ==
    ASSUME MapInv, ~map.fault, clearing = None,
           NEW t, Gone(map, t), NEW tb, tb = {}, NEW mh, mh = FALSE,
           NEW hd \in SUBSET Iters, \A i \in hd : There(t, i)
    PROVE  MapState(t, next, key, tb, hd, mh, clearing)
<1>1. /\ MapTyped(map, next, key, table, held, mapHeld, clearing)
      /\ Fine(map, next, key, table, mapHeld, clearing)
    BY RunningMap
<1>2. t \in Map /\ ~t.fault /\ ~t.live /\ t.records = {} /\ t.empty = map.empty /\ t.calls = <<>>
    BY DEF Gone
<1>3. MapTyped(t, next, key, tb, hd, mh, clearing)
    BY <1>1, <1>2 DEF MapTyped
<1>4. Made(t, next)
    BY <1>1, <1>2 DEF Fine, Made
<1>5. Sound(t)
  <2>1. DOMAIN t.calls = {}
      BY <1>2
  <2> QED BY <2>1 DEF Gone, Sound
<1>6. Cleared(t, tb, mh, clearing)
    BY RecordNumbers DEF Cleared
<1>7. Hashed(t, key, tb)
    BY <1>2 DEF Hashed
<1>8. Freed(t, tb, mh)
    BY <1>2 DEF Freed, Gone
<1>9. Fine(t, next, key, tb, mh, clearing)
    BY <1>2, <1>4, <1>5, <1>6, <1>7, <1>8 DEF Fine
<1> QED BY <1>2, <1>3, <1>9 DEF MapState

\* The script drops objects.
LEMMA HeldFewer ==
    ASSUME MapInv, NEW hd \in SUBSET held
    PROVE  MapState(map, next, key, table, hd, mapHeld, clearing)
BY DEF MapInv, MapState, MapTyped

\* The invariant after a step.
LEMMA Preserved ==
    MapState(map', next', key', table', held', mapHeld', clearing') => MapInv'
BY DEF MapInv

\* It holds at the start.
LEMMA InitHolds ==
    ASSUME MapInit
    PROVE  MapInv
<1>1. PICK s : s = map
    OBVIOUS
<1>2. PICK e, u, n : e = {} /\ u = "unused" /\ n = None
    OBVIOUS
<1>3. PICK f, l : f = FALSE /\ l = TRUE
    OBVIOUS
<1>4. PICK R, E, V, S, C, Q : /\ R = [r \in Records |-> 0] /\ E = [r \in Records |-> f]
                              /\ V = [r \in Records |-> None] /\ S = [i \in Iters |-> u]
                              /\ C = [i \in Iters |-> n] /\ Q = <<>>
    OBVIOUS
<1>5. s = [records |-> e, refs |-> R, empty |-> E, value |-> V, state |-> S, cur |-> C,
           live |-> l, calls |-> Q, fault |-> f]
    BY <1>1, <1>2, <1>3, <1>4 DEF MapInit
<1>6. /\ e \in SUBSET Records /\ R \in [Records -> Nat] /\ E \in [Records -> BOOLEAN]
      /\ V \in [Records -> Values \cup {None}]
      /\ S \in [Iters -> {"unused", "live", "done", "dead"}]
      /\ C \in [Iters -> Records \cup {None}] /\ l \in BOOLEAN /\ f \in BOOLEAN
      /\ Q \in Seq([record : Records, value : Values \cup {None}])
  <2>1. e \in SUBSET Records /\ R \in [Records -> Nat] /\ V \in [Records -> Values \cup {None}]
      BY <1>2, <1>4
  <2>2. f \in BOOLEAN /\ l \in BOOLEAN
      BY <1>3
  <2>3. E \in [Records -> BOOLEAN]
      BY <1>4, <2>2
  <2>4. S \in [Iters -> {"unused", "live", "done", "dead"}] /\ C \in [Iters -> Records \cup {None}]
      BY <1>2, <1>4
  <2>5. <<>> \in Seq([record : Records, value : Values \cup {None}])
      OBVIOUS
  <2> QED BY <1>4, <2>1, <2>2, <2>3, <2>4, <2>5
<1>7. /\ s \in Map /\ s.records = {} /\ s.empty = E /\ s.value = V /\ s.state = S /\ s.cur = C
      /\ s.live = l /\ s.calls = <<>> /\ s.fault = f
    BY <1>2, <1>4, <1>5, <1>6 DEF Map
<1>8. Locks(s) \in [Records -> Nat] /\ \A r \in Records : Locks(s)[r] = 0
  <2>1. \A r \in Records : Standing(s, r) = {} /\ Calling(s, r) = {}
      BY <1>2, <1>4, <1>7 DEF Standing, Calling
  <2>2. Cardinality({}) = 0
      BY FS_EmptySet
  <2>3. \A r \in Records : Locks(s)[r] = 0
      BY <2>1, <2>2 DEF Locks
  <2> QED BY <1>7, <2>3, LocksType
<1>9. Balanced(s, Locks(s))
    BY <1>3, <1>7, <1>8 DEF Balanced, Counts
<1>10. Sound(s)
  <2>1. DOMAIN s.calls = {}
      BY <1>7
  <2> QED BY <1>2, <1>4, <1>7, <2>1 DEF Sound
<1>11. Made(s, next)
    BY <1>3, <1>4, <1>7 DEF Made
<1>12. Hashed(s, key, table) /\ Cleared(s, table, mapHeld, clearing)
    BY <1>7, RecordNumbers DEF MapInit, Hashed, Cleared
<1>13. MapTyped(s, next, key, table, held, mapHeld, clearing)
  <2>1. next \in 1..MaxRecords + 1 /\ key \in Seq(Keys) /\ Len(key) = next - 1
      BY RecordNumbers DEF MapInit
  <2> QED BY <1>7, <2>1 DEF MapInit, MapTyped
<1>14. Fine(s, next, key, table, mapHeld, clearing)
    BY <1>3, <1>7, <1>9, <1>10, <1>11, <1>12 DEF Fine, Whole
<1> QED BY <1>1, <1>3, <1>7, <1>13, <1>14 DEF MapInv, MapState

-----------------------------------------------------------------------------
\* A script that can call the map has it.
LEMMA UsableMap ==
    ASSUME MapInv, Usable
    PROVE  /\ ~map.fault /\ clearing = None /\ mapHeld = TRUE /\ map.live /\ Whole(map)
           /\ Hashed(map, key, table) /\ Made(map, next)
           /\ MapTyped(map, next, key, table, held, mapHeld, clearing)
<1>1. ~map.fault /\ clearing = None /\ mapHeld
    BY DEF Usable, Running
<1>2. /\ MapTyped(map, next, key, table, held, mapHeld, clearing)
      /\ Fine(map, next, key, table, mapHeld, clearing) /\ map.live /\ Whole(map)
    BY <1>1, RunningMap
<1>3. mapHeld \in BOOLEAN
    BY <1>2 DEF MapTyped
<1> QED BY <1>1, <1>2, <1>3 DEF Fine

\* SetValue keeps it, although a finalizer runs between the old value and the
\* new one.
LEMMA SetValueKeeps ==
    ASSUME MapInv, NEW k \in Keys, NEW v \in Values \cup {None}, SetValue(k, v)
    PROVE  MapInv'
<1>1. /\ ~map.fault /\ clearing = None /\ mapHeld = TRUE /\ map.live /\ Whole(map)
      /\ Hashed(map, key, table) /\ MapTyped(map, next, key, table, held, mapHeld, clearing)
    BY UsableMap DEF SetValue
<1>2. PICK r \in Found(k) :
          map' = [FreeValue([map EXCEPT !.value[r] = None], map.value[r]) EXCEPT !.value[r] = v]
    BY DEF SetValue
<1>3. r \in table /\ r \in map.records /\ ~map.empty[r] /\ r \in Records
    BY <1>1, <1>2 DEF Found, Hashed, MapTyped
<1>4. PICK n : n = [map EXCEPT !.value[r] = None]
    OBVIOUS
<1>5. Whole(n) /\ HasPut(map, r, None, n)
    BY <1>1, <1>3, <1>4, NoValueKeeps
<1>6. PICK w : w = map.value[r]
    OBVIOUS
<1>7. w \in Values \cup {None} /\ (w # None => There(n, w))
  <2>1. map.value \in [Records -> Values \cup {None}] /\ Sound(map)
      BY <1>1, MapFields DEF MapTyped, Whole
  <2> QED BY <1>3, <1>5, <1>6, <2>1 DEF Sound, There, HasPut
<1>8. PICK u : u = FreeValue(n, w)
    OBVIOUS
<1>9. Whole(u) /\ Releases(n, u)
    BY <1>1, <1>5, <1>7, <1>8, FreeValueKeeps
<1>10. u.empty = map.empty /\ Fewer(map, u) /\ r \in u.records /\ u.calls = map.calls
    BY <1>3, <1>5, <1>9 DEF HasPut, Releases, Fewer
<1>11. \A i \in held : There(u, i)
    BY <1>1, <1>5, <1>9 DEF MapTyped, Releases, HasPut, There
<1>12. PICK t : t = [u EXCEPT !.value[r] = v]
    OBVIOUS
<1>13. map' = t
    BY <1>2, <1>4, <1>6, <1>8, <1>12
<1>14. MayHave(u, r, v) /\ IsPut(u, r, v, t)
    BY <1>3, <1>10, <1>11, <1>12 DEF SetValue, MayHave, IsPut
<1>15. Whole(t) /\ HasPut(u, r, v, t)
    BY <1>3, <1>9, <1>14, PutValueKeeps
<1>16. Fewer(map, t) /\ t.empty = map.empty /\ \A i \in held : There(t, i)
    BY <1>10, <1>11, <1>15 DEF HasPut, Fewer, There
<1>17. held \in SUBSET Iters
    BY <1>1 DEF MapTyped
<1>18. MapState(t, next, key, table, held, mapHeld, clearing)
    BY <1>1, <1>15, <1>16, <1>17, Stays
<1>19. MapState(map', next', key', table', held', mapHeld', clearing')
    BY <1>13, <1>18 DEF SetValue
<1> QED BY <1>19, Preserved

\* NewIterator keeps the invariant.
LEMMA NewIteratorKeeps ==
    ASSUME MapInv, NEW i \in Iters, NewIterator(i)
    PROVE  MapInv'
<1>1. /\ ~map.fault /\ clearing = None /\ mapHeld = TRUE /\ map.live /\ Whole(map)
      /\ MapTyped(map, next, key, table, held, mapHeld, clearing)
      /\ map \in Map /\ map.state \in [Iters -> {"unused", "live", "done", "dead"}]
      /\ Balanced(map, Locks(map)) /\ Sound(map)
    BY UsableMap, MapFields DEF NewIterator, MapTyped, Whole
<1>2. PICK f : f = [map.state EXCEPT ![i] = "live"]
    OBVIOUS
<1>3. f \in [Iters -> {"unused", "live", "done", "dead"}] /\ f[i] = "live"
      /\ \A j \in Iters \ {i} : f[j] = map.state[j]
    BY <1>1, <1>2
<1>4. PICK t : t = [map EXCEPT !.state = f]
    OBVIOUS
<1>5. map' = t
    BY <1>2, <1>4 DEF NewIterator
<1>6. /\ t \in Map /\ t.state = f /\ t.records = map.records /\ t.refs = map.refs /\ t.empty = map.empty
      /\ t.value = map.value /\ t.cur = map.cur /\ t.live = map.live /\ t.calls = map.calls
      /\ t.fault = map.fault
    BY <1>1, <1>3, <1>4 DEF Map
<1>7. map.state[i] = "unused" /\ t.cur[i] = None
    BY <1>1, <1>6 DEF NewIterator, Sound
<1>8. Locks(t) = Locks(map)
  <2>1. \A r \in Records : Standing(t, r) = Standing(map, r)
      BY <1>3, <1>6, <1>7, RecordNumbers DEF Standing
  <2>2. \A r \in Records : Calling(t, r) = Calling(map, r)
      BY <1>6 DEF Calling
  <2> QED BY <2>1, <2>2 DEF Locks
<1>9. Balanced(t, Locks(t))
    BY <1>1, <1>6, <1>8 DEF Balanced, Counts
<1>10. \A j \in Iters : There(map, j) => There(t, j)
    BY <1>3, <1>6 DEF There
<1>11. Sound(t)
  <2>1. ASSUME NEW q \in Records, map.value[q] # None
        PROVE  q \in t.records /\ ~t.empty[q] /\ There(t, t.value[q])
    <3>1. q \in map.records /\ ~map.empty[q] /\ There(map, map.value[q])
        BY <1>1, <2>1 DEF Sound
    <3>2. map.value[q] \in Iters
        BY <1>1, <2>1, MapFields, RecordNumbers
    <3> QED BY <1>6, <1>10, <3>1, <3>2
  <2>2. ASSUME NEW c \in DOMAIN map.calls, map.calls[c].value # None
        PROVE  There(t, map.calls[c].value)
    <3>1. There(map, map.calls[c].value)
        BY <1>1, <2>2 DEF Sound
    <3>2. map.calls[c].value \in Iters
        BY <1>1, <2>2, CallValues
    <3> QED BY <1>10, <3>1, <3>2
  <2>3. \A j \in Iters : t.state[j] = "unused" => t.cur[j] = None
      BY <1>1, <1>3, <1>6 DEF Sound
  <2> QED BY <1>6, <2>1, <2>2, <2>3 DEF Sound
<1>12. Whole(t) /\ Fewer(map, t)
    BY <1>1, <1>6, <1>9, <1>11 DEF Whole, Fewer
<1>13. PICK hd : hd = held \cup {i}
    OBVIOUS
<1>14. hd \in SUBSET Iters /\ \A j \in hd : There(t, j)
  <2>1. There(t, i)
      BY <1>3, <1>6 DEF There
  <2> QED BY <1>1, <1>10, <1>13, <2>1 DEF MapTyped
<1>15. MapState(t, next, key, table, hd, mapHeld, clearing)
    BY <1>1, <1>6, <1>12, <1>14, Stays
<1>16. MapState(map', next', key', table', held', mapHeld', clearing')
    BY <1>5, <1>13, <1>15 DEF NewIterator
<1> QED BY <1>16, Preserved

\* ClearDone keeps it: the list has empty records only.
LEMMA ClearDoneKeeps ==
    ASSUME MapInv, ClearDone
    PROVE  MapInv'
<1>1. clearing = 0 /\ clearing' = None
    BY DEF ClearDone
<1>2. ~map.fault
    BY <1>1, RecordNumbers DEF MapInv, MapState
<1>3. /\ MapTyped(map, next, key, table, held, mapHeld, clearing)
      /\ Fine(map, next, key, table, mapHeld, clearing)
    BY <1>2, RunningMap
<1>4. mapHeld = TRUE /\ table = {} /\ \A r \in map.records : map.empty[r]
    BY <1>1, <1>3, RecordNumbers DEF Fine, Cleared
<1>5. Hashed(map, key, table)
    BY <1>4 DEF Hashed
<1>6. Cleared(map, table, mapHeld, clearing')
    BY <1>1, RecordNumbers DEF Cleared
<1>7. Fine(map, next, key, table, mapHeld, clearing')
    BY <1>3, <1>5, <1>6 DEF Fine
<1>8. MapTyped(map, next, key, table, held, mapHeld, clearing')
    BY <1>1, <1>3 DEF MapTyped
<1>9. MapState(map', next', key', table', held', mapHeld', clearing')
    BY <1>2, <1>7, <1>8 DEF MapState, ClearDone
<1> QED BY <1>9, Preserved

\* ClearStart keeps it.
LEMMA ClearStartKeeps ==
    ASSUME MapInv, ClearStart
    PROVE  MapInv'
<1>1. /\ ~map.fault /\ clearing = None /\ mapHeld = TRUE /\ map.live /\ Whole(map)
      /\ MapTyped(map, next, key, table, held, mapHeld, clearing)
    BY UsableMap DEF ClearStart
<1>2. Fine(map, next, key, table, mapHeld, clearing) /\ map.records \in SUBSET Records
    BY <1>1, RunningMap, MapFields
<1>3. PICK cl : cl = IF map.records = {} THEN 0 ELSE First(map.records)
    OBVIOUS
<1>4. PICK tb : tb = {}
    OBVIOUS
<1>5. \/ cl = 0 /\ map.records = {}
      \/ cl \in map.records /\ cl \in Records /\ \A q \in map.records : cl <= q
    BY <1>2, <1>3, FirstIs
<1>6. Cleared(map, tb, mapHeld, cl)
  <2>1. CASE cl = 0 /\ map.records = {}
      BY <1>1, <1>4, <2>1, RecordNumbers DEF Cleared
  <2>2. CASE cl \in map.records /\ cl \in Records /\ \A q \in map.records : cl <= q
    <3>1. cl \in Nat /\ cl # 0 /\ \A q \in map.records : q \in Nat
        BY <1>2, <2>2, RecordNumbers
    <3>2. \A q \in map.records : ~(q < cl)
        BY <2>2, <3>1
    <3> QED BY <1>1, <1>4, <2>2, <3>1, <3>2 DEF Cleared
  <2> QED BY <1>5, <2>1, <2>2
<1>7. Fine(map, next, key, tb, mapHeld, cl)
    BY <1>1, <1>2, <1>5, <1>6, RecordNumbers DEF Fine
<1>8. MapTyped(map, next, key, tb, held, mapHeld, cl)
    BY <1>1, <1>4, <1>5 DEF MapTyped
<1>9. MapState(map, next, key, tb, held, mapHeld, cl)
    BY <1>1, <1>7, <1>8 DEF MapState
<1>10. MapState(map', next', key', table', held', mapHeld', clearing')
    BY <1>3, <1>4, <1>9 DEF ClearStart
<1> QED BY <1>10, Preserved

\* DropMap keeps it: the map is freed, or something has it.
LEMMA DropMapKeeps ==
    ASSUME MapInv, DropMap
    PROVE  MapInv'
<1>1. /\ ~map.fault /\ clearing = None /\ mapHeld = TRUE /\ map.live /\ Whole(map)
      /\ MapTyped(map, next, key, table, held, mapHeld, clearing)
      /\ map \in Map /\ map.calls = <<>> /\ held \in SUBSET Iters /\ Sound(map)
    BY UsableMap DEF DropMap, MapTyped, Whole
<1>2. Fine(map, next, key, table, mapHeld, clearing)
    BY <1>1, RunningMap
<1>3. PICK mh : mh = FALSE
    OBVIOUS
<1>4. CASE Reached(map, FALSE)
  <2>1. map' = map /\ table' = table
      BY <1>1, <1>4 DEF DropMap
  <2>2. Fine(map, next, key, table, mh, clearing)
      BY <1>1, <1>2, RecordNumbers DEF Fine, Cleared
  <2>3. MapTyped(map, next, key, table, held, mh, clearing)
      BY <1>1, <1>3 DEF MapTyped
  <2>4. MapState(map, next, key, table, held, mh, clearing)
      BY <1>1, <2>2, <2>3 DEF MapState
  <2>5. MapState(map', next', key', table', held', mapHeld', clearing')
      BY <1>3, <2>1, <2>4 DEF DropMap
  <2> QED BY <2>5, Preserved
<1>5. CASE ~Reached(map, FALSE)
  <2>1. \A i \in Iters : map.state[i] # "live"
      BY <1>5 DEF Reached
  <2>2. PICK t : t = FreeMap(map)
      OBVIOUS
  <2>3. /\ t \in Map /\ ~t.fault /\ ~t.live /\ t.records = {} /\ t.empty = map.empty
        /\ t.state = map.state /\ t.cur = map.cur /\ t.calls = map.calls
        /\ \A r \in Records : t.value[r] = None
      BY <1>1, <2>2, FreeMapKeeps
  <2>4. map' = t
      BY <1>5, <2>2 DEF DropMap
  <2>5. t.fault \in BOOLEAN /\ t.live \in BOOLEAN
      BY <2>3, MapFields
  <2>6. Gone(map, t)
      BY <1>1, <2>1, <2>3, <2>5 DEF Gone, Sound
  <2>7. \A i \in held : There(t, i)
      BY <1>1, <2>3 DEF MapTyped, There
  <2>8. PICK tb : tb = {}
      OBVIOUS
  <2>9. MapState(t, next, key, tb, held, mh, clearing)
      BY <1>1, <1>3, <2>6, <2>7, <2>8, Frees
  <2>10. table' = tb
      BY <2>3, <2>4, <2>8 DEF DropMap
  <2>11. MapState(map', next', key', table', held', mapHeld', clearing')
      BY <1>3, <2>4, <2>9, <2>10 DEF DropMap
  <2> QED BY <2>11, Preserved
<1> QED BY <1>4, <1>5

-----------------------------------------------------------------------------
\* AddRecord keeps it: the new record is the last.
LEMMA AddRecordKeeps ==
    ASSUME MapInv, NEW k \in Keys, NEW v \in Values \cup {None}, AddRecord(k, v)
    PROVE  MapInv'
<1>1. /\ ~map.fault /\ clearing = None /\ mapHeld = TRUE /\ map.live /\ Whole(map)
      /\ Hashed(map, key, table) /\ Made(map, next)
      /\ MapTyped(map, next, key, table, held, mapHeld, clearing)
    BY UsableMap DEF AddRecord
<1>2. /\ map \in Map /\ Balanced(map, Locks(map)) /\ Sound(map) /\ Locks(map) \in [Records -> Nat]
      /\ map.records \in SUBSET Records /\ map.refs \in [Records -> Nat]
      /\ map.value \in [Records -> Values \cup {None}] /\ map.empty \in [Records -> BOOLEAN]
    BY <1>1, MapFields DEF MapTyped, Whole, Balanced
<1>3. /\ next \in Records /\ next \in Nat /\ MaxRecords \in Nat /\ next + 1 \in 1..MaxRecords + 1
      /\ key \in Seq(Keys) /\ Len(key) = next - 1
    BY <1>1, RecordNumbers DEF AddRecord, MapTyped, Records
<1>4. next \notin map.records /\ ~map.empty[next]
  <2>1. \A r \in map.records : r < next
      BY <1>1 DEF Made
  <2>2. ~(next < next) /\ next >= next
      BY <1>3
  <2> QED BY <1>1, <1>3, <2>1, <2>2 DEF Made
<1>5. Locks(map)[next] = 0
  <2>1. ~(Locks(map)[next] > 0)
      BY <1>2, <1>3, <1>4 DEF Balanced, Counts
  <2> QED BY <1>2, <1>3, <2>1
<1>6. PICK R : R = map.records \cup {next}
    OBVIOUS
<1>7. PICK f : f = [map.refs EXCEPT ![next] = 1]
    OBVIOUS
<1>8. PICK V : V = [map.value EXCEPT ![next] = v]
    OBVIOUS
<1>9. /\ R \in SUBSET Records /\ f \in [Records -> Nat] /\ V \in [Records -> Values \cup {None}]
      /\ f[next] = 1 /\ V[next] = v
      /\ \A q \in Records \ {next} : f[q] = map.refs[q] /\ V[q] = map.value[q]
    BY <1>2, <1>3, <1>6, <1>7, <1>8
<1>10. PICK t : t = [map EXCEPT !.records = R, !.refs = f, !.value = V]
    OBVIOUS
<1>11. map' = t
    BY <1>6, <1>7, <1>8, <1>10 DEF AddRecord
<1>12. /\ t \in Map /\ t.records = R /\ t.refs = f /\ t.value = V /\ t.empty = map.empty
       /\ t.state = map.state /\ t.cur = map.cur /\ t.live = map.live /\ t.calls = map.calls
       /\ t.fault = map.fault
    BY <1>2, <1>9, <1>10 DEF Map
<1>13. Locks(t) = Locks(map)
    BY <1>12, LocksSame
<1>14. Counts(t, Locks(map))
  <2>1. ASSUME NEW q \in Records
        PROVE  /\ q \in t.records => t.refs[q] > 0 /\ t.refs[q] = Locks(map)[q] + (IF t.empty[q] THEN 0 ELSE 1)
               /\ Locks(map)[q] > 0 => q \in t.records
    <3>1. CASE q = next
        BY <1>4, <1>5, <1>6, <1>9, <1>12, <3>1
    <3>2. CASE q # next
      <4>1. t.empty[q] = map.empty[q] /\ t.refs[q] = map.refs[q] /\ (q \in t.records <=> q \in map.records)
          BY <1>6, <1>9, <1>12, <2>1, <3>2
      <4> QED BY <1>2, <2>1, <4>1 DEF Balanced, Counts
    <3> QED BY <3>1, <3>2
  <2> QED BY <2>1 DEF Counts
<1>15. Balanced(t, Locks(t))
    BY <1>1, <1>2, <1>12, <1>13, <1>14 DEF Balanced
<1>16. \A i : There(map, i) <=> There(t, i)
    BY <1>12 DEF There
<1>17. v # None => There(t, v)
    BY <1>1, <1>16 DEF AddRecord, MapTyped
<1>18. Sound(t)
  <2>1. ASSUME NEW q \in Records, V[q] # None
        PROVE  q \in R /\ ~map.empty[q] /\ There(t, V[q])
    <3>1. CASE q = next
        BY <1>4, <1>6, <1>9, <1>17, <2>1, <3>1
    <3>2. CASE q # next
        BY <1>2, <1>6, <1>9, <1>16, <2>1, <3>2 DEF Sound
    <3> QED BY <3>1, <3>2
  <2> QED BY <1>2, <1>12, <1>16, <2>1 DEF Sound
<1>19. PICK n, ks, tb : n = next + 1 /\ ks = Append(key, k) /\ tb = table \cup {next}
    OBVIOUS
<1>20. /\ ks \in Seq(Keys) /\ Len(ks) = n - 1 /\ ks[next] = k
       /\ \A q \in Nat : 1 <= q /\ q < next => ks[q] = key[q]
    BY <1>3, <1>19
<1>21. tb = {r \in t.records : ~t.empty[r]}
    BY <1>1, <1>4, <1>6, <1>12, <1>19 DEF Hashed
<1>22. \A q, r \in tb : ks[q] = ks[r] => q = r
  <2>1. \A q \in table : q \in Nat /\ 1 <= q /\ q < next /\ ks[q] = key[q]
    <3>1. \A q \in table : q \in Records /\ q < next
        BY <1>1, <1>2 DEF Hashed, Made
    <3>2. \A q \in table : q \in Nat /\ 1 <= q /\ q < next
        BY <3>1, RecordNumbers DEF Records
    <3> QED BY <1>20, <3>2
  <2>2. \A q \in table : key[q] # k
      BY DEF AddRecord, Found
  <2>3. \A q, r \in table : key[q] = key[r] => q = r
      BY <1>1 DEF Hashed
  <2>4. ASSUME NEW q \in tb, NEW r \in tb, ks[q] = ks[r]
        PROVE  q = r
    <3>1. (q \in table \/ q = next) /\ (r \in table \/ r = next)
        BY <1>19
    <3>2. CASE q \in table /\ r \in table
        BY <2>1, <2>3, <2>4, <3>2
    <3>3. CASE q \in table /\ r = next
        BY <1>20, <2>1, <2>2, <2>4, <3>3
    <3>4. CASE q = next /\ r \in table
        BY <1>20, <2>1, <2>2, <2>4, <3>4
    <3> QED BY <3>1, <3>2, <3>3, <3>4
  <2> QED BY <2>4
<1>23. Made(t, n)
  <2>1. \A r \in t.records : r < n
    <3>1. \A r \in map.records : r \in Nat /\ r < next
        BY <1>1, <1>2, RecordNumbers DEF Made
    <3> QED BY <1>3, <1>6, <1>12, <1>19, <3>1
  <2>2. \A r \in Records : r >= n => ~t.empty[r]
      BY <1>1, <1>3, <1>12, <1>19, RecordNumbers DEF Made
  <2> QED BY <2>1, <2>2 DEF Made
<1>24. Fine(t, n, ks, tb, mapHeld, clearing)
    BY <1>1, <1>12, <1>15, <1>18, <1>21, <1>22, <1>23, RecordNumbers DEF Fine, Whole, Hashed, Cleared
<1>25. MapTyped(t, n, ks, tb, held, mapHeld, clearing)
  <2>1. tb \subseteq Records
      BY <1>9, <1>12, <1>21
  <2> QED BY <1>1, <1>3, <1>12, <1>16, <1>19, <1>20, <2>1 DEF MapTyped
<1>26. MapState(t, n, ks, tb, held, mapHeld, clearing)
    BY <1>1, <1>12, <1>24, <1>25 DEF MapState
<1>27. MapState(map', next', key', table', held', mapHeld', clearing')
    BY <1>11, <1>19, <1>26 DEF AddRecord
<1> QED BY <1>27, Preserved

\* What a delete leaves, in a map that the script has.
LEMMA MapAfterDelete ==
    ASSUME NEW hd, NEW n, NEW r \in map.records, Made(map, n), \A i \in hd : There(map, i),
           hd \subseteq held, held \subseteq Iters, map \in Map, NEW t \in Map, Removes(map, t, r), n \in Nat
    PROVE  Made(t, n) /\ \A i \in hd : There(t, i)
<1>1. t.records \subseteq map.records /\ \A q \in Records \ {r} : t.empty[q] = map.empty[q]
  <2>1. PICK e : e = [map EXCEPT !.empty[r] = TRUE]
      OBVIOUS
  <2>2. e.records = map.records
      BY <2>1 DEF Map
  <2> QED BY <2>1, <2>2 DEF Removes, Fewer
<1>2. \A q \in Records : q >= n => q # r
  <2>1. r < n /\ r \in Nat
      BY RecordNumbers, MapFields DEF Made
  <2> QED BY <2>1, RecordNumbers
<1>3. Made(t, n)
    BY <1>1, <1>2 DEF Made
<1>4. \A i \in hd : t.state[i] = map.state[i]
    BY DEF Removes
<1> QED BY <1>3, <1>4 DEF There

\* Delete keeps it.
LEMMA DeleteKeeps ==
    ASSUME MapInv, NEW k \in Keys, Delete(k)
    PROVE  MapInv'
<1>1. /\ ~map.fault /\ clearing = None /\ mapHeld = TRUE /\ map.live /\ Whole(map)
      /\ Hashed(map, key, table) /\ Made(map, next)
      /\ MapTyped(map, next, key, table, held, mapHeld, clearing)
    BY UsableMap DEF Delete
<1>2. PICK r \in Found(k) : table' = table \ {r} /\ map' = DeleteInternal(map, r)
    BY DEF Delete
<1>3. r \in table /\ r \in map.records /\ ~map.empty[r] /\ r \in Records
    BY <1>1, <1>2 DEF Found, Hashed, MapTyped
<1>4. PICK t : t = DeleteInternal(map, r)
    OBVIOUS
<1>5. Whole(t) /\ Removes(map, t, r)
    BY <1>1, <1>3, <1>4, DeleteInternalKeeps
<1>6. /\ t \in Map /\ ~t.fault /\ t.live /\ Sound(t) /\ t.records \in SUBSET Records
      /\ map \in Map /\ held \subseteq Iters /\ (\A i \in held : There(map, i)) /\ next \in Nat
      /\ map.records \in SUBSET Records /\ map.empty \in [Records -> BOOLEAN]
    BY <1>1, <1>5, MapFields, RecordNumbers DEF Whole, Balanced, MapTyped
<1>7. Made(t, next) /\ \A i \in held : There(t, i)
    BY <1>1, <1>3, <1>5, <1>6, MapAfterDelete
<1>8. PICK tb : tb = table \ {r}
    OBVIOUS
<1>9. Hashed(t, key, tb)
  <2>1. PICK e : e = [map EXCEPT !.empty[r] = TRUE]
      OBVIOUS
  <2>2. e.records = map.records /\ \A q \in Records \ {r} : e.empty[q] = map.empty[q]
      BY <1>6, <2>1 DEF Map
  <2>3. /\ t.records \subseteq map.records
        /\ \A q \in map.records \ {r} : q \notin t.records => map.empty[q]
        /\ \A q \in map.records \ {r} : t.empty[q] = map.empty[q]
        /\ r \in t.records => t.empty[r]
      BY <1>5, <1>6, <2>1, <2>2 DEF Removes, Fewer
  <2>4. tb = {q \in t.records : ~t.empty[q]}
      BY <1>1, <1>8, <2>3 DEF Hashed
  <2> QED BY <1>1, <1>8, <2>4 DEF Hashed
<1>10. Cleared(t, tb, mapHeld, clearing)
    BY <1>1, RecordNumbers DEF Cleared
<1>11. Fine(t, next, key, tb, mapHeld, clearing)
    BY <1>1, <1>5, <1>6, <1>7, <1>9, <1>10 DEF Fine
<1>12. MapTyped(t, next, key, tb, held, mapHeld, clearing)
    BY <1>1, <1>6, <1>7, <1>8 DEF MapTyped
<1>13. MapState(t, next, key, tb, held, mapHeld, clearing)
    BY <1>6, <1>11, <1>12 DEF MapState
<1>14. MapState(map', next', key', table', held', mapHeld', clearing')
    BY <1>2, <1>4, <1>8, <1>13 DEF Delete
<1> QED BY <1>14, Preserved

\* ClearStep keeps it, up to the read of a record that was freed.
LEMMA ClearStepKeeps ==
    ASSUME MapInv, ClearStep
    PROVE  MapInv'
<1>1. clearing \in Records /\ ~map.fault /\ clearing # None /\ clearing # 0
    BY RecordNumbers DEF ClearStep
<1>2. /\ MapTyped(map, next, key, table, held, mapHeld, clearing)
      /\ Fine(map, next, key, table, mapHeld, clearing) /\ map \in Map
      /\ (mapHeld => map.live) /\ (map.live => Whole(map))
    BY <1>1, RunningMap
<1>3. /\ mapHeld = TRUE /\ table = {} /\ (\A r \in map.records : r < clearing => map.empty[r])
      /\ clearing \in map.records \/ \E i \in Values : map.state[i] = "dead"
      /\ Made(map, next) /\ held \subseteq Iters /\ (\A i \in held : There(map, i)) /\ next \in Nat
    BY <1>1, <1>2, RecordNumbers DEF Fine, Cleared, MapTyped
<1>4. map.live /\ Whole(map)
    BY <1>2, <1>3
<1>5. CASE clearing \in map.records
  <2>1. PICK r : r = clearing
      OBVIOUS
  <2>2. PICK t : t = DeleteInternal(map, r)
      OBVIOUS
  <2>3. Whole(t) /\ Removes(map, t, r)
      BY <1>3, <1>4, <1>5, <2>1, <2>2, DeleteInternalKeeps
  <2>4. /\ t \in Map /\ ~t.fault /\ t.live /\ Sound(t) /\ t.records \in SUBSET Records
        /\ map.records \in SUBSET Records
      BY <1>2, <2>3, MapFields DEF Whole, Balanced
  <2>5. Made(t, next) /\ \A i \in held : There(t, i)
      BY <1>2, <1>3, <1>5, <2>1, <2>3, <2>4, MapAfterDelete
  <2>6. PICK rest : rest = {q \in map.records : q > r}
      OBVIOUS
  <2>7. PICK cl : cl = IF rest = {} THEN 0 ELSE First(rest)
      OBVIOUS
  <2>8. map' = t /\ clearing' = cl
      BY <1>5, <2>1, <2>2, <2>6, <2>7 DEF ClearStep, After
  <2>9. \/ cl = 0 /\ rest = {}
        \/ cl \in rest /\ \A q \in rest : cl <= q
    <3>1. rest \in SUBSET Records
        BY <2>4, <2>6
    <3> QED BY <2>7, <3>1, FirstIs
  <2>10. /\ t.records \subseteq map.records
         /\ \A q \in Records \ {r} : t.empty[q] = map.empty[q]
         /\ r \in t.records => t.empty[r]
         /\ (map.records \subseteq t.records \cup {r}) \/ \E i \in Values : t.state[i] = "dead"
    <3>1. PICK e : e = [map EXCEPT !.empty[r] = TRUE]
        OBVIOUS
    <3>2. e.records = map.records
        BY <1>2, <3>1 DEF Map
    <3> QED BY <2>3, <3>1, <3>2 DEF Removes, Fewer
  <2>11. \A q \in map.records : q \in Nat /\ q # 0 /\ q \in Records
      BY <2>4, RecordNumbers
  <2>12. \A q \in t.records : ~(q > r) => t.empty[q]
      BY <1>3, <1>5, <2>1, <2>10, <2>11
  <2>13. Cleared(t, table, mapHeld, cl)
    <3>1. CASE cl = 0 /\ rest = {}
      <4>1. \A q \in t.records : t.empty[q]
          BY <2>6, <2>10, <2>12, <3>1
      <4> QED BY <1>3, <3>1, <4>1, RecordNumbers DEF Cleared
    <3>2. CASE cl \in rest /\ \A q \in rest : cl <= q
      <4>1. cl \in map.records /\ cl \in Records /\ cl \in Nat /\ cl # 0 /\ cl > r /\ cl # r
          BY <1>5, <2>1, <2>6, <2>11, <3>2
      <4>2. \A q \in t.records : q < cl => t.empty[q]
        <5>1. \A q \in map.records : q < cl => ~(q > r)
            BY <2>6, <2>11, <3>2, <4>1
        <5> QED BY <2>10, <2>12, <5>1
      <4>3. cl \in t.records \/ \E i \in Values : t.state[i] = "dead"
          BY <2>10, <4>1
      <4> QED BY <1>3, <4>1, <4>2, <4>3 DEF Cleared
    <3> QED BY <2>9, <3>1, <3>2
  <2>14. cl \in {None, 0} \cup Records /\ cl # None
      BY <2>6, <2>9, <2>11, RecordNumbers
  <2>15. Fine(t, next, key, table, mapHeld, cl)
      BY <1>3, <2>3, <2>4, <2>5, <2>13, <2>14 DEF Fine
  <2>16. MapTyped(t, next, key, table, held, mapHeld, cl)
      BY <1>2, <2>4, <2>5, <2>14 DEF MapTyped
  <2>17. MapState(t, next, key, table, held, mapHeld, cl)
      BY <2>4, <2>15, <2>16 DEF MapState
  <2>18. MapState(map', next', key', table', held', mapHeld', clearing')
      BY <2>8, <2>17 DEF ClearStep
  <2> QED BY <2>18, Preserved
<1>6. CASE clearing \notin map.records
  <2>1. PICK b : b = TRUE
      OBVIOUS
  <2>2. PICK t : t = [map EXCEPT !.fault = b]
      OBVIOUS
  <2>3. map' = t /\ clearing' = clearing
      BY <1>6, <2>1, <2>2 DEF ClearStep
  <2>4. b \in BOOLEAN
      BY <2>1
  <2>5. t \in Map /\ t.fault = b /\ t.state = map.state
      BY <1>2, <2>2, <2>4 DEF Map
  <2>6. MapTyped(t, next, key, table, held, mapHeld, clearing)
      BY <1>2, <2>5 DEF MapTyped, There
  <2>7. \E i \in Values : t.state[i] = "dead"
      BY <1>3, <1>6, <2>5
  <2>8. MapState(t, next, key, table, held, mapHeld, clearing)
      BY <1>1, <2>1, <2>5, <2>6, <2>7 DEF MapState
  <2>9. MapState(map', next', key', table', held', mapHeld', clearing')
      BY <2>3, <2>8 DEF ClearStep
  <2> QED BY <2>9, Preserved
<1> QED BY <1>5, <1>6

-----------------------------------------------------------------------------
\* An iterator or the script lets go of the map, outside of a clear: t is the
\* state it leaves, and the map is freed if nobody has it.
LEMMA StaysOrFrees ==
    ASSUME MapInv, ~map.fault, clearing = None, map.live,
           NEW t, Whole(t), Fewer(map, t), t.empty = map.empty, t.calls = map.calls,
           NEW hd \in SUBSET Iters, \A i \in hd : There(t, i),
           NEW u, u = (IF Reached(t, mapHeld) THEN t ELSE FreeMap(t)),
           NEW tb, tb = (IF u.live THEN table ELSE {})
    PROVE  MapState(u, next, key, tb, hd, mapHeld, clearing)
<1>1. /\ MapTyped(map, next, key, table, held, mapHeld, clearing)
      /\ Fine(map, next, key, table, mapHeld, clearing)
    BY RunningMap
<1>2. t \in Map /\ ~t.fault /\ t.live /\ Sound(t)
    BY DEF Whole, Balanced
<1>3. CASE Reached(t, mapHeld)
  <2>1. u = t /\ tb = table
      BY <1>2, <1>3
  <2>2. t.calls # <<>> => mapHeld
      BY <1>1 DEF Fine
  <2>3. MapState(t, next, key, table, hd, mapHeld, clearing)
      BY <2>2, Stays
  <2> QED BY <2>1, <2>3
<1>4. CASE ~Reached(t, mapHeld)
  <2>1. mapHeld = FALSE /\ t.calls = <<>> /\ \A i \in Iters : t.state[i] # "live"
      BY <1>1, <1>4 DEF Reached, MapTyped
  <2>2. u = FreeMap(t)
      BY <1>4
  <2>3. /\ u \in Map /\ ~u.fault /\ ~u.live /\ u.records = {} /\ u.empty = t.empty
        /\ u.state = t.state /\ u.cur = t.cur /\ u.calls = t.calls
        /\ \A r \in Records : u.value[r] = None
      BY <1>2, <2>2, FreeMapKeeps
  <2>4. u.fault \in BOOLEAN /\ u.live \in BOOLEAN
      BY <2>3, MapFields
  <2>5. Gone(map, u)
      BY <1>2, <2>1, <2>3, <2>4 DEF Gone, Sound
  <2>6. \A i \in hd : There(u, i)
      BY <2>3 DEF There
  <2>7. tb = {}
      BY <2>3
  <2> QED BY <2>1, <2>5, <2>6, <2>7, Frees
<1> QED BY <1>3, <1>4

\* DropIterator keeps it: the finalizer may free the map.
LEMMA DropIteratorKeeps ==
    ASSUME MapInv, NEW i \in Iters, DropIterator(i)
    PROVE  MapInv'
<1>1. /\ ~map.fault /\ clearing = None /\ i \in held
      /\ MapTyped(map, next, key, table, held, mapHeld, clearing)
      /\ Fine(map, next, key, table, mapHeld, clearing) /\ map \in Map
      /\ map.live \in BOOLEAN /\ (map.live => Whole(map))
    BY RunningMap DEF DropIterator, Running
<1>2. PICK hd : hd = held \ {i}
    OBVIOUS
<1>3. /\ hd \in SUBSET held /\ hd \in SUBSET Iters /\ There(map, i)
      /\ \A j \in hd : There(map, j) /\ j # i
    BY <1>1, <1>2 DEF MapTyped
<1>4. CASE map' = map
  <2>1. table' = table
    <3>1. ~map.live => table = {}
        BY <1>1 DEF Fine, Freed
    <3> QED BY <1>4, <3>1 DEF DropIterator
  <2>2. MapState(map, next, key, table, hd, mapHeld, clearing)
      BY <1>3, HeldFewer
  <2>3. MapState(map', next', key', table', held', mapHeld', clearing')
      BY <1>2, <1>4, <2>1, <2>2 DEF DropIterator
  <2> QED BY <2>3, Preserved
<1>5. CASE map' # map
  <2>1. ~(ValueRefs(map, i) > 0)
      BY <1>5 DEF DropIterator
  <2>2. ValueRefs(map, i) = 0
    <3>1. ValueRefs(map, i) \in Nat
        BY <1>1, RefsNumber
    <3> QED BY <2>1, <3>1
  <2>3. PICK t : t = Finalize(map, i)
      OBVIOUS
  <2>4. map.live
    <3>1. ASSUME ~map.live
          PROVE  FALSE
      <4>1. map.state[i] = "done"
          BY <1>1, <1>3, <3>1 DEF Fine, Freed, There
      <4>2. t = map
          BY <2>3, <4>1 DEF Finalize
      <4>3. map' = map
          BY <2>1, <2>3, <3>1, <4>2 DEF DropIterator
      <4> QED BY <1>5, <4>3
    <3> QED BY <3>1
  <2>5. /\ Whole(t) /\ t.empty = map.empty /\ t.calls = map.calls /\ Fewer(map, t)
        /\ \A j \in Iters \ {i} : t.state[j] = map.state[j]
      BY <1>1, <1>3, <2>2, <2>3, <2>4, FinalizeKeeps
  <2>6. \A j \in hd : There(t, j)
      BY <1>3, <2>5 DEF There
  <2>7. PICK u : u = IF Reached(t, mapHeld) THEN t ELSE FreeMap(t)
      OBVIOUS
  <2>8. t.live
      BY <2>5 DEF Whole
  <2>9. map' = u
      BY <2>1, <2>3, <2>7, <2>8 DEF DropIterator
  <2>10. PICK tb : tb = IF u.live THEN table ELSE {}
      OBVIOUS
  <2>11. MapState(u, next, key, tb, hd, mapHeld, clearing)
      BY <1>1, <1>3, <2>4, <2>5, <2>6, <2>7, <2>10, StaysOrFrees
  <2>12. MapState(map', next', key', table', held', mapHeld', clearing')
      BY <1>2, <2>9, <2>10, <2>11 DEF DropIterator
  <2> QED BY <2>12, Preserved
<1> QED BY <1>4, <1>5

\* Iterators that only the map references find the record they stand on.
LEMMA NothingMissed ==
    ASSUME NEW s, s = map, Whole(s), NEW first \in SUBSET Iters, \A i \in first : s.state[i] = "live"
    PROVE  ~Misses(first)
<1>1. /\ s \in Map /\ Locks(s) \in [Records -> Nat] /\ Counts(s, Locks(s))
      /\ s.refs \in [Records -> Nat] /\ s.empty \in [Records -> BOOLEAN]
    BY MapFields DEF Whole, Balanced
<1>2. ASSUME NEW r \in Records, NEW n, n = Cardinality({i \in first : s.cur[i] = r}), n > 0
      PROVE  r \in s.records /\ ~(n > s.refs[r]) /\ (n = s.refs[r] => s.empty[r])
  <2>1. PICK S : S = {i \in first : s.cur[i] = r}
      OBVIOUS
  <2>2. S \subseteq Standing(s, r)
      BY <1>2, <2>1 DEF Standing
  <2>3. IsFiniteSet(Standing(s, r)) /\ Cardinality(Standing(s, r)) \in Nat
        /\ Cardinality(Calling(s, r)) \in Nat
      BY <1>1, LockSets
  <2>4. IsFiniteSet(S) /\ Cardinality(S) <= Cardinality(Standing(s, r))
      BY <2>2, <2>3, FS_Subset
  <2>5. Cardinality(S) \in Nat /\ n = Cardinality(S)
      BY <1>2, <2>1, <2>4, FS_CardinalityType
  <2>6. Locks(s)[r] = Cardinality(Standing(s, r)) + Cardinality(Calling(s, r))
      BY DEF Locks
  <2>7. n \in Nat /\ Locks(s)[r] \in Nat /\ n <= Locks(s)[r] /\ Locks(s)[r] > 0
      BY <1>2, <2>3, <2>4, <2>5, <2>6
  <2>8. r \in s.records /\ s.refs[r] = Locks(s)[r] + (IF s.empty[r] THEN 0 ELSE 1) /\ s.refs[r] \in Nat
      BY <1>1, <2>7 DEF Counts
  <2>9. CASE s.empty[r]
      BY <2>7, <2>8, <2>9
  <2>10. CASE ~s.empty[r]
      BY <2>7, <2>8, <2>10
  <2> QED BY <2>9, <2>10
<1> QED BY <1>2 DEF Misses

\* Collect keeps it: nothing that is left has the map.
LEMMA CollectKeeps ==
    ASSUME MapInv, NEW first \in SUBSET Iters, Collect(first)
    PROVE  MapInv'
<1>1. /\ ~map.fault /\ clearing = None /\ map.live /\ mapHeld = FALSE /\ map.calls = <<>>
      /\ MapTyped(map, next, key, table, held, mapHeld, clearing)
      /\ map \in Map /\ Whole(map) /\ Sound(map)
    BY RunningMap DEF Collect, Running, MapTyped, Whole
<1>2. PICK lost : lost = {i \in Iters : map.state[i] = "live"}
    OBVIOUS
<1>3. lost \cap held = {} /\ first \subseteq lost
    BY <1>2 DEF Collect
<1>4. ~Misses(first)
    BY <1>1, <1>2, <1>3, NothingMissed
<1>5. PICK b : b = FALSE
    OBVIOUS
<1>6. PICK s : s = FreeMap(map)
    OBVIOUS
<1>7. /\ s \in Map /\ ~s.fault /\ ~s.live /\ s.records = {} /\ s.empty = map.empty
      /\ s.state = map.state /\ s.cur = map.cur /\ s.calls = map.calls
      /\ \A r \in Records : s.value[r] = None
    BY <1>1, <1>6, FreeMapKeeps
<1>8. PICK f : f = [i \in Iters |-> IF i \in lost THEN "dead" ELSE s.state[i]]
    OBVIOUS
<1>9. /\ f \in [Iters -> {"unused", "live", "done", "dead"}]
      /\ \A i \in Iters : f[i] = IF i \in lost THEN "dead" ELSE map.state[i]
    BY <1>7, <1>8, MapFields
<1>10. PICK m : m = Misses(first)
    OBVIOUS
<1>11. PICK t : t = [s EXCEPT !.state = f, !.fault = m]
    OBVIOUS
<1>12. map' = t
    BY <1>2, <1>6, <1>8, <1>10, <1>11 DEF Collect
<1>13. m \in BOOLEAN /\ ~m
    BY <1>4, <1>10 DEF Misses
<1>14. /\ t \in Map /\ t.state = f /\ t.fault = m /\ t.live = s.live /\ t.records = s.records
       /\ t.empty = s.empty /\ t.cur = s.cur /\ t.calls = s.calls /\ t.value = s.value
    BY <1>7, <1>9, <1>11, <1>13 DEF Map
<1>15. t.fault \in BOOLEAN /\ t.live \in BOOLEAN
    BY <1>14, MapFields
<1>16. Gone(map, t)
  <2>1. \A i \in Iters : t.state[i] # "live" /\ (t.state[i] = "unused" => t.cur[i] = None)
      BY <1>1, <1>2, <1>7, <1>9, <1>14 DEF Sound
  <2>2. t.fault = FALSE /\ t.live = FALSE
      BY <1>7, <1>13, <1>14, <1>15
  <2> QED BY <1>1, <1>7, <1>14, <2>1, <2>2 DEF Gone
<1>17. held \in SUBSET Iters /\ \A i \in held : There(t, i)
    BY <1>1, <1>3, <1>9, <1>14 DEF MapTyped, There
<1>18. PICK tb : tb = {}
    OBVIOUS
<1>19. MapState(t, next, key, tb, held, mapHeld, clearing)
    BY <1>1, <1>16, <1>17, <1>18, Frees
<1>20. MapState(map', next', key', table', held', mapHeld', clearing')
    BY <1>12, <1>18, <1>19 DEF Collect
<1> QED BY <1>20, Preserved

-----------------------------------------------------------------------------
\* An iterator gives its record up: d is the state then, u the one in which it
\* stands on none.
GivesUp(s, i, d, u) ==
    /\ d = IF s.cur[i] = None THEN s ELSE Decref(s, s.cur[i])
    /\ u = [d EXCEPT !.cur[i] = None]

\* d is the state without the reference, u the one with the iterator moved off.
StandsOff(s, i, d, u) ==
    /\ d \in Map /\ ~d.fault /\ Same(s, d) /\ Fewer(s, d)
    /\ Whole(u) /\ u.records = d.records /\ u.refs = d.refs /\ u.empty = s.empty
    /\ u.value = s.value /\ u.state = s.state /\ u.calls = s.calls
    /\ u.cur[i] = None /\ \A j \in Iters \ {i} : u.cur[j] = s.cur[j]

\* An iterator may give its record up.
LEMMA LeaveRecord ==
    ASSUME NEW s, Whole(s), NEW i \in Iters, s.state[i] = "live", NEW d, NEW u, GivesUp(s, i, d, u)
    PROVE  StandsOff(s, i, d, u)
<1>1. /\ s \in Map /\ Balanced(s, Locks(s)) /\ Sound(s) /\ s.live
      /\ s.cur \in [Iters -> Records \cup {None}]
    BY MapFields DEF Whole, Balanced
<1>2. PICK h : h = IF s.cur[i] = None THEN Locks(s) ELSE [Locks(s) EXCEPT ![s.cur[i]] = @ - 1]
    OBVIOUS
<1>3. Balanced(d, h) /\ Same(s, d) /\ Fewer(s, d)
  <2>1. CASE s.cur[i] = None
      BY <1>1, <1>2, <2>1 DEF Same, Fewer, GivesUp
  <2>2. CASE s.cur[i] # None
    <3>1. PICK r : r = s.cur[i]
        OBVIOUS
    <3>2. r \in Records /\ i \in Standing(s, r)
        BY <1>1, <2>2, <3>1 DEF Standing
    <3>3. Locks(s)[r] > 0
        BY <1>1, <3>2, LockedRecord
    <3>4. d = Decref(s, r)
        BY <2>2, <3>1 DEF GivesUp
    <3>5. h = [Locks(s) EXCEPT ![r] = @ - 1]
        BY <1>2, <2>2, <3>1
    <3> QED BY <1>1, <3>2, <3>3, <3>4, <3>5, DecrefKeeps
  <2> QED BY <2>1, <2>2
<1>4. d \in Map /\ ~d.fault
    BY <1>3 DEF Balanced
<1>5. PICK C : C = [d.cur EXCEPT ![i] = None]
    OBVIOUS
<1>6. C \in [Iters -> Records \cup {None}] /\ C[i] = None /\ \A j \in Iters \ {i} : C[j] = s.cur[j]
    BY <1>1, <1>3, <1>5 DEF Same
<1>7. u = [d EXCEPT !.cur = C]
    BY <1>5 DEF GivesUp
<1>8. /\ u \in Map /\ u.cur = C /\ u.records = d.records /\ u.refs = d.refs /\ u.empty = s.empty
      /\ u.value = s.value /\ u.state = s.state /\ u.live = s.live /\ u.calls = s.calls /\ u.fault = d.fault
    BY <1>3, <1>4, <1>6, <1>7 DEF Map, Same
<1>9. Locks(u) = h
  <2>1. CASE s.cur[i] = None
    <3>1. C = s.cur
        BY <1>1, <1>6, <2>1
    <3> QED BY <1>2, <1>8, <2>1, <3>1, LocksSame
  <2>2. CASE s.cur[i] # None
    <3>1. PICK r : r = s.cur[i]
        OBVIOUS
    <3>2. r \in Records
        BY <1>1, <2>2, <3>1
    <3>3. StepsOff(s, u, i, r)
        BY <1>6, <1>8, <3>1, RecordNumbers DEF StepsOff
    <3>4. Locks(u) = [Locks(s) EXCEPT ![r] = @ - 1]
        BY <1>1, <1>8, <3>2, <3>3, LocksStepOff
    <3> QED BY <1>2, <2>2, <3>1, <3>4
  <2> QED BY <2>1, <2>2
<1>10. Balanced(u, Locks(u))
    BY <1>3, <1>4, <1>8, <1>9 DEF Balanced, Counts, Same
<1>11. Sound(u)
  <2>1. \A j : There(u, j) <=> There(s, j)
      BY <1>8 DEF There
  <2>2. \A q \in Records : s.value[q] # None => q \in d.records
      BY <1>1, <1>3 DEF Sound, Fewer
  <2>3. \A j \in Iters : u.state[j] = "unused" => u.cur[j] = None
      BY <1>1, <1>6, <1>8 DEF Sound
  <2> QED BY <1>1, <1>8, <2>1, <2>2, <2>3 DEF Sound
<1> QED BY <1>1, <1>3, <1>4, <1>6, <1>8, <1>10, <1>11 DEF Whole, StandsOff

\* IteratorNext keeps it: the old record is unlocked, the next one locked.
LEMMA IteratorNextKeeps ==
    ASSUME MapInv, NEW i \in Iters, IteratorNext(i)
    PROVE  MapInv'
<1>1. /\ ~map.fault /\ clearing = None /\ i \in held /\ map.state[i] = "live"
      /\ MapTyped(map, next, key, table, held, mapHeld, clearing)
      /\ Fine(map, next, key, table, mapHeld, clearing) /\ map \in Map
      /\ map.live /\ Whole(map)
    BY RunningMap DEF IteratorNext, Running
<1>2. PICK d : d = IF map.cur[i] = None THEN map ELSE Decref(map, map.cur[i])
    OBVIOUS
<1>3. PICK u : u = [d EXCEPT !.cur[i] = None]
    OBVIOUS
<1>4. /\ d \in Map /\ ~d.fault /\ Same(map, d) /\ Fewer(map, d)
      /\ Whole(u) /\ u.records = d.records /\ u.refs = d.refs /\ u.empty = map.empty
      /\ u.value = map.value /\ u.state = map.state /\ u.calls = map.calls
      /\ u.cur[i] = None /\ \A j \in Iters \ {i} : u.cur[j] = map.cur[j]
  <2>1. GivesUp(map, i, d, u)
      BY <1>2, <1>3 DEF GivesUp
  <2>2. StandsOff(map, i, d, u)
      BY <1>1, <2>1, LeaveRecord
  <2> QED BY <2>2 DEF StandsOff
<1>5. /\ u \in Map /\ u.live /\ ~u.fault /\ Balanced(u, Locks(u)) /\ Sound(u)
      /\ Locks(u) \in [Records -> Nat] /\ u.records \in SUBSET Records
      /\ u.refs \in [Records -> Nat]
    BY <1>4, MapFields DEF Whole, Balanced
<1>6. PICK el : el = IF map.cur[i] = None THEN 0 ELSE NextElement(map, map.cur[i])
    OBVIOUS
<1>7. PICK rest : rest = Valid(d, el)
    OBVIOUS
<1>8. held \in SUBSET Iters /\ \A j \in held : There(map, j)
    BY <1>1 DEF MapTyped
<1>9. CASE rest # {}
  <2>1. PICK r : r = First(rest)
      OBVIOUS
  <2>2. r \in rest /\ r \in d.records /\ r \in Records
    <3>1. rest \in SUBSET Records /\ \A q \in rest : q \in d.records
        BY <1>4, <1>5, <1>7 DEF Valid
    <3>2. r \in rest
        BY <1>9, <2>1, <3>1, FirstIs
    <3> QED BY <3>1, <3>2
  <2>3. PICK w : w = Locked(u, r)
      OBVIOUS
  <2>4. Balanced(w, [Locks(u) EXCEPT ![r] = @ + 1])
      BY <1>4, <1>5, <2>2, <2>3, LockKeeps
  <2>5. PICK f : f = [d.refs EXCEPT ![r] = @ + 1]
      OBVIOUS
  <2>6. PICK C : C = [d.cur EXCEPT ![i] = r]
      OBVIOUS
  <2>7. /\ f \in [Records -> Nat] /\ C \in [Iters -> Records \cup {None}] /\ C[i] = r
        /\ \A j \in Iters \ {i} : C[j] = map.cur[j]
    <3>1. d.refs \in [Records -> Nat] /\ d.refs[r] \in Nat
        BY <1>4, <1>5, <2>2
    <3>2. f \in [Records -> Nat]
        BY <2>2, <2>5, <3>1
    <3>3. map.cur \in [Iters -> Records \cup {None}] /\ d.cur = map.cur
        BY <1>1, <1>4, MapFields DEF Same
    <3> QED BY <2>2, <2>6, <3>2, <3>3
  <2>8. PICK t : t = [d EXCEPT !.refs = f, !.cur = C]
      OBVIOUS
  <2>9. map' = t
    <3>1. map' = [Locked(d, r) EXCEPT !.cur[i] = r]
        BY <1>2, <1>6, <1>7, <1>9, <2>1 DEF IteratorNext
    <3>2. PICK e : e = Locked(d, r)
        OBVIOUS
    <3>3. e = [d EXCEPT !.refs = f]
        BY <2>5, <3>2 DEF Locked
    <3>4. e.cur = d.cur
        BY <1>4, <3>3 DEF Map
    <3>5. map' = [e EXCEPT !.cur = C]
        BY <2>6, <3>1, <3>2, <3>4
    <3> QED BY <2>8, <3>3, <3>5
  <2>10. /\ t \in Map /\ t.refs = f /\ t.cur = C /\ t.records = d.records /\ t.empty = map.empty
         /\ t.value = map.value /\ t.state = map.state /\ t.live = map.live /\ t.calls = map.calls
         /\ t.fault = d.fault
      BY <1>4, <2>7, <2>8 DEF Map, Same
  <2>11. Locks(t) = [Locks(u) EXCEPT ![r] = @ + 1]
    <3>1. StepsOn(u, t, i, r)
        BY <1>1, <1>4, <2>7, <2>10, RecordNumbers DEF StepsOn
    <3> QED BY <1>5, <2>2, <2>10, <3>1, LocksStepOn
  <2>12. w = [u EXCEPT !.refs = f]
      BY <1>4, <2>3, <2>5 DEF Locked
  <2>13. w.refs = f /\ w.records = d.records /\ w.empty = map.empty
      BY <1>4, <1>5, <2>12 DEF Map
  <2>14. Balanced(t, Locks(t))
      BY <1>4, <2>4, <2>10, <2>11, <2>13 DEF Balanced, Counts
  <2>15. \A j : There(t, j) <=> There(map, j)
      BY <2>10 DEF There
  <2>16. Sound(t)
    <3>1. \A j : There(t, j) <=> There(u, j)
        BY <1>4, <2>10 DEF There
    <3>2. \A j \in Iters : t.state[j] = "unused" => t.cur[j] = None
        BY <1>1, <1>4, <1>5, <2>7, <2>10 DEF Sound
    <3> QED BY <1>4, <1>5, <2>10, <3>1, <3>2 DEF Sound
  <2>17. Whole(t) /\ Fewer(map, t) /\ \A j \in held : There(t, j)
      BY <1>1, <1>4, <1>8, <2>10, <2>14, <2>15, <2>16 DEF Whole, Fewer
  <2>18. t.calls # <<>> => mapHeld
      BY <1>1, <2>10 DEF Fine
  <2>19. MapState(t, next, key, table, held, mapHeld, clearing)
      BY <1>1, <1>8, <2>10, <2>17, <2>18, Stays
  <2>20. table' = table
      BY <1>1, <2>9, <2>10 DEF IteratorNext
  <2>21. MapState(map', next', key', table', held', mapHeld', clearing')
      BY <2>9, <2>19, <2>20 DEF IteratorNext
  <2> QED BY <2>21, Preserved
<1>10. CASE rest = {}
  <2>1. PICK t : t = [d EXCEPT !.state[i] = "done", !.cur[i] = None]
      OBVIOUS
  <2>2. PICK f : f = [d.state EXCEPT ![i] = "done"]
      OBVIOUS
  <2>3. PICK C : C = [d.cur EXCEPT ![i] = None]
      OBVIOUS
  <2>4. d.state = map.state /\ d.cur = map.cur /\ map.state \in [Iters -> {"unused", "live", "done", "dead"}]
        /\ map.cur \in [Iters -> Records \cup {None}]
      BY <1>1, <1>4, MapFields DEF Same
  <2>5. /\ f \in [Iters -> {"unused", "live", "done", "dead"}] /\ f[i] = "done"
        /\ \A j \in Iters \ {i} : f[j] = map.state[j]
        /\ C \in [Iters -> Records \cup {None}] /\ C[i] = None
        /\ \A j \in Iters \ {i} : C[j] = map.cur[j]
      BY <2>2, <2>3, <2>4
  <2>6. t = [d EXCEPT !.state = f, !.cur = C]
      BY <2>1, <2>2, <2>3
  <2>7. /\ t \in Map /\ t.state = f /\ t.cur = C /\ t.records = d.records /\ t.refs = d.refs
        /\ t.empty = map.empty /\ t.value = map.value /\ t.live = map.live /\ t.calls = map.calls
        /\ t.fault = d.fault
      BY <1>4, <2>5, <2>6 DEF Map, Same
  <2>8. Locks(t) = Locks(u)
    <3>1. \A r \in Records : Standing(t, r) = Standing(u, r)
        BY <1>4, <2>5, <2>7, RecordNumbers DEF Standing
    <3>2. \A r \in Records : Calling(t, r) = Calling(u, r)
        BY <1>4, <2>7 DEF Calling
    <3> QED BY <3>1, <3>2 DEF Locks
  <2>9. Balanced(t, Locks(t))
      BY <1>4, <1>5, <2>7, <2>8 DEF Balanced, Counts
  <2>10. \A j \in Iters : There(map, j) => There(t, j)
      BY <2>5, <2>7 DEF There
  <2>11. Sound(t)
    <3>1. ASSUME NEW q \in Records, map.value[q] # None
          PROVE  q \in t.records /\ ~t.empty[q] /\ There(t, t.value[q])
      <4>1. q \in u.records /\ ~u.empty[q] /\ There(u, u.value[q])
          BY <1>4, <1>5, <3>1 DEF Sound
      <4>2. map.value[q] \in Iters /\ There(map, map.value[q])
          BY <1>1, <1>4, <3>1, <4>1, MapFields, RecordNumbers DEF There
      <4> QED BY <1>4, <2>7, <2>10, <4>1, <4>2
    <3>2. ASSUME NEW c \in DOMAIN map.calls, map.calls[c].value # None
          PROVE  There(t, map.calls[c].value)
      <4>1. There(map, map.calls[c].value)
          BY <1>4, <1>5, <3>2 DEF Sound, There
      <4>2. map.calls[c].value \in Iters
          BY <1>1, <3>2, CallValues
      <4> QED BY <2>10, <4>1, <4>2
    <3>3. \A j \in Iters : t.state[j] = "unused" => t.cur[j] = None
        BY <1>4, <1>5, <2>5, <2>7 DEF Sound
    <3> QED BY <2>7, <3>1, <3>2, <3>3 DEF Sound
  <2>12. Whole(t) /\ Fewer(map, t) /\ \A j \in held : There(t, j)
    <3>1. Whole(t)
        BY <1>1, <2>7, <2>9, <2>11 DEF Whole
    <3>2. Fewer(map, t)
        BY <1>4, <2>7 DEF Fewer
    <3>3. \A j \in held : There(t, j)
        BY <1>1, <1>8, <2>10
    <3> QED BY <3>1, <3>2, <3>3
  <2>13. PICK v : v = IF Reached(t, mapHeld) THEN t ELSE FreeMap(t)
      OBVIOUS
  <2>14. map' = v
    <3>1. map' = IF rest # {} THEN [Locked(d, First(rest)) EXCEPT !.cur[i] = First(rest)]
                 ELSE IF Reached([d EXCEPT !.state[i] = "done", !.cur[i] = None], mapHeld)
                      THEN [d EXCEPT !.state[i] = "done", !.cur[i] = None]
                      ELSE FreeMap([d EXCEPT !.state[i] = "done", !.cur[i] = None])
        BY <1>2, <1>6, <1>7 DEF IteratorNext
    <3>2. map' = IF Reached(t, mapHeld) THEN t ELSE FreeMap(t)
        BY <1>10, <2>1, <3>1
    <3> QED BY <2>13, <3>2
  <2>15. PICK tb : tb = IF v.live THEN table ELSE {}
      OBVIOUS
  <2>16. MapState(v, next, key, tb, held, mapHeld, clearing)
      BY <1>1, <1>8, <2>7, <2>12, <2>13, <2>15, StaysOrFrees
  <2>17. table' = tb
      BY <2>14, <2>15 DEF IteratorNext
  <2>18. MapState(map', next', key', table', held', mapHeld', clearing')
      BY <2>14, <2>16, <2>17 DEF IteratorNext
  <2> QED BY <2>18, Preserved
<1> QED BY <1>9, <1>10

-----------------------------------------------------------------------------
\* forEach calls its function with record r.
Enters(s, r, t) == t = [Locked(s, r) EXCEPT !.calls = Append(@, Call(s, r))]

\* Nothing that iterators see is changed.
Entered(s, t) ==
    /\ t.records = s.records /\ t.empty = s.empty /\ t.value = s.value
    /\ t.state = s.state /\ t.cur = s.cur

\* A record on the list may be locked by a call.
LEMMA EnterKeeps ==
    ASSUME NEW s, Whole(s), NEW r \in s.records, NEW t, Enters(s, r, t)
    PROVE  Whole(t) /\ Entered(s, t)
<1>1. /\ s \in Map /\ Balanced(s, Locks(s)) /\ Sound(s) /\ s.live /\ ~s.fault
      /\ s.records \in SUBSET Records /\ r \in Records
      /\ s.value \in [Records -> Values \cup {None}] /\ Len(s.calls) \in Nat
    BY MapFields DEF Whole, Balanced
<1>2. PICK T : T = [record : Records, value : Values \cup {None}]
    OBVIOUS
<1>3. PICK c : c = Call(s, r)
    OBVIOUS
<1>4. c \in T /\ c.record = r /\ c.value = s.value[r]
  <2>1. c = [record |-> r, value |-> s.value[r]]
      BY <1>3 DEF Call
  <2>2. s.value[r] \in Values \cup {None}
      BY <1>1
  <2> QED BY <1>1, <1>2, <2>1, <2>2
<1>5. PICK Q : Q = Append(s.calls, c)
    OBVIOUS
<1>6. s.calls \in Seq(T)
    BY <1>1, <1>2, MapFields
<1>7. Q \in Seq(T) /\ Q # <<>> /\ \A d \in DOMAIN Q : Q[d] = c \/ (d \in DOMAIN s.calls /\ Q[d] = s.calls[d])
    BY <1>4, <1>5, <1>6
<1>8. PICK w : w = Locked(s, r)
    OBVIOUS
<1>9. Balanced(w, [Locks(s) EXCEPT ![r] = @ + 1]) /\ Same(s, w) /\ w.records = s.records
    BY <1>1, <1>8, LockKeeps
<1>10. t = [w EXCEPT !.calls = Q]
    BY <1>3, <1>5, <1>8, <1>9 DEF Enters, Same
<1>11. w \in Map /\ ~w.fault
    BY <1>9 DEF Balanced
<1>12. Q \in Seq([record : Records, value : Values \cup {None}])
    BY <1>2, <1>7
<1>13. /\ t \in Map /\ t.calls = Q /\ t.records = s.records /\ t.refs = w.refs /\ t.empty = s.empty
       /\ t.value = s.value /\ t.state = s.state /\ t.cur = s.cur /\ t.live = s.live /\ t.fault = w.fault
       /\ w.empty = s.empty
    BY <1>9, <1>10, <1>11, <1>12 DEF Map, Same
<1>14. Locks(t) = [Locks(s) EXCEPT ![r] = @ + 1]
  <2>1. Rests(s, t) /\ t.calls = Append(s.calls, c)
      BY <1>5, <1>13 DEF Rests
  <2>2. Locks(t) = [Locks(s) EXCEPT ![c.record] = @ + 1]
      BY <1>1, <1>2, <1>4, <1>13, <2>1, LocksEnter
  <2> QED BY <1>4, <2>2
<1>15. Balanced(t, Locks(t))
    BY <1>9, <1>11, <1>13, <1>14 DEF Balanced, Counts
<1>16. \A j : There(t, j) <=> There(s, j)
    BY <1>13 DEF There
<1>17. Sound(t)
  <2>1. \A q \in Records : t.value[q] # None => q \in t.records /\ ~t.empty[q] /\ There(t, t.value[q])
      BY <1>1, <1>13, <1>16 DEF Sound
  <2>2. ASSUME NEW d \in DOMAIN Q, Q[d].value # None
        PROVE  There(t, Q[d].value)
    <3>1. CASE Q[d] = c
        BY <1>1, <1>4, <1>16, <2>2, <3>1 DEF Sound
    <3>2. CASE d \in DOMAIN s.calls /\ Q[d] = s.calls[d]
        BY <1>1, <1>16, <2>2, <3>2 DEF Sound
    <3> QED BY <1>7, <3>1, <3>2
  <2>3. \A j \in Iters : t.state[j] = "unused" => t.cur[j] = None
      BY <1>1, <1>13 DEF Sound
  <2> QED BY <1>13, <2>1, <2>2, <2>3 DEF Sound
<1> QED BY <1>1, <1>13, <1>15, <1>17 DEF Whole, Entered

\* ForEach keeps the invariant.
LEMMA ForEachKeeps ==
    ASSUME MapInv, ForEach
    PROVE  MapInv'
<1>1. /\ ~map.fault /\ clearing = None /\ mapHeld = TRUE /\ map.live /\ Whole(map)
      /\ MapTyped(map, next, key, table, held, mapHeld, clearing)
      /\ held \in SUBSET Iters /\ (\A i \in held : There(map, i)) /\ map.records \in SUBSET Records
    BY UsableMap, MapFields DEF ForEach, MapTyped
<1>2. PICK rest : rest = Valid(map, 0)
    OBVIOUS
<1>3. PICK r : r = First(rest)
    OBVIOUS
<1>4. r \in map.records
  <2>1. rest \in SUBSET Records /\ \A q \in rest : q \in map.records
      BY <1>1, <1>2 DEF Valid
  <2>2. rest # {}
      BY <1>2 DEF ForEach
  <2>3. r \in rest
      BY <1>3, <2>1, <2>2, FirstIs
  <2> QED BY <2>1, <2>3
<1>5. Enters(map, r, map')
  <2>1. map' = [Locked(map, r) EXCEPT !.calls = Append(@, Call(map, r))]
      BY <1>2, <1>3 DEF ForEach
  <2> QED BY <2>1 DEF Enters
<1>6. PICK t : t = map'
    OBVIOUS
<1>7. Whole(t) /\ Entered(map, t)
    BY <1>1, <1>4, <1>5, <1>6, EnterKeeps
<1>8. Fewer(map, t) /\ t.empty = map.empty /\ \A i \in held : There(t, i)
    BY <1>1, <1>7 DEF Entered, Fewer, There
<1>9. MapState(t, next, key, table, held, mapHeld, clearing)
    BY <1>1, <1>7, <1>8, Stays
<1>10. MapState(map', next', key', table', held', mapHeld', clearing')
    BY <1>6, <1>9 DEF ForEach
<1> QED BY <1>10, Preserved

-----------------------------------------------------------------------------
\* The argument of the last call is freed: the value of the call is nothing.
Quiet(s, n) ==
    /\ n.records = s.records /\ n.empty = s.empty /\ n.value = s.value /\ n.refs = s.refs
    /\ n.state = s.state /\ n.cur = s.cur
    /\ DOMAIN n.calls = DOMAIN s.calls /\ Len(n.calls) = Len(s.calls) /\ n.calls # <<>>
    /\ \A c \in DOMAIN s.calls : n.calls[c].record = s.calls[c].record
    /\ \A c \in 1..(Len(s.calls) - 1) : n.calls[c] = s.calls[c]

\* The argument of the last call may go.
LEMMA NoArgumentKeeps ==
    ASSUME NEW s, Whole(s), s.calls # <<>>, NEW n, n = [s EXCEPT !.calls[Len(s.calls)].value = None]
    PROVE  Whole(n) /\ Quiet(s, n)
<1>1. /\ s \in Map /\ Balanced(s, Locks(s)) /\ Sound(s) /\ s.live /\ ~s.fault
    BY DEF Whole, Balanced
<1>2. PICK T : T = [record : Records, value : Values \cup {None}]
    OBVIOUS
<1>3. PICK m : m = Len(s.calls)
    OBVIOUS
<1>4. s.calls \in Seq(T)
    BY <1>1, <1>2, MapFields
<1>5. m \in Nat /\ m # 0 /\ m \in 1..m /\ DOMAIN s.calls = 1..m
    BY <1>3, <1>4
<1>6. s.calls[m] \in T
    BY <1>4, <1>5
<1>7. PICK c : c = [record |-> s.calls[m].record, value |-> None]
    OBVIOUS
<1>8. c \in T /\ c.record = s.calls[m].record /\ c.value = None /\ c = [s.calls[m] EXCEPT !.value = None]
    BY <1>2, <1>6, <1>7
<1>9. PICK Q : Q = [s.calls EXCEPT ![m] = c]
    OBVIOUS
<1>10. /\ Q \in Seq(T) /\ Len(Q) = m /\ DOMAIN Q = 1..m /\ Q[m] = c
       /\ \A d \in 1..m : d # m => Q[d] = s.calls[d]
    BY <1>3, <1>4, <1>5, <1>8, <1>9
<1>11. n = [s EXCEPT !.calls = Q]
    BY <1>3, <1>8, <1>9
<1>12. Q \in Seq([record : Records, value : Values \cup {None}])
    BY <1>2, <1>10
<1>13. /\ n \in Map /\ n.calls = Q /\ n.records = s.records /\ n.refs = s.refs /\ n.empty = s.empty
       /\ n.value = s.value /\ n.state = s.state /\ n.cur = s.cur /\ n.live = s.live /\ n.fault = s.fault
    BY <1>1, <1>11, <1>12 DEF Map
<1>14. \A d \in 1..m : Q[d].record = s.calls[d].record
    BY <1>8, <1>10
<1>15. Locks(n) = Locks(s)
  <2>1. \A r \in Records : Standing(n, r) = Standing(s, r)
      BY <1>13 DEF Standing
  <2>2. \A r \in Records : Calling(n, r) = Calling(s, r)
      BY <1>5, <1>10, <1>13, <1>14 DEF Calling
  <2> QED BY <2>1, <2>2 DEF Locks
<1>16. Balanced(n, Locks(n))
    BY <1>1, <1>13, <1>15 DEF Balanced, Counts
<1>17. Sound(n)
  <2>1. \A j : There(n, j) <=> There(s, j)
      BY <1>13 DEF There
  <2>2. ASSUME NEW d \in 1..m, Q[d].value # None
        PROVE  There(s, Q[d].value)
    <3>1. d # m
        BY <1>8, <1>10, <2>2
    <3> QED BY <1>1, <1>5, <1>10, <2>2, <3>1 DEF Sound
  <2>3. \A r \in Records : n.value[r] # None =>
            r \in n.records /\ ~n.empty[r] /\ There(n, n.value[r])
      BY <1>1, <1>13, <2>1 DEF Sound
  <2>4. \A d \in DOMAIN n.calls : n.calls[d].value # None => There(n, n.calls[d].value)
      BY <1>10, <1>13, <2>1, <2>2
  <2>5. \A j \in Iters : n.state[j] = "unused" => n.cur[j] = None
      BY <1>1, <1>13 DEF Sound
  <2> QED BY <2>3, <2>4, <2>5 DEF Sound
<1>18. Quiet(s, n)
  <2>1. Q # <<>> /\ \A d \in 1..(m - 1) : d \in 1..m /\ d # m
      BY <1>5, <1>10
  <2> QED BY <1>3, <1>5, <1>10, <1>13, <1>14, <2>1 DEF Quiet
<1> QED BY <1>1, <1>13, <1>16, <1>17, <1>18 DEF Whole

\* The last call gives its record up: d is the state then, t the one in which
\* the calls below it are left.
GivesCallUp(s, r, B, d, t) ==
    /\ r = s.calls[Len(s.calls)].record /\ d = Decref(s, r) /\ t = [d EXCEPT !.calls = B]
    /\ B \in Seq([record : Records, value : Values \cup {None}])
    /\ DOMAIN B = 1..(Len(s.calls) - 1)
    /\ \A c \in 1..(Len(s.calls) - 1) : B[c] = s.calls[c]

\* d is the state without the reference, t the one without the call.
CallLeft(s, B, d, t) ==
    /\ d \in Map /\ Same(s, d) /\ Fewer(s, t)
    /\ t.records = d.records /\ t.refs = d.refs /\ t.empty = s.empty
    /\ t.value = s.value /\ t.state = s.state /\ t.cur = s.cur /\ t.calls = B

\* A call may give its record up.
LEMMA LeaveCall ==
    ASSUME NEW s, Whole(s), s.calls # <<>>, NEW r, NEW B, NEW d, NEW t, GivesCallUp(s, r, B, d, t)
    PROVE  Whole(t) /\ CallLeft(s, B, d, t)
<1>1. /\ s \in Map /\ Balanced(s, Locks(s)) /\ Sound(s) /\ s.live /\ ~s.fault
      /\ Len(s.calls) \in Nat /\ DOMAIN s.calls = 1..Len(s.calls)
    BY MapFields DEF Whole, Balanced
<1>2. PICK m : m = Len(s.calls)
    OBVIOUS
<1>3. m \in 1..m /\ m \in DOMAIN s.calls
  <2>1. s.calls \in Seq([record : Records, value : Values \cup {None}])
      BY <1>1, MapFields
  <2>2. m # 0
      BY <1>2, <2>1
  <2> QED BY <1>1, <1>2, <2>2
<1>4. r \in Records /\ r = s.calls[m].record
    BY <1>1, <1>2, <1>3, CallValues DEF GivesCallUp
<1>5. Locks(s)[r] > 0
  <2>1. m \in Calling(s, r)
      BY <1>3, <1>4 DEF Calling
  <2> QED BY <1>1, <1>4, <2>1, LockedRecord
<1>6. PICK g : g = [Locks(s) EXCEPT ![r] = @ - 1]
    OBVIOUS
<1>7. Balanced(d, g) /\ Same(s, d) /\ Fewer(s, d)
    BY <1>1, <1>4, <1>5, <1>6, DecrefKeeps DEF GivesCallUp
<1>8. d \in Map /\ ~d.fault
    BY <1>7 DEF Balanced
<1>9. B \in Seq([record : Records, value : Values \cup {None}]) /\ t = [d EXCEPT !.calls = B]
    BY DEF GivesCallUp
<1>10. /\ t \in Map /\ t.calls = B /\ t.records = d.records /\ t.refs = d.refs /\ t.empty = s.empty
       /\ t.value = s.value /\ t.state = s.state /\ t.cur = s.cur /\ t.live = s.live /\ t.fault = d.fault
    BY <1>7, <1>8, <1>9 DEF Map, Same
<1>11. Locks(t) = g
  <2>1. Rests(s, t) /\ Returns(s, t)
      BY <1>10 DEF Rests, Returns, GivesCallUp
  <2> QED BY <1>1, <1>2, <1>4, <1>6, <1>10, <2>1, LocksLeave
<1>12. Balanced(t, Locks(t))
    BY <1>7, <1>8, <1>10, <1>11 DEF Balanced, Counts, Same
<1>13. Fewer(s, t)
    BY <1>7, <1>10 DEF Fewer
<1>14. Sound(t)
  <2>1. \A j : There(t, j) <=> There(s, j)
      BY <1>10 DEF There
  <2>2. \A q \in Records : s.value[q] # None => q \in t.records /\ ~s.empty[q] /\ There(s, s.value[q])
      BY <1>1, <1>13 DEF Sound, Fewer
  <2>3. ASSUME NEW c \in DOMAIN B, B[c].value # None
        PROVE  There(s, B[c].value)
    <3>1. B[c] = s.calls[c] /\ c \in DOMAIN s.calls
        BY <1>1, <2>3 DEF GivesCallUp
    <3> QED BY <1>1, <2>3, <3>1 DEF Sound
  <2>4. \A j \in Iters : t.state[j] = "unused" => t.cur[j] = None
      BY <1>1, <1>10 DEF Sound
  <2> QED BY <1>10, <2>1, <2>2, <2>3, <2>4 DEF Sound
<1> QED BY <1>1, <1>7, <1>8, <1>10, <1>12, <1>13, <1>14 DEF Whole, CallLeft

\* The state that a call leaves, with v, d and w as below.
CallOver(v, d, w) ==
    /\ clearing = None /\ ~map.fault /\ map.live /\ mapHeld
    /\ v \in Map /\ v.records \subseteq map.records /\ d.records \subseteq v.records
    /\ Whole(w) /\ Fewer(map, w) /\ w.empty = map.empty /\ w.cur = map.cur /\ SameEnds(map, w)
    /\ d \in Map /\ d.records = w.records /\ d.refs = w.refs /\ d.empty = w.empty
    /\ d.value = w.value /\ d.cur = w.cur /\ d.state = w.state
    /\ held \in SUBSET Iters /\ \A i \in held : There(w, i)

\* The function returns or throws: v is the state in which its argument is
\* freed, d the one in which its record is given up, w the one in which the
\* calls below it are left.
LEMMA CallEnds ==
    ASSUME MapInv, Running, map.calls # <<>>,
           NEW v, v = FreeValue([map EXCEPT !.calls[Len(map.calls)].value = None], Top.value),
           NEW d, d = Decref(v, Top.record), NEW w, w = [d EXCEPT !.calls = Below]
    PROVE  CallOver(v, d, w)
<1>1. /\ ~map.fault /\ clearing = None /\ mapHeld /\ map.live /\ Whole(map) /\ map \in Map
      /\ held \in SUBSET Iters /\ (\A i \in held : There(map, i)) /\ Sound(map)
    BY RunningMap DEF Running, Fine, MapTyped
<1>2. PICK n : n = [map EXCEPT !.calls[Len(map.calls)].value = None]
    OBVIOUS
<1>3. Whole(n) /\ Quiet(map, n)
    BY <1>1, <1>2, NoArgumentKeeps
<1>4. PICK m : m = Len(map.calls)
    OBVIOUS
<1>5. PICK T : T = [record : Records, value : Values \cup {None}]
    OBVIOUS
<1>6. map.calls \in Seq(T)
    BY <1>1, <1>5, MapFields
<1>7. m \in Nat /\ m # 0 /\ m \in 1..m /\ m \in DOMAIN map.calls
    BY <1>4, <1>6
<1>8. PICK a : a = Top.value
    OBVIOUS
<1>9. PICK r : r = Top.record
    OBVIOUS
<1>10. a = map.calls[m].value /\ r = map.calls[m].record
    BY <1>4, <1>8, <1>9 DEF Top
<1>11. a \in Values \cup {None} /\ (a # None => There(n, a))
  <2>1. map.calls[m] \in T
      BY <1>6, <1>7
  <2>2. a \in Values \cup {None}
      BY <1>5, <1>10, <2>1
  <2>3. a # None => There(map, a)
      BY <1>1, <1>7, <1>10 DEF Sound
  <2> QED BY <1>3, <2>2, <2>3 DEF Quiet, There
<1>12. v = FreeValue(n, a)
    BY <1>2, <1>8
<1>13. Whole(v) /\ Releases(n, v)
    BY <1>1, <1>3, <1>11, <1>12, FreeValueKeeps
<1>14. PICK B : B = Below
    OBVIOUS
<1>15. B \in Seq(T) /\ DOMAIN B = 1..(m - 1) /\ \A c \in 1..(m - 1) : B[c] = map.calls[c]
  <2>1. B = SubSeq(map.calls, 1, m - 1)
      BY <1>4, <1>14 DEF Below
  <2> QED BY <1>4, <1>6, <1>7, <2>1
<1>16. v.calls = n.calls /\ v.calls # <<>> /\ Len(v.calls) = m /\ v.calls[m].record = r
       /\ \A c \in 1..(m - 1) : v.calls[c] = map.calls[c]
    BY <1>3, <1>4, <1>7, <1>10, <1>13 DEF Releases, Quiet
<1>17. GivesCallUp(v, r, B, d, w)
  <2>1. d = Decref(v, r) /\ w = [d EXCEPT !.calls = B]
      BY <1>9, <1>14
  <2> QED BY <1>5, <1>15, <1>16, <2>1 DEF GivesCallUp
<1>18. Whole(w) /\ CallLeft(v, B, d, w)
    BY <1>13, <1>16, <1>17, LeaveCall
<1>19. /\ d \in Map /\ d.records = w.records /\ d.refs = w.refs /\ d.empty = w.empty
       /\ d.value = w.value /\ d.cur = w.cur /\ d.state = w.state /\ d.records \subseteq v.records
    BY <1>18 DEF CallLeft, Same, Fewer
<1>20. Fewer(map, w) /\ w.empty = map.empty /\ w.cur = map.cur /\ SameEnds(map, w)
  <2>1. Fewer(map, w) /\ w.empty = map.empty
      BY <1>3, <1>13, <1>18 DEF CallLeft, Releases, Quiet, Fewer
  <2>2. w.cur = map.cur /\ w.state = v.state /\ n.state = map.state
      BY <1>3, <1>13, <1>18 DEF CallLeft, Releases, Quiet
  <2>3. SameEnds(n, v)
      BY <1>13 DEF Releases
  <2>4. SameEnds(map, w)
      BY <2>2, <2>3 DEF SameEnds
  <2> QED BY <2>1, <2>2, <2>4
<1>21. \A i \in held : There(w, i)
  <2>1. w.state = v.state /\ n.state = map.state
      BY <1>3, <1>18 DEF CallLeft, Quiet
  <2>2. \A i \in held \cap Iters : v.state[i] = n.state[i]
      BY <1>13 DEF Releases
  <2>3. \A i \in held : w.state[i] = map.state[i]
      BY <1>1, <2>1, <2>2
  <2> QED BY <1>1, <2>3 DEF There
<1>22. v \in Map /\ v.records \subseteq map.records
    BY <1>3, <1>13 DEF Whole, Balanced, Releases, Quiet, Fewer
<1> QED BY <1>1, <1>18, <1>19, <1>20, <1>21, <1>22 DEF CallOver

\* Throw keeps the invariant.
LEMMA ThrowKeeps ==
    ASSUME MapInv, Throw
    PROVE  MapInv'
<1>1. Running /\ map.calls # <<>>
    BY DEF Throw
<1>2. PICK v : v = FreeValue([map EXCEPT !.calls[Len(map.calls)].value = None], Top.value)
    OBVIOUS
<1>3. PICK d : d = Decref(v, Top.record)
    OBVIOUS
<1>4. PICK w : w = [d EXCEPT !.calls = Below]
    OBVIOUS
<1>5. /\ clearing = None /\ ~map.fault /\ map.live /\ mapHeld
      /\ Whole(w) /\ Fewer(map, w) /\ w.empty = map.empty
      /\ held \in SUBSET Iters /\ \A i \in held : There(w, i)
  <2>1. CallOver(v, d, w)
      BY <1>1, <1>2, <1>3, <1>4, CallEnds
  <2> QED BY <2>1 DEF CallOver
<1>6. map' = w
    BY <1>2, <1>3, <1>4 DEF Throw, Unlock
<1>7. MapState(w, next, key, table, held, mapHeld, clearing)
    BY <1>5, Stays
<1>8. MapState(map', next', key', table', held', mapHeld', clearing')
    BY <1>6, <1>7 DEF Throw
<1> QED BY <1>8, Preserved

\* Return keeps the invariant: the call goes on with the next record, or ends.
LEMMA ReturnKeeps ==
    ASSUME MapInv, Return
    PROVE  MapInv'
<1>1. Running /\ map.calls # <<>>
    BY DEF Return
<1>2. PICK v : v = FreeValue([map EXCEPT !.calls[Len(map.calls)].value = None], Top.value)
    OBVIOUS
<1>3. PICK d : d = Decref(v, Top.record)
    OBVIOUS
<1>4. PICK w : w = [d EXCEPT !.calls = Below]
    OBVIOUS
<1>5. /\ clearing = None /\ ~map.fault /\ map.live /\ mapHeld
      /\ Whole(w) /\ Fewer(map, w) /\ w.empty = map.empty /\ d \in Map
      /\ d.records = w.records /\ d.refs = w.refs /\ d.empty = w.empty /\ d.value = w.value
      /\ held \in SUBSET Iters /\ \A i \in held : There(w, i)
  <2>1. CallOver(v, d, w)
      BY <1>1, <1>2, <1>3, <1>4, CallEnds
  <2> QED BY <2>1 DEF CallOver
<1>6. PICK el : el = NextElement(v, Top.record)
    OBVIOUS
<1>7. PICK rest : rest = Valid(d, el)
    OBVIOUS
<1>8. PICK r : r = First(rest)
    OBVIOUS
<1>9. map' = [(IF rest = {} THEN d ELSE Locked(d, r)) EXCEPT
                 !.calls = IF rest = {} THEN Below ELSE Append(Below, Call(d, r))]
    BY <1>2, <1>3, <1>6, <1>7, <1>8 DEF Return, Unlock
<1>10. PICK t : t = map'
    OBVIOUS
<1>11. Whole(t) /\ Fewer(map, t) /\ t.empty = map.empty /\ \A i \in held : There(t, i)
  <2>1. CASE rest = {}
    <3>1. t = w
        BY <1>4, <1>9, <1>10, <2>1
    <3> QED BY <1>5, <3>1
  <2>2. CASE rest # {}
    <3>1. r \in w.records
      <4>1. rest \in SUBSET Records /\ \A q \in rest : q \in d.records
          BY <1>5, <1>7, MapFields DEF Valid
      <4>2. r \in rest
          BY <1>8, <2>2, <4>1, FirstIs
      <4> QED BY <1>5, <4>1, <4>2
    <3>2. PICK B : B = Below
        OBVIOUS
    <3>3. PICK Q : Q = Append(B, Call(d, r))
        OBVIOUS
    <3>4. PICK f : f = [d.refs EXCEPT ![r] = @ + 1]
        OBVIOUS
    <3>5. t = [d EXCEPT !.refs = f, !.calls = Q]
      <4>1. PICK e : e = Locked(d, r)
          OBVIOUS
      <4>2. e = [d EXCEPT !.refs = f]
          BY <3>4, <4>1 DEF Locked
      <4>3. t = [e EXCEPT !.calls = Q]
          BY <1>9, <1>10, <2>2, <3>2, <3>3, <4>1
      <4> QED BY <4>2, <4>3
    <3>6. w = [d EXCEPT !.calls = B]
        BY <1>4, <3>2
    <3>7. w.calls = B /\ w.refs = d.refs /\ Call(w, r) = Call(d, r)
        BY <1>5, <3>6 DEF Map, Call
    <3>8. PICK x : x = Locked(w, r)
        OBVIOUS
    <3>9. x = [w EXCEPT !.refs = f] /\ x.calls = B
      <4>1. x = [w EXCEPT !.refs = f]
          BY <3>4, <3>7, <3>8 DEF Locked
      <4>2. w \in Map
          BY <1>5 DEF Whole, Balanced
      <4> QED BY <3>7, <4>1, <4>2 DEF Map
    <3>10. PICK y : y = [x EXCEPT !.calls = Q]
        OBVIOUS
    <3>11. y = t
        BY <1>5, <3>5, <3>6, <3>9, <3>10 DEF Map
    <3>12. Enters(w, r, t)
        BY <3>3, <3>7, <3>8, <3>9, <3>10, <3>11 DEF Enters
    <3>13. Whole(t) /\ Entered(w, t)
        BY <1>5, <3>1, <3>12, EnterKeeps
    <3>14. Fewer(map, t) /\ t.empty = map.empty
        BY <1>5, <3>13 DEF Entered, Fewer
    <3>15. \A i \in held : There(t, i)
        BY <1>5, <3>13 DEF Entered, There
    <3> QED BY <3>13, <3>14, <3>15
  <2> QED BY <2>1, <2>2
<1>12. MapState(t, next, key, table, held, mapHeld, clearing)
    BY <1>5, <1>11, Stays
<1>13. MapState(map', next', key', table', held', mapHeld', clearing')
    BY <1>10, <1>12 DEF Return
<1> QED BY <1>13, Preserved

-----------------------------------------------------------------------------
(***************************************************************************)
(* MapIterators: the theorem                                               *)
(***************************************************************************)

\* Each step keeps the invariant.
LEMMA MapStep ==
    ASSUME MapInv, [MapNext]_mapvars
    PROVE  MapInv'
<1>1. ASSUME NEW k \in Keys, Delete(k)
      PROVE  MapInv'
    BY <1>1, DeleteKeeps
<1>2. ASSUME NEW k \in Keys, NEW v \in Values \cup {None}, SetValue(k, v)
      PROVE  MapInv'
    BY <1>2, SetValueKeeps
<1>3. ASSUME NEW k \in Keys, NEW v \in Values \cup {None}, AddRecord(k, v)
      PROVE  MapInv'
    BY <1>3, AddRecordKeeps
<1>4. CASE ClearStart \/ ClearStep \/ ClearDone
    BY <1>4, ClearStartKeeps, ClearStepKeeps, ClearDoneKeeps
<1>5. ASSUME NEW i \in Iters, NewIterator(i)
      PROVE  MapInv'
    BY <1>5, NewIteratorKeeps
<1>6. ASSUME NEW i \in Iters, IteratorNext(i)
      PROVE  MapInv'
    BY <1>6, IteratorNextKeeps
<1>7. ASSUME NEW i \in Iters, DropIterator(i)
      PROVE  MapInv'
    BY <1>7, DropIteratorKeeps
<1>8. CASE ForEach \/ Return \/ Throw \/ DropMap
    BY <1>8, ForEachKeeps, ReturnKeeps, ThrowKeeps, DropMapKeeps
<1>9. ASSUME NEW first \in SUBSET Iters, Collect(first)
      PROVE  MapInv'
    BY <1>9, CollectKeeps
<1>10. CASE UNCHANGED mapvars
    BY <1>10 DEF mapvars, MapInv
<1> QED BY <1>1, <1>2, <1>3, <1>4, <1>5, <1>6, <1>7, <1>8, <1>9, <1>10 DEF MapNext

\* The lists of records are in the state that the invariant describes.
LEMMA MapInvHolds == MapSpec => []MapInv
<1>1. MapInit => MapInv
    BY InitHolds
<1>2. MapInv /\ [MapNext]_mapvars => MapInv'
    BY MapStep
<1> QED BY <1>1, <1>2, PTL DEF MapSpec

\* The invariant is what RecordsExact asks for.
LEMMA MapInvSays ==
    ASSUME MapInv
    PROVE  RecordsExact
<1>1. MapTyped(map, next, key, table, held, mapHeld, clearing) /\ map \in Map
    BY DEF MapInv, MapState, MapTyped
<1>2. ASSUME map.live, ~map.fault
      PROVE  /\ \A i \in Iters : map.state[i] = "live" /\ map.cur[i] # None => map.cur[i] \in map.records
             /\ \A r \in map.records :
                   /\ map.refs[r] = (IF map.empty[r] THEN 0 ELSE 1)
                          + Cardinality({i \in Iters : map.state[i] = "live" /\ map.cur[i] = r})
                          + Cardinality({c \in DOMAIN map.calls : map.calls[c].record = r})
                   /\ map.refs[r] > 0
  <2>1. /\ Counts(map, Locks(map)) /\ map.records \in SUBSET Records
        /\ map.cur \in [Iters -> Records \cup {None}] /\ map.refs \in [Records -> Nat]
      BY <1>1, <1>2, RunningMap, MapFields DEF Whole, Balanced
  <2>2. ASSUME NEW i \in Iters, map.state[i] = "live", map.cur[i] # None
        PROVE  map.cur[i] \in map.records
    <3>1. PICK r : r = map.cur[i]
        OBVIOUS
    <3>2. r \in Records /\ i \in Standing(map, r)
        BY <2>1, <2>2, <3>1 DEF Standing
    <3>3. Locks(map)[r] > 0
        BY <1>1, <3>2, LockedRecord
    <3> QED BY <2>1, <3>1, <3>2, <3>3 DEF Counts
  <2>3. ASSUME NEW r \in map.records
        PROVE  /\ map.refs[r] = (IF map.empty[r] THEN 0 ELSE 1)
                      + Cardinality({i \in Iters : map.state[i] = "live" /\ map.cur[i] = r})
                      + Cardinality({c \in DOMAIN map.calls : map.calls[c].record = r})
               /\ map.refs[r] > 0
    <3>1. r \in Records
        BY <2>1
    <3>2. PICK a : a = Cardinality(Standing(map, r))
        OBVIOUS
    <3>3. PICK b : b = Cardinality(Calling(map, r))
        OBVIOUS
    <3>4. a \in Nat /\ b \in Nat
        BY <1>1, <3>2, <3>3, LockSets
    <3>5. Locks(map)[r] = a + b
        BY <3>1, <3>2, <3>3 DEF Locks
    <3>6. map.refs[r] > 0 /\ map.refs[r] = (a + b) + (IF map.empty[r] THEN 0 ELSE 1)
        BY <2>1, <2>3, <3>1, <3>5 DEF Counts
    <3>7. map.refs[r] = (IF map.empty[r] THEN 0 ELSE 1) + a + b
        BY <3>4, <3>6
    <3>8. /\ a = Cardinality({i \in Iters : map.state[i] = "live" /\ map.cur[i] = r})
          /\ b = Cardinality({c \in DOMAIN map.calls : map.calls[c].record = r})
        BY <3>2, <3>3 DEF Standing, Calling
    <3> QED BY <3>6, <3>7, <3>8
  <2> QED BY <2>2, <2>3
<1>3. ASSUME clearing = None, ~map.fault
      PROVE  Hashed(map, key, table)
    BY <1>3, RunningMap DEF Fine
<1>4. map.fault => clearing \in Records /\ \E i \in Values : map.state[i] = "dead"
    BY DEF MapInv, MapState
<1> QED BY <1>2, <1>3, <1>4 DEF RecordsExact, Hashed

\* MapTypeOK, whatever the keys, iterators and values: the records of a Map or Set
\* are numbered as they are made, iterators that the script holds are not freed,
\* and no reference count of a record goes below zero.
THEOREM MapTypes == MapSpec => []MapTypeOK
<1>1. MapInv => MapTypeOK
    BY DEF MapInv, MapState, MapTyped, MapTypeOK, There
<1> QED BY <1>1, MapInvHolds, PTL

\* RecordsExact, whatever the keys, iterators and values, and however many
\* records and calls: deleting records, moving iterators, ending calls and
\* the finalizers that run inside of them leave each record of a Map or Set
\* with the references that its users have, and none reads freed memory
\* beside the clear that frees an iterator of its own map.
THEOREM RecordsKept == MapSpec => []RecordsExact
BY MapInvHolds, MapInvSays, PTL

-----------------------------------------------------------------------------
(***************************************************************************)
(* MapIterators implements OrderedMap                                      *)
(***************************************************************************)

\* The entries that are not deleted.
Shown(s) == {r \in s.records : ~s.empty[r]}

\* Iterators and calls stand where they stood; entries may be deleted.
Hides(s, t) ==
    /\ t.cur = s.cur /\ t.calls = s.calls /\ SameEnds(s, t)
    /\ Shown(t) \subseteq Shown(s)

\* What the log has.
LEMMA LogIs ==
    ASSUME MapInv, ~map.fault
    PROVE  /\ next \in Nat \ {0} /\ DOMAIN Log = 1..(next - 1) /\ DOMAIN key = 1..(next - 1)
           /\ Shown(map) \subseteq 1..(next - 1) /\ Shown(map) \in SUBSET Records
           /\ \A r \in 1..(next - 1) : key[r] \in Keys /\ key[r] # None
           /\ \A r \in Shown(map) : Log[r] = key[r]
           /\ \A r \in 1..(next - 1) : r \notin Shown(map) => Log[r] = None
<1>1. /\ next \in 1..MaxRecords + 1 /\ key \in Seq(Keys) /\ Len(key) = next - 1
      /\ map.records \in SUBSET Records /\ \A r \in map.records : r < next
    BY RunningMap, MapFields DEF MapTyped, Fine, Made
<1>2. next \in Nat \ {0} /\ DOMAIN key = 1..(next - 1) /\ \A r \in 1..(next - 1) : key[r] \in Keys
    BY <1>1, RecordNumbers
<1>3. \A r \in 1..(next - 1) : key[r] # None
    BY <1>2, RecordNumbers
<1>4. map.records \subseteq 1..(next - 1)
  <2>1. \A r \in Records : r \in Nat \ {0}
      BY RecordNumbers
  <2>2. ASSUME NEW r \in map.records
        PROVE  r \in 1..(next - 1)
    <3>1. r \in Nat /\ r # 0 /\ r < next
        BY <1>1, <2>1
    <3> QED BY <1>2, <3>1
  <2> QED BY <2>2
<1>5. Shown(map) \subseteq map.records
    BY DEF Shown
<1>6. /\ \A r \in Shown(map) : Log[r] = key[r]
      /\ \A r \in 1..(next - 1) : r \notin Shown(map) => Log[r] = None
    BY <1>4, <1>5 DEF Log, Shown
<1>7. DOMAIN Log = 1..(next - 1)
    BY DEF Log
<1> QED BY <1>1, <1>2, <1>3, <1>4, <1>5, <1>6, <1>7

\* The entries ahead of a walk that stands on p.
LEMMA AheadIs ==
    ASSUME MapInv, ~map.fault, NEW p
    PROVE  Promised!Ahead(p) = {r \in Shown(map) : r > p}
BY LogIs DEF Promised!Ahead

\* The log does not change when the entries do not.
LEMMA LogStays ==
    ASSUME next' = next, key' = key, Shown(map') = Shown(map)
    PROVE  Log' = Log
<1>1. \A r : r \in map'.records /\ ~map'.empty[r] <=> r \in map.records /\ ~map.empty[r]
    BY DEF Shown
<1> QED BY <1>1 DEF Log

\* Iterators are where they were.
LEMMA PositionsStay ==
    ASSUME map'.cur = map.cur, SameEnds(map, map')
    PROVE  Positions' = Positions
BY DEF Positions, SameEnds

\* A step that walks do not see but for deleted entries.
LEMMA HiddenIsRemoved ==
    ASSUME MapInv, next' = next, key' = key, Hides(map, map')
    PROVE  Promised!Remove
<1>1. PICK S : S = {r \in DOMAIN Log : r \notin Shown(map')}
    OBVIOUS
<1>2. Shown(map') \subseteq Shown(map)
    BY DEF Hides
<1>3. Log' = [r \in 1..(next - 1) |-> IF r \in Shown(map') THEN key[r] ELSE None]
    BY DEF Log, Shown
<1>4. Log = [r \in 1..(next - 1) |-> IF r \in Shown(map) THEN key[r] ELSE None]
    BY DEF Log, Shown
<1>5. Log' = [r \in DOMAIN Log |-> IF r \in S THEN None ELSE Log[r]]
    BY <1>1, <1>2, <1>3, <1>4
<1>6. S \in SUBSET DOMAIN Log
    BY <1>1
<1>7. Positions' = Positions /\ Walks' = Walks
    BY PositionsStay DEF Hides, Walks
<1> QED BY <1>5, <1>6, <1>7 DEF Promised!Remove

-----------------------------------------------------------------------------
\* The value of a record is no part of a walk.
LEMMA SetValueHides ==
    ASSUME MapInv, NEW k \in Keys, NEW v \in Values \cup {None}, SetValue(k, v)
    PROVE  Hides(map, map')
<1>1. /\ mapHeld = TRUE /\ Whole(map) /\ Hashed(map, key, table)
      /\ MapTyped(map, next, key, table, held, mapHeld, clearing)
    BY UsableMap DEF SetValue
<1>2. PICK r \in Found(k) :
          map' = [FreeValue([map EXCEPT !.value[r] = None], map.value[r]) EXCEPT !.value[r] = v]
    BY DEF SetValue
<1>3. r \in table /\ r \in Records
    BY <1>1, <1>2 DEF Found, MapTyped
<1>4. PICK n : n = [map EXCEPT !.value[r] = None]
    OBVIOUS
<1>5. Whole(n) /\ HasPut(map, r, None, n)
    BY <1>1, <1>3, <1>4, NoValueKeeps
<1>6. PICK w : w = map.value[r]
    OBVIOUS
<1>7. w \in Values \cup {None} /\ (w # None => There(n, w))
  <2>1. map.value \in [Records -> Values \cup {None}] /\ Sound(map)
      BY <1>1, MapFields DEF MapTyped, Whole
  <2> QED BY <1>3, <1>5, <1>6, <2>1 DEF Sound, There, HasPut
<1>8. PICK u : u = FreeValue(n, w)
    OBVIOUS
<1>9. Whole(u) /\ Releases(n, u)
    BY <1>1, <1>5, <1>7, <1>8, FreeValueKeeps
<1>10. PICK V : V = [u.value EXCEPT ![r] = v]
    OBVIOUS
<1>11. map' = [u EXCEPT !.value = V]
    BY <1>2, <1>4, <1>6, <1>8, <1>10
<1>12. u \in Map
    BY <1>9 DEF Whole, Balanced
<1>13. /\ map'.records = u.records /\ map'.empty = u.empty /\ map'.state = u.state
       /\ map'.cur = u.cur /\ map'.calls = u.calls
    BY <1>11, <1>12 DEF Map
<1>14. Shown(map') \subseteq Shown(map)
    BY <1>5, <1>9, <1>13 DEF Releases, HasPut, Fewer, Shown
<1> QED BY <1>5, <1>9, <1>13, <1>14 DEF Releases, HasPut, SameEnds, Hides

\* The record that is deleted is hidden.
LEMMA RemovesHides ==
    ASSUME NEW s \in Map, NEW t, NEW r \in Records, Removes(s, t, r)
    PROVE  Hides(s, t)
<1>1. PICK e : e = [s EXCEPT !.empty[r] = TRUE]
    OBVIOUS
<1>2. e.records = s.records
    BY <1>1 DEF Map
<1>3. t.records \subseteq s.records
    BY <1>1, <1>2 DEF Removes, Fewer
<1>4. s.records \subseteq Records
    BY MapFields
<1>5. Shown(t) \subseteq Shown(s)
    BY <1>3, <1>4 DEF Removes, Shown
<1> QED BY <1>5 DEF Removes, Hides

\* Delete hides a record.
LEMMA DeleteHides ==
    ASSUME MapInv, NEW k \in Keys, Delete(k)
    PROVE  Hides(map, map')
<1>1. /\ mapHeld = TRUE /\ Whole(map) /\ Hashed(map, key, table) /\ map \in Map
      /\ MapTyped(map, next, key, table, held, mapHeld, clearing)
    BY UsableMap DEF Delete, MapTyped
<1>2. PICK r \in Found(k) : map' = DeleteInternal(map, r)
    BY DEF Delete
<1>3. r \in map.records /\ r \in Records
    BY <1>1, <1>2 DEF Found, Hashed, MapTyped
<1>4. Removes(map, map', r)
    BY <1>1, <1>2, <1>3, DeleteInternalKeeps
<1> QED BY <1>1, <1>3, <1>4, RemovesHides

\* A step of clear does, too.
LEMMA ClearStepHides ==
    ASSUME MapInv, ClearStep
    PROVE  Hides(map, map')
<1>1. clearing \in Records /\ ~map.fault /\ clearing # None
    BY RecordNumbers DEF ClearStep
<1>2. map \in Map /\ mapHeld /\ map.live /\ Whole(map)
    BY <1>1, RunningMap DEF Fine, Cleared
<1>3. CASE clearing \in map.records
  <2>1. map' = DeleteInternal(map, clearing)
      BY <1>3 DEF ClearStep
  <2>2. Removes(map, map', clearing)
      BY <1>2, <1>3, <2>1, DeleteInternalKeeps
  <2> QED BY <1>1, <1>2, <2>2, RemovesHides
<1>4. CASE clearing \notin map.records
  <2>1. map' = [map EXCEPT !.fault = TRUE]
      BY <1>4 DEF ClearStep
  <2>2. /\ map'.records = map.records /\ map'.empty = map.empty /\ map'.state = map.state
        /\ map'.cur = map.cur /\ map'.calls = map.calls
      BY <1>2, <2>1 DEF Map
  <2> QED BY <2>2 DEF Hides, SameEnds, Shown
<1> QED BY <1>3, <1>4

\* A new iterator is before the first record.
LEMMA NewIteratorHides ==
    ASSUME MapInv, NEW i \in Iters, NewIterator(i)
    PROVE  Hides(map, map')
<1>1. map \in Map /\ map.state \in [Iters -> {"unused", "live", "done", "dead"}]
    BY UsableMap, MapFields DEF NewIterator, MapTyped
<1>2. PICK f : f = [map.state EXCEPT ![i] = "live"]
    OBVIOUS
<1>3. f[i] = "live" /\ \A j \in Iters \ {i} : f[j] = map.state[j]
    BY <1>1, <1>2
<1>4. map' = [map EXCEPT !.state = f]
    BY <1>2 DEF NewIterator
<1>5. /\ map'.records = map.records /\ map'.empty = map.empty /\ map'.state = f
      /\ map'.cur = map.cur /\ map'.calls = map.calls
    BY <1>1, <1>4 DEF Map
<1>6. map.state[i] = "unused"
    BY DEF NewIterator
<1>7. SameEnds(map, map')
    BY <1>3, <1>5, <1>6 DEF SameEnds
<1> QED BY <1>5, <1>7 DEF Hides, Shown

\* A map that is freed has no entries.
LEMMA FreeMapHides ==
    ASSUME NEW s \in Map, ~s.fault
    PROVE  Hides(s, FreeMap(s)) /\ Shown(FreeMap(s)) = {}
<1>1. PICK t : t = FreeMap(s)
    OBVIOUS
<1>2. t.records = {} /\ t.state = s.state /\ t.cur = s.cur /\ t.calls = s.calls
    BY <1>1, FreeMapKeeps
<1> QED BY <1>1, <1>2 DEF Hides, SameEnds, Shown

\* A finalizer of an iterator frees the map, or hides nothing.
LEMMA DropIteratorHides ==
    ASSUME MapInv, NEW i \in Iters, DropIterator(i)
    PROVE  Hides(map, map')
<1>1. /\ ~map.fault /\ i \in held /\ map \in Map /\ map.live \in BOOLEAN
      /\ (map.live => Whole(map)) /\ There(map, i)
      /\ ~map.live => \A j \in Iters : map.state[j] # "live"
    BY RunningMap DEF DropIterator, Running, MapTyped
<1>2. CASE map' = map
    BY <1>2 DEF Hides, SameEnds
<1>3. CASE map' # map
  <2>1. ~(ValueRefs(map, i) > 0) /\ ValueRefs(map, i) \in Nat
      BY <1>1, <1>3, RefsNumber DEF DropIterator
  <2>2. ValueRefs(map, i) = 0
      BY <2>1
  <2>3. PICK t : t = Finalize(map, i)
      OBVIOUS
  <2>4. map.live
    <3>1. ASSUME ~map.live
          PROVE  FALSE
      <4>1. map.state[i] = "done"
          BY <1>1, <3>1 DEF There
      <4>2. t = map
          BY <2>3, <4>1 DEF Finalize
      <4>3. map' = map
          BY <2>1, <2>3, <3>1, <4>2 DEF DropIterator
      <4> QED BY <1>3, <4>3
    <3> QED BY <3>1
  <2>5. /\ Whole(t) /\ t.empty = map.empty /\ t.calls = map.calls /\ t.cur = map.cur
        /\ Fewer(map, t) /\ SameEnds(map, t)
      BY <1>1, <2>2, <2>3, <2>4, FinalizeKeeps
  <2>6. Hides(map, t)
      BY <2>5 DEF Hides, Fewer, Shown
  <2>7. map' = t \/ map' = FreeMap(t)
      BY <2>1, <2>3 DEF DropIterator
  <2>8. t \in Map /\ ~t.fault
      BY <2>5 DEF Whole, Balanced
  <2>9. Hides(t, FreeMap(t))
      BY <2>8, FreeMapHides
  <2> QED BY <2>6, <2>7, <2>9 DEF Hides, SameEnds
<1> QED BY <1>2, <1>3

\* The script drops the map.
LEMMA DropMapHides ==
    ASSUME MapInv, DropMap
    PROVE  Hides(map, map')
<1>1. map \in Map /\ ~map.fault
    BY UsableMap DEF DropMap, MapTyped
<1>2. map' = map \/ map' = FreeMap(map)
    BY DEF DropMap
<1>3. Hides(map, map)
    BY DEF Hides, SameEnds
<1> QED BY <1>1, <1>2, <1>3, FreeMapHides

\* The collector frees the map and its iterators, which stay where they are.
LEMMA CollectHides ==
    ASSUME MapInv, NEW first \in SUBSET Iters, Collect(first)
    PROVE  Hides(map, map')
<1>1. map \in Map /\ ~map.fault
    BY RunningMap DEF Collect, Running
<1>2. PICK lost : lost = {i \in Iters : map.state[i] = "live"}
    OBVIOUS
<1>3. PICK s : s = FreeMap(map)
    OBVIOUS
<1>4. s \in Map /\ s.state = map.state /\ Hides(map, s)
    BY <1>1, <1>3, FreeMapKeeps, FreeMapHides
<1>5. PICK f : f = [i \in Iters |-> IF i \in lost THEN "dead" ELSE s.state[i]]
    OBVIOUS
<1>6. PICK m : m = Misses(first)
    OBVIOUS
<1>7. map' = [s EXCEPT !.state = f, !.fault = m]
    BY <1>2, <1>3, <1>5, <1>6 DEF Collect
<1>8. /\ map'.records = s.records /\ map'.empty = s.empty /\ map'.state = f
      /\ map'.cur = s.cur /\ map'.calls = s.calls
    BY <1>4, <1>7 DEF Map
<1>9. \A i \in Iters : f[i] = "done" <=> s.state[i] = "done"
    BY <1>2, <1>4, <1>5
<1> QED BY <1>4, <1>8, <1>9 DEF Hides, SameEnds, Shown

-----------------------------------------------------------------------------
\* Nothing but empty records leaves the list.
LEMMA ShownStays ==
    ASSUME NEW s, NEW t, Fewer(s, t), t.empty = s.empty
    PROVE  Shown(t) = Shown(s)
BY DEF Fewer, Shown

\* A new record is an entry at the end of the log.
LEMMA AddRecordAdds ==
    ASSUME MapInv, NEW k \in Keys, NEW v \in Values \cup {None}, AddRecord(k, v)
    PROVE  Promised!Add(k)
<1>1. /\ ~map.fault /\ Hashed(map, key, table) /\ Made(map, next) /\ map \in Map
      /\ map.records \in SUBSET Records /\ key \in Seq(Keys) /\ Len(key) = next - 1
    BY UsableMap, MapFields DEF AddRecord, MapTyped
<1>2. /\ next \in Nat \ {0} /\ DOMAIN Log = 1..(next - 1) /\ Shown(map) \subseteq 1..(next - 1)
      /\ \A r \in 1..(next - 1) : key[r] \in Keys /\ key[r] # None
      /\ \A r \in Shown(map) : Log[r] = key[r]
      /\ \A r \in 1..(next - 1) : r \notin Shown(map) => Log[r] = None
    BY <1>1, LogIs
<1>3. \A r \in DOMAIN Log : Log[r] # k
  <2>1. table = Shown(map)
      BY <1>1 DEF Hashed, Shown
  <2>2. \A r \in Shown(map) : key[r] # k
      BY <2>1 DEF AddRecord, Found
  <2>3. None # k
      BY RecordNumbers
  <2> QED BY <1>2, <2>2, <2>3
<1>4. next \in Records /\ ~map.empty[next]
  <2>1. next \in Records
      BY <1>2, RecordNumbers DEF AddRecord, Records
  <2> QED BY <1>1, <1>2, <2>1 DEF Made
<1>5. PICK R : R = map.records \cup {next}
    OBVIOUS
<1>6. PICK f : f = [map.refs EXCEPT ![next] = 1]
    OBVIOUS
<1>7. PICK V : V = [map.value EXCEPT ![next] = v]
    OBVIOUS
<1>8. map' = [map EXCEPT !.records = R, !.refs = f, !.value = V]
    BY <1>5, <1>6, <1>7 DEF AddRecord
<1>9. /\ map'.records = R /\ map'.empty = map.empty /\ map'.state = map.state
      /\ map'.cur = map.cur /\ map'.calls = map.calls
    BY <1>1, <1>8 DEF Map
<1>10. Shown(map') = Shown(map) \cup {next}
    BY <1>4, <1>5, <1>9 DEF Shown
<1>11. next' = next + 1 /\ key' = Append(key, k)
    BY DEF AddRecord
<1>12. key'[next] = k /\ \A r \in 1..(next - 1) : key'[r] = key[r]
    BY <1>1, <1>2, <1>11
<1>13. Log' = [r \in 1..(next' - 1) |-> IF r \in Shown(map') THEN key'[r] ELSE None]
    BY DEF Log, Shown
<1>14. next' - 1 = next
    BY <1>2, <1>11
<1>15. DOMAIN Log' = 1..next
    BY <1>13, <1>14
<1>16. next \in 1..next /\ next \notin 1..(next - 1) /\ \A r \in 1..next : r # next => r \in 1..(next - 1)
    BY <1>2
<1>17. Log'[next] = k
    BY <1>10, <1>12, <1>13, <1>14, <1>16
<1>18. \A r \in 1..(next - 1) : Log'[r] = Log[r]
  <2>1. ASSUME NEW r \in 1..(next - 1)
        PROVE  Log'[r] = Log[r]
    <3>1. r \in 1..next /\ r # next
        BY <1>2
    <3>2. CASE r \in Shown(map)
        BY <1>2, <1>10, <1>12, <1>13, <1>14, <3>1, <3>2
    <3>3. CASE r \notin Shown(map)
        BY <1>2, <1>10, <1>12, <1>13, <1>14, <3>1, <3>3
    <3> QED BY <3>2, <3>3
  <2> QED BY <2>1
<1>19. Log' = Append(Log, k)
  <2>1. PICK T : T = Keys \cup {None}
      OBVIOUS
  <2>2. Log \in Seq(T) /\ Len(Log) = next - 1
    <3>1. \A r \in 1..(next - 1) : Log[r] \in T
        BY <1>2, <2>1
    <3>2. Log = [r \in 1..(next - 1) |-> Log[r]]
        BY DEF Log
    <3>3. next - 1 \in Nat
        BY <1>2
    <3> QED BY <3>1, <3>2, <3>3
  <2>3. PICK A : A = Append(Log, k)
      OBVIOUS
  <2>4. A \in Seq(T) /\ Len(A) = next /\ A[next] = k /\ \A r \in 1..(next - 1) : A[r] = Log[r]
      BY <1>2, <2>1, <2>2, <2>3
  <2>5. A = [r \in 1..next |-> A[r]]
      BY <2>4
  <2>6. \A r \in 1..next : A[r] = Log'[r]
      BY <1>16, <1>17, <1>18, <2>4
  <2>7. Log' = [r \in 1..next |-> Log'[r]]
      BY <1>13, <1>15
  <2> QED BY <2>3, <2>5, <2>6, <2>7
<1>20. Positions' = Positions /\ Walks' = Walks
    BY <1>9, PositionsStay DEF SameEnds, Walks
<1> QED BY <1>3, <1>19, <1>20 DEF Promised!Add

\* The element after r: what is not deleted from there on is what is after r.
LEMMA NextIs ==
    ASSUME NEW s \in Map, NEW d, d.records \subseteq s.records, NEW r \in Records
    PROVE  Valid(d, NextElement(s, r)) = {q \in Shown(d) : q > r}
<1>1. PICK rest : rest = After(s.records, r)
    OBVIOUS
<1>2. PICK el : el = NextElement(s, r)
    OBVIOUS
<1>3. el = IF rest = {} THEN MaxRecords + 1 ELSE First(rest)
    BY <1>1, <1>2 DEF NextElement
<1>4. s.records \in SUBSET Records /\ MaxRecords \in Nat /\ \A q \in Records : q \in Nat /\ q <= MaxRecords
    BY MapFields, RecordNumbers DEF Records
<1>5. \A q \in s.records : q \in rest <=> q > r
    BY <1>1 DEF After
<1>6. \A q \in d.records : q >= el <=> q > r
  <2>1. CASE rest = {}
      BY <1>3, <1>4, <1>5, <2>1
  <2>2. CASE rest # {}
    <3>1. rest \in SUBSET Records
        BY <1>1, <1>4 DEF After
    <3>2. el \in rest /\ \A q \in rest : el <= q
        BY <1>3, <2>2, <3>1, FirstIs
    <3>3. el \in Nat /\ el > r /\ r \in Nat
        BY <1>1, <1>4, <3>1, <3>2 DEF After
    <3>4. ASSUME NEW q \in d.records
          PROVE  q >= el <=> q > r
      <4>1. q \in s.records /\ q \in Nat
          BY <1>4
      <4>2. q \in rest <=> q > r
          BY <1>5, <4>1
      <4>3. q \in rest => el <= q
          BY <3>2
      <4> QED BY <3>3, <4>1, <4>2, <4>3
    <3> QED BY <3>4
  <2> QED BY <2>1, <2>2
<1> QED BY <1>2, <1>6 DEF Valid, Shown

\* The first of the entries ahead is the next.
LEMMA FirstIsNext ==
    ASSUME MapInv, ~map.fault, NEW p, NEW rest, rest = {q \in Shown(map) : q > p}, rest # {}
    PROVE  /\ First(rest) \in Shown(map) /\ First(rest) \in Records
           /\ First(rest) \in Promised!Ahead(p) /\ Promised!IsNext(First(rest), p)
<1>1. rest \in SUBSET Records /\ rest = Promised!Ahead(p)
    BY LogIs, AheadIs
<1>2. First(rest) \in rest /\ \A q \in rest : First(rest) <= q
    BY <1>1, FirstIs
<1> QED BY <1>1, <1>2 DEF Promised!IsNext

\* An iterator goes to the next entry, or comes to its end.
LEMMA IteratorNextSteps ==
    ASSUME MapInv, NEW i \in Iters, IteratorNext(i)
    PROVE  Promised!Step(i)
<1>1. /\ ~map.fault /\ map.state[i] = "live" /\ map \in Map /\ map.live /\ Whole(map)
      /\ next' = next /\ key' = key
    BY RunningMap DEF IteratorNext, Running
<1>2. PICK c : c = map.cur[i]
    OBVIOUS
<1>3. c \in Records \cup {None}
    BY <1>1, <1>2, MapFields
<1>4. PICK p : p = IF c = None THEN 0 ELSE c
    OBVIOUS
<1>5. Positions[i] = p /\ p # None
    BY <1>1, <1>2, <1>3, <1>4, RecordNumbers DEF Positions
<1>6. PICK d : d = IF c = None THEN map ELSE Decref(map, c)
    OBVIOUS
<1>7. PICK u : u = [d EXCEPT !.cur[i] = None]
    OBVIOUS
<1>8. d \in Map /\ ~d.fault /\ Same(map, d) /\ Fewer(map, d)
  <2>1. GivesUp(map, i, d, u)
      BY <1>2, <1>6, <1>7 DEF GivesUp
  <2>2. StandsOff(map, i, d, u)
      BY <1>1, <2>1, LeaveRecord
  <2> QED BY <2>2 DEF StandsOff
<1>9. Shown(d) = Shown(map) /\ d.records \subseteq map.records
    BY <1>8, ShownStays DEF Same, Fewer
<1>10. PICK el : el = IF c = None THEN 0 ELSE NextElement(map, c)
    OBVIOUS
<1>11. PICK rest : rest = Valid(d, el)
    OBVIOUS
<1>12. rest = {q \in Shown(map) : q > p}
  <2>1. CASE c = None
    <3>1. \A q \in d.records : q \in Nat \ {0}
        BY <1>8, MapFields, RecordNumbers
    <3>2. \A q \in d.records : q >= 0 /\ q > 0
        BY <3>1
    <3> QED BY <1>4, <1>9, <1>10, <1>11, <2>1, <3>2 DEF Valid, Shown
  <2>2. CASE c # None
    <3>1. c \in Records /\ p = c /\ el = NextElement(map, c)
        BY <1>3, <1>4, <1>10, <2>2
    <3> QED BY <1>1, <1>9, <1>11, <3>1, NextIs
  <2> QED BY <2>1, <2>2
<1>13. d.state = map.state /\ d.cur = map.cur /\ d.calls = map.calls /\ d.empty = map.empty
    BY <1>8 DEF Same
<1>14. /\ map.cur \in [Iters -> Records \cup {None}]
       /\ map.state \in [Iters -> {"unused", "live", "done", "dead"}]
    BY <1>1, MapFields
<1>15. CASE rest # {}
  <2>1. PICK r : r = First(rest)
      OBVIOUS
  <2>2. r \in Records /\ r \in Promised!Ahead(p) /\ Promised!IsNext(r, p)
      BY <1>1, <1>12, <1>15, <2>1, FirstIsNext
  <2>3. PICK f : f = [d.refs EXCEPT ![r] = @ + 1]
      OBVIOUS
  <2>4. PICK C : C = [d.cur EXCEPT ![i] = r]
      OBVIOUS
  <2>5. C[i] = r /\ \A j \in Iters \ {i} : C[j] = map.cur[j]
      BY <1>13, <1>14, <2>4
  <2>6. map' = [d EXCEPT !.refs = f, !.cur = C]
    <3>1. map' = [Locked(d, r) EXCEPT !.cur[i] = r]
        BY <1>2, <1>6, <1>10, <1>11, <1>15, <2>1 DEF IteratorNext
    <3>2. PICK e : e = Locked(d, r)
        OBVIOUS
    <3>3. e = [d EXCEPT !.refs = f]
        BY <2>3, <3>2 DEF Locked
    <3>4. e.cur = d.cur
        BY <1>8, <3>3 DEF Map
    <3>5. map' = [e EXCEPT !.cur = C]
        BY <2>4, <3>1, <3>2, <3>4
    <3> QED BY <3>3, <3>5
  <2>7. /\ map'.records = d.records /\ map'.empty = d.empty /\ map'.state = d.state
        /\ map'.cur = C /\ map'.calls = d.calls
      BY <1>8, <2>6 DEF Map
  <2>8. Positions' = [Positions EXCEPT ![i] = r]
    <3>1. map'.state = map.state /\ map'.cur = C /\ map.state[i] # "done" /\ C[i] # None
        BY <1>1, <1>13, <2>2, <2>5, <2>7, RecordNumbers
    <3> QED BY <2>5, <3>1 DEF Positions
  <2>9. Shown(map') = Shown(map)
      BY <1>9, <2>7 DEF Shown
  <2>10. Log' = Log
      BY <1>1, <2>9, LogStays
  <2>11. Walks' = Walks
      BY <1>13, <2>7 DEF Walks
  <2> QED BY <1>5, <2>2, <2>8, <2>10, <2>11 DEF Promised!Step
<1>16. CASE rest = {}
  <2>1. PICK S : S = [d.state EXCEPT ![i] = "done"]
      OBVIOUS
  <2>2. PICK C : C = [d.cur EXCEPT ![i] = None]
      OBVIOUS
  <2>3. PICK t : t = [d EXCEPT !.state = S, !.cur = C]
      OBVIOUS
  <2>4. /\ S \in [Iters -> {"unused", "live", "done", "dead"}] /\ S[i] = "done"
        /\ \A j \in Iters \ {i} : S[j] = map.state[j]
        /\ C \in [Iters -> Records \cup {None}]
        /\ \A j \in Iters \ {i} : C[j] = map.cur[j]
      BY <1>13, <1>14, <2>1, <2>2
  <2>5. map' = t \/ map' = FreeMap(t)
    <3>1. t = [d EXCEPT !.state[i] = "done", !.cur[i] = None]
        BY <2>1, <2>2, <2>3
    <3> QED BY <1>2, <1>6, <1>10, <1>11, <1>16, <3>1 DEF IteratorNext
  <2>6. /\ t \in Map /\ ~t.fault /\ t.records = d.records /\ t.empty = d.empty /\ t.state = S
        /\ t.cur = C /\ t.calls = d.calls
      BY <1>8, <2>3, <2>4 DEF Map
  <2>7. Shown(t) = Shown(map)
      BY <1>9, <2>6 DEF Shown
  <2>8. /\ map'.cur = C /\ map'.calls = d.calls /\ \A j \in Iters : map'.state[j] = "done" <=> S[j] = "done"
      BY <2>5, <2>6, FreeMapHides DEF Hides, SameEnds
  <2>9. Positions' = [Positions EXCEPT ![i] = None]
      BY <2>4, <2>8 DEF Positions
  <2>10. Walks' = Walks
      BY <1>13, <2>8 DEF Walks
  <2>11. Promised!Ahead(p) = {}
      BY <1>1, <1>12, <1>16, AheadIs
  <2>12. Log' = Log \/ Log' = [e \in DOMAIN Log |-> None]
    <3>1. CASE map' = t
        BY <1>1, <2>7, <3>1, LogStays
    <3>2. CASE map' = FreeMap(t)
      <4>1. Shown(map') = {}
          BY <2>6, <3>2, FreeMapHides
      <4>2. Log' = [e \in 1..(next - 1) |-> None]
          BY <1>1, <4>1 DEF Log, Shown
      <4> QED BY <1>1, <4>2, LogIs
    <3> QED BY <2>5, <3>1, <3>2
  <2>13. Positions'[i] = None
    <3>1. i \in DOMAIN Positions
        BY DEF Positions
    <3> QED BY <2>9, <3>1
  <2> QED BY <1>5, <2>9, <2>10, <2>11, <2>12, <2>13 DEF Promised!Step
<1> QED BY <1>15, <1>16

-----------------------------------------------------------------------------
\* A call of forEach.
MapCall == [record : Records, value : Values \cup {None}]

\* The records of calls.
WalksOf(Q) == [c \in DOMAIN Q |-> Q[c].record]

\* They are a sequence.
LEMMA WalksType ==
    ASSUME NEW Q \in Seq(MapCall)
    PROVE  /\ WalksOf(Q) \in Seq(Records) /\ Len(WalksOf(Q)) = Len(Q) /\ Len(Q) \in Nat
           /\ \A c \in 1..Len(Q) : WalksOf(Q)[c] = Q[c].record
<1>1. DOMAIN Q = 1..Len(Q) /\ Len(Q) \in Nat
    OBVIOUS
<1>2. \A c \in 1..Len(Q) : Q[c].record \in Records
  <2>1. \A c \in 1..Len(Q) : Q[c] \in MapCall
      OBVIOUS
  <2> QED BY <2>1 DEF MapCall
<1>3. WalksOf(Q) = [c \in 1..Len(Q) |-> Q[c].record]
    BY <1>1 DEF WalksOf
<1>4. PICK W : W = WalksOf(Q)
    OBVIOUS
<1>5. PICK n : n = Len(Q)
    OBVIOUS
<1>6. n \in Nat /\ DOMAIN W = 1..n /\ W \in [1..n -> Records]
    BY <1>1, <1>2, <1>3, <1>4, <1>5
<1>7. W \in Seq(Records) /\ Len(W) = n
    BY <1>6
<1> QED BY <1>1, <1>3, <1>4, <1>5, <1>7

\* A call begins.
LEMMA WalksEnter ==
    ASSUME NEW Q \in Seq(MapCall), NEW c \in MapCall
    PROVE  WalksOf(Append(Q, c)) = Append(WalksOf(Q), c.record)
<1>1. PICK A : A = Append(Q, c)
    OBVIOUS
<1>2. PICK n : n = Len(Q)
    OBVIOUS
<1>3. /\ n \in Nat /\ A \in Seq(MapCall) /\ Len(A) = n + 1 /\ A[n + 1] = c
      /\ \A k \in 1..n : A[k] = Q[k]
    BY <1>1, <1>2
<1>4. PICK W, V : W = WalksOf(Q) /\ V = WalksOf(A)
    OBVIOUS
<1>5. /\ W \in Seq(Records) /\ Len(W) = n /\ \A k \in 1..n : W[k] = Q[k].record
      /\ V \in Seq(Records) /\ Len(V) = n + 1 /\ \A k \in 1..(n + 1) : V[k] = A[k].record
    BY <1>2, <1>3, <1>4, WalksType
<1>6. c.record \in Records
    BY DEF MapCall
<1>7. PICK B : B = Append(W, c.record)
    OBVIOUS
<1>8. B \in Seq(Records) /\ Len(B) = n + 1 /\ B[n + 1] = c.record /\ \A k \in 1..n : B[k] = W[k]
    BY <1>3, <1>5, <1>6, <1>7
<1>9. \A k \in 1..(n + 1) : B[k] = V[k]
  <2>1. \A k \in 1..(n + 1) : k = n + 1 \/ k \in 1..n
      BY <1>3
  <2>2. n + 1 \in 1..(n + 1) /\ \A k \in 1..n : k \in 1..(n + 1)
      BY <1>3
  <2> QED BY <1>3, <1>5, <1>8, <2>1, <2>2
<1>10. DOMAIN B = 1..(n + 1) /\ DOMAIN V = 1..(n + 1) /\ B = [k \in DOMAIN B |-> B[k]] /\ V = [k \in DOMAIN V |-> V[k]]
    BY <1>3, <1>5, <1>8
<1>11. B = V
    BY <1>9, <1>10
<1> QED BY <1>1, <1>4, <1>7, <1>11

\* forEach begins with the first entry.
LEMMA ForEachEnters ==
    ASSUME MapInv, ForEach
    PROVE  Promised!Enter
<1>1. ~map.fault /\ Whole(map) /\ map \in Map /\ next' = next /\ key' = key
    BY UsableMap DEF ForEach, MapTyped
<1>2. PICK rest : rest = Valid(map, 0)
    OBVIOUS
<1>3. rest = {q \in Shown(map) : q > 0} /\ rest # {}
  <2>1. \A q \in map.records : q \in Nat \ {0}
      BY <1>1, MapFields, RecordNumbers
  <2>2. \A q \in map.records : q >= 0 /\ q > 0
      BY <2>1
  <2> QED BY <1>2, <2>2 DEF ForEach, Valid, Shown
<1>4. PICK r : r = First(rest)
    OBVIOUS
<1>5. r \in Shown(map) /\ r \in Records /\ r \in Promised!Ahead(0) /\ Promised!IsNext(r, 0)
    BY <1>1, <1>3, <1>4, FirstIsNext
<1>6. map' = [Locked(map, r) EXCEPT !.calls = Append(@, Call(map, r))]
    BY <1>2, <1>4 DEF ForEach
<1>7. PICK t : t = map'
    OBVIOUS
<1>8. Entered(map, t)
  <2>1. Enters(map, r, t)
      BY <1>6, <1>7 DEF Enters
  <2>2. r \in map.records
      BY <1>5 DEF Shown
  <2> QED BY <1>1, <2>1, <2>2, EnterKeeps
<1>9. PICK c : c = Call(map, r)
    OBVIOUS
<1>10. c \in MapCall /\ c.record = r
  <2>1. map.value[r] \in Values \cup {None}
      BY <1>1, <1>5, MapFields
  <2> QED BY <1>5, <1>9, <2>1 DEF Call, MapCall
<1>11. map'.calls = Append(map.calls, c)
  <2>1. PICK f : f = [map.refs EXCEPT ![r] = @ + 1]
      OBVIOUS
  <2>2. PICK e : e = Locked(map, r)
      OBVIOUS
  <2>3. e = [map EXCEPT !.refs = f]
      BY <2>1, <2>2 DEF Locked
  <2>4. e.calls = map.calls
      BY <1>1, <2>3 DEF Map
  <2>5. PICK Q : Q = Append(map.calls, c)
      OBVIOUS
  <2>6. map' = [e EXCEPT !.calls = Q]
      BY <1>6, <1>9, <2>2, <2>4, <2>5
  <2>7. map' = [map EXCEPT !.refs = f, !.calls = Q]
      BY <2>3, <2>6
  <2>8. map'.calls = Q
      BY <1>1, <2>7 DEF Map
  <2> QED BY <2>5, <2>8
<1>12. Walks' = Append(Walks, r)
  <2>1. map.calls \in Seq(MapCall)
      BY <1>1, MapFields DEF MapCall
  <2>2. Walks = WalksOf(map.calls) /\ Walks' = WalksOf(map'.calls)
      BY DEF Walks, WalksOf
  <2> QED BY <1>10, <1>11, <2>1, <2>2, WalksEnter
<1>13. Shown(map') = Shown(map) /\ Positions' = Positions
    BY <1>7, <1>8, PositionsStay DEF Entered, Shown, SameEnds
<1>14. Log' = Log
    BY <1>1, <1>13, LogStays
<1> QED BY <1>5, <1>12, <1>13, <1>14 DEF Promised!Enter

\* The calls below the last, and the walks they make.
LEMMA WalksBelow ==
    ASSUME map \in Map, map.calls # <<>>, NEW m, m = Len(map.calls)
    PROVE  /\ m \in Nat \ {0} /\ Walks \in Seq(Records) /\ Len(Walks) = m /\ Walks # <<>>
           /\ Top \in MapCall /\ Walks[m] = Top.record /\ Top.record \in Records
           /\ Below \in Seq(MapCall) /\ Len(Below) = m - 1
           /\ WalksOf(Below) = SubSeq(Walks, 1, m - 1)
           /\ \A k \in 1..(m - 1) : Below[k].record = Walks[k]
<1>1. map.calls \in Seq(MapCall)
    BY MapFields DEF MapCall
<1>2. PICK Q : Q = map.calls
    OBVIOUS
<1>3. Q \in Seq(MapCall) /\ Q # <<>> /\ m = Len(Q) /\ m \in Nat \ {0}
    BY <1>1, <1>2
<1>4. Walks = WalksOf(Q) /\ Top = Q[m] /\ Below = SubSeq(Q, 1, m - 1)
    BY <1>2 DEF Walks, WalksOf, Top, Below
<1>5. m \in 1..m /\ m - 1 \in Nat /\ \A k \in 1..(m - 1) : k \in 1..m
    BY <1>3
<1>6. Walks \in Seq(Records) /\ Len(Walks) = m /\ \A k \in 1..m : Walks[k] = Q[k].record
    BY <1>3, <1>4, WalksType
<1>7. Top \in MapCall
    BY <1>3, <1>4, <1>5
<1>8. Top.record \in Records
    BY <1>7 DEF MapCall
<1>9. PICK B : B = SubSeq(Q, 1, m - 1)
    OBVIOUS
<1>10. B \in Seq(MapCall) /\ Len(B) = m - 1 /\ \A k \in 1..(m - 1) : B[k] = Q[k]
    BY <1>3, <1>5, <1>9
<1>11. PICK W, V : W = SubSeq(Walks, 1, m - 1) /\ V = WalksOf(B)
    OBVIOUS
<1>12. W \in Seq(Records) /\ Len(W) = m - 1 /\ \A k \in 1..(m - 1) : W[k] = Walks[k]
    BY <1>5, <1>6, <1>11
<1>13. V \in Seq(Records) /\ Len(V) = m - 1 /\ \A k \in 1..(m - 1) : V[k] = B[k].record
    BY <1>10, <1>11, WalksType
<1>14. \A k \in 1..(m - 1) : V[k] = W[k]
    BY <1>5, <1>6, <1>10, <1>12, <1>13
<1>15. DOMAIN W = 1..(m - 1) /\ DOMAIN V = 1..(m - 1) /\ W = [k \in DOMAIN W |-> W[k]] /\ V = [k \in DOMAIN V |-> V[k]]
    BY <1>5, <1>12, <1>13
<1>16. V = W
    BY <1>14, <1>15
<1>17. Walks # <<>>
    BY <1>3, <1>6
<1>18. \A k \in 1..(m - 1) : B[k].record = Walks[k]
    BY <1>5, <1>6, <1>10
<1> QED BY <1>3, <1>4, <1>5, <1>6, <1>7, <1>8, <1>9, <1>10, <1>11, <1>16, <1>17, <1>18

\* The function throws: the walk ends where it is.
LEMMA ThrowAbandons ==
    ASSUME MapInv, Throw
    PROVE  Promised!Abandon
<1>1. Running /\ map.calls # <<>> /\ next' = next /\ key' = key
    BY DEF Throw
<1>2. PICK v : v = FreeValue([map EXCEPT !.calls[Len(map.calls)].value = None], Top.value)
    OBVIOUS
<1>3. PICK d : d = Decref(v, Top.record)
    OBVIOUS
<1>4. PICK w : w = [d EXCEPT !.calls = Below]
    OBVIOUS
<1>5. CallOver(v, d, w)
    BY <1>1, <1>2, <1>3, <1>4, CallEnds
<1>6. map' = w
    BY <1>2, <1>3, <1>4 DEF Throw, Unlock
<1>7. /\ Fewer(map, w) /\ w.empty = map.empty /\ w.cur = map.cur /\ SameEnds(map, w) /\ d \in Map
    BY <1>5 DEF CallOver
<1>8. w.calls = Below
  <2>1. PICK B : B = Below
      OBVIOUS
  <2> QED BY <1>4, <1>7, <2>1 DEF Map
<1>9. map \in Map
    BY <1>1, RunningMap DEF Running
<1>10. PICK m : m = Len(map.calls)
    OBVIOUS
<1>11. Walks # <<>> /\ Len(Walks) = m /\ WalksOf(Below) = SubSeq(Walks, 1, m - 1)
    BY <1>1, <1>9, <1>10, WalksBelow
<1>12. Walks' = SubSeq(Walks, 1, Len(Walks) - 1)
  <2>1. Walks' = WalksOf(map'.calls)
      BY DEF Walks, WalksOf
  <2> QED BY <1>6, <1>8, <1>11, <2>1
<1>13. Positions' = Positions /\ Shown(map') = Shown(map)
    BY <1>6, <1>7, PositionsStay, ShownStays
<1>14. Log' = Log
    BY <1>1, <1>13, LogStays
<1> QED BY <1>11, <1>12, <1>13, <1>14 DEF Promised!Abandon

\* The function returns: the walk goes to the next entry, or ends.
LEMMA ReturnWalks ==
    ASSUME MapInv, Return
    PROVE  Promised!Walk
<1>1. Running /\ map.calls # <<>> /\ next' = next /\ key' = key
    BY DEF Return
<1>2. PICK v : v = FreeValue([map EXCEPT !.calls[Len(map.calls)].value = None], Top.value)
    OBVIOUS
<1>3. PICK d : d = Decref(v, Top.record)
    OBVIOUS
<1>4. PICK w : w = [d EXCEPT !.calls = Below]
    OBVIOUS
<1>5. CallOver(v, d, w)
    BY <1>1, <1>2, <1>3, <1>4, CallEnds
<1>6. /\ ~map.fault /\ v \in Map /\ d.records \subseteq v.records
      /\ Fewer(map, w) /\ w.empty = map.empty /\ w.cur = map.cur /\ SameEnds(map, w)
      /\ d \in Map /\ d.records = w.records /\ d.empty = w.empty /\ d.value = w.value
      /\ d.cur = w.cur /\ d.state = w.state
    BY <1>5 DEF CallOver
<1>7. map \in Map
    BY <1>1, RunningMap DEF Running
<1>8. PICK m, B : m = Len(map.calls) /\ B = Below
    OBVIOUS
<1>9. /\ m \in Nat \ {0} /\ Walks \in Seq(Records) /\ Len(Walks) = m /\ Walks # <<>>
      /\ Walks[m] = Top.record /\ Top.record \in Records
      /\ B \in Seq(MapCall) /\ Len(B) = m - 1 /\ WalksOf(B) = SubSeq(Walks, 1, m - 1)
      /\ \A k \in 1..(m - 1) : B[k].record = Walks[k]
    BY <1>1, <1>7, <1>8, WalksBelow
<1>10. Shown(d) = Shown(map)
  <2>1. Shown(w) = Shown(map)
      BY <1>6, ShownStays
  <2> QED BY <1>6, <2>1 DEF Shown
<1>11. PICK el : el = NextElement(v, Top.record)
    OBVIOUS
<1>12. PICK rest : rest = Valid(d, el)
    OBVIOUS
<1>13. rest = {q \in Shown(map) : q > Walks[m]}
    BY <1>6, <1>9, <1>10, <1>11, <1>12, NextIs
<1>14. PICK r : r = First(rest)
    OBVIOUS
<1>15. PICK f : f = IF rest = {} THEN d.refs ELSE [d.refs EXCEPT ![r] = @ + 1]
    OBVIOUS
<1>16. PICK Q : Q = IF rest = {} THEN B ELSE Append(B, Call(d, r))
    OBVIOUS
<1>17. map' = [d EXCEPT !.refs = f, !.calls = Q]
  <2>1. map' = [(IF rest = {} THEN d ELSE Locked(d, r)) EXCEPT !.calls = Q]
      BY <1>2, <1>3, <1>8, <1>11, <1>12, <1>14, <1>16 DEF Return, Unlock
  <2>2. PICK e : e = IF rest = {} THEN d ELSE Locked(d, r)
      OBVIOUS
  <2>3. e = [d EXCEPT !.refs = f]
      BY <1>6, <1>15, <2>2 DEF Locked, Map
  <2>4. map' = [e EXCEPT !.calls = Q]
      BY <2>1, <2>2
  <2> QED BY <2>3, <2>4
<1>18. /\ map'.records = d.records /\ map'.empty = d.empty /\ map'.state = d.state
       /\ map'.cur = d.cur /\ map'.calls = Q
    BY <1>6, <1>17 DEF Map
<1>19. Shown(map') = Shown(map)
    BY <1>10, <1>18 DEF Shown
<1>20. Positions' = Positions
    BY <1>6, <1>18, PositionsStay DEF SameEnds
<1>21. Log' = Log
    BY <1>1, <1>19, LogStays
<1>22. Walks' = WalksOf(Q)
  <2>1. Walks' = WalksOf(map'.calls)
      BY DEF Walks, WalksOf
  <2> QED BY <1>18, <2>1
<1>23. CASE rest = {}
  <2>1. Walks' = SubSeq(Walks, 1, m - 1)
      BY <1>9, <1>16, <1>22, <1>23
  <2>2. Promised!Ahead(Walks[m]) = {}
      BY <1>6, <1>13, <1>23, AheadIs
  <2> QED BY <1>9, <1>20, <1>21, <2>1, <2>2 DEF Promised!Walk
<1>24. CASE rest # {}
  <2>1. r \in Records /\ r \in Promised!Ahead(Walks[m]) /\ Promised!IsNext(r, Walks[m])
      BY <1>6, <1>13, <1>14, <1>24, FirstIsNext
  <2>2. PICK c : c = Call(d, r)
      OBVIOUS
  <2>3. c \in MapCall /\ c.record = r
    <3>1. d.value[r] \in Values \cup {None}
        BY <1>6, <2>1, MapFields
    <3> QED BY <2>1, <2>2, <3>1 DEF Call, MapCall
  <2>4. Walks' = Append(WalksOf(B), r)
      BY <1>9, <1>16, <1>22, <1>24, <2>2, <2>3, WalksEnter
  <2>5. PICK W : W = WalksOf(B)
      OBVIOUS
  <2>6. W \in Seq(Records) /\ Len(W) = m - 1 /\ \A k \in 1..(m - 1) : W[k] = Walks[k]
    <3>1. W \in Seq(Records) /\ Len(W) = m - 1 /\ \A k \in 1..(m - 1) : W[k] = B[k].record
        BY <1>9, <2>5, WalksType
    <3> QED BY <1>9, <3>1
  <2>7. PICK A, E : A = Append(W, r) /\ E = [Walks EXCEPT ![m] = r]
      OBVIOUS
  <2>8. A \in Seq(Records) /\ Len(A) = m /\ A[m] = r /\ \A k \in 1..(m - 1) : A[k] = W[k]
      BY <1>9, <2>1, <2>6, <2>7
  <2>9. E \in Seq(Records) /\ Len(E) = m /\ E[m] = r /\ \A k \in 1..m : k # m => E[k] = Walks[k]
      BY <1>9, <2>1, <2>7
  <2>10. \A k \in 1..m : A[k] = E[k]
    <3>1. \A k \in 1..m : k = m \/ k \in 1..(m - 1)
        BY <1>9
    <3>2. \A k \in 1..(m - 1) : k \in 1..m /\ k # m
        BY <1>9
    <3> QED BY <2>6, <2>8, <2>9, <3>1, <3>2
  <2>11. DOMAIN A = 1..m /\ DOMAIN E = 1..m /\ A = [k \in DOMAIN A |-> A[k]] /\ E = [k \in DOMAIN E |-> E[k]]
      BY <1>9, <2>8, <2>9
  <2>12. A = E
      BY <2>10, <2>11
  <2>13. Walks' = [Walks EXCEPT ![m] = r]
      BY <2>4, <2>5, <2>7, <2>12
  <2> QED BY <1>9, <1>20, <1>21, <2>1, <2>13 DEF Promised!Walk
<1> QED BY <1>23, <1>24

-----------------------------------------------------------------------------
\* Each step is one that OrderedMap has.
LEMMA MapStepIs ==
    ASSUME MapInv, [MapNext]_mapvars
    PROVE  [Promised!Next]_(Promised!vars)
<1>1. ASSUME NEW k \in Keys, Delete(k)
      PROVE  Promised!Remove
    BY <1>1, DeleteHides, HiddenIsRemoved DEF Delete
<1>2. ASSUME NEW k \in Keys, NEW v \in Values \cup {None}, SetValue(k, v)
      PROVE  Promised!Remove
    BY <1>2, SetValueHides, HiddenIsRemoved DEF SetValue
<1>3. ASSUME NEW k \in Keys, NEW v \in Values \cup {None}, AddRecord(k, v)
      PROVE  Promised!Add(k)
    BY <1>3, AddRecordAdds
<1>4. Hides(map, map)
    BY DEF Hides, SameEnds
<1>5. ASSUME ClearStart \/ ClearDone
      PROVE  Promised!Remove
    BY <1>4, <1>5, HiddenIsRemoved DEF ClearStart, ClearDone
<1>6. ASSUME ClearStep
      PROVE  Promised!Remove
    BY <1>6, ClearStepHides, HiddenIsRemoved DEF ClearStep
<1>7. ASSUME NEW i \in Iters, NewIterator(i)
      PROVE  Promised!Remove
    BY <1>7, NewIteratorHides, HiddenIsRemoved DEF NewIterator
<1>8. ASSUME NEW i \in Iters, IteratorNext(i)
      PROVE  Promised!Step(i)
    BY <1>8, IteratorNextSteps
<1>9. ASSUME NEW i \in Iters, DropIterator(i)
      PROVE  Promised!Remove
    BY <1>9, DropIteratorHides, HiddenIsRemoved DEF DropIterator
<1>10. ASSUME ForEach
       PROVE  Promised!Enter
    BY <1>10, ForEachEnters
<1>11. ASSUME Return
       PROVE  Promised!Walk
    BY <1>11, ReturnWalks
<1>12. ASSUME Throw
       PROVE  Promised!Abandon
    BY <1>12, ThrowAbandons
<1>13. ASSUME DropMap
       PROVE  Promised!Remove
    BY <1>13, DropMapHides, HiddenIsRemoved DEF DropMap
<1>14. ASSUME NEW first \in SUBSET Iters, Collect(first)
       PROVE  Promised!Remove
    BY <1>14, CollectHides, HiddenIsRemoved DEF Collect
<1>15. ASSUME UNCHANGED mapvars
       PROVE  Promised!Remove
    BY <1>4, <1>15, HiddenIsRemoved DEF mapvars
<1>16. Promised!Next
    BY <1>1, <1>2, <1>3, <1>5, <1>6, <1>7, <1>8, <1>9, <1>10, <1>11, <1>12, <1>13, <1>14, <1>15
       DEF MapNext, Promised!Next
<1> QED BY <1>16

\* A Map or Set is what OrderedMap says, whatever the keys, iterators and values:
\* iterators and calls of forEach that walk over it while it is changed see each
\* entry that stays once, in the order of insertion, go past what is deleted
\* before they come to it and on to what is added, and end when nothing is ahead.
THEOREM WalksInOrder == MapSpec => Ordered
<1>1. MapInit => Promised!Init
  <2>1. ASSUME MapInit
        PROVE  Promised!Init
    <3>1. next = 1 /\ map.state = [i \in Iters |-> "unused"] /\ map.cur = [i \in Iters |-> None]
          /\ map.calls = <<>>
        BY <2>1 DEF MapInit
    <3>2. 1..(next - 1) = {}
        BY <3>1
    <3>3. Log = <<>>
        BY <3>2 DEF Log
    <3>4. Positions = [i \in Iters |-> 0]
        BY <3>1 DEF Positions
    <3>5. Walks = <<>>
        BY <3>1 DEF Walks
    <3> QED BY <3>3, <3>4, <3>5 DEF Promised!Init
  <2> QED BY <2>1
<1>2. MapInv /\ [MapNext]_mapvars => [Promised!Next]_(Promised!vars)
    BY MapStepIs
<1> QED BY <1>1, <1>2, MapInvHolds, PTL DEF MapSpec, Ordered, Promised!Spec
==============================================================================
