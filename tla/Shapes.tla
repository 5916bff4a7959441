------------------------------- MODULE Shapes -------------------------------
(***************************************************************************)
(* The shapes of quickjs.c: objects with the same prototype and the same   *)
(* properties, added in the same order, share one.  Shapes that may be     *)
(* shared are in a hash table; one that more than one object has must not  *)
(* be changed, one that is changed in another way than by a property more  *)
(* leaves the table for good.                                              *)
(*                                                                         *)
(* The hash of a shape is one bit, which changes with every property:      *)
(* collisions are the rule.  The value of a property is its name, so that  *)
(* one in the wrong place is told.                                         *)
(***************************************************************************)
EXTENDS Integers, Sequences, SequencesExt, FiniteSets

CONSTANTS
    Objects, Atoms,
    Protos,     \* prototypes
    Addr,       \* memory for shapes
    InitSize,   \* JS_PROP_INITIAL_SIZE
    MinDeleted, \* the deleted properties that make an object compact, 8 in the code
    MaxCount,   \* bound: properties of an object, deleted ones included
    Nil         \* free memory, a deleted property

VARIABLES
    shape,  \* JSShape at each address
    object, \* JSObject: its shape, the capacity of p->prop, the values there
    buckets \* rt->shape_hash: the shapes in the bucket of each hash

shapevars == <<shape, object, buckets>>

Hashes == {0, 1}

\* shape_hash for the name and the flags of a property
Mix(h) == (h + 1) % 2

Prop == [atom : Atoms \cup {Nil}, flags : BOOLEAN]
Deleted == [atom |-> Nil, flags |-> FALSE]

\* size: prop_size, the properties there is memory for.
Shape ==
    [proto : Protos, props : Seq(Prop), size : Nat, hashed : BOOLEAN, hash : Hashes, refs : Nat \ {0}]

Object == [shape : Addr, size : Nat, values : Seq(Atoms \cup {Nil})]

\* There is memory for a shape of each object and one more.
ASSUME ShapesAssumption ==
    /\ IsFiniteSet(Addr) /\ IsFiniteSet(Objects) /\ Cardinality(Addr) > Cardinality(Objects)
    /\ InitSize \in Nat \ {0} /\ MinDeleted \in Nat \ {0} /\ MaxCount \in Nat
    /\ Nil \notin Atoms \cup Shape \cup Object

ShapesTypeOK ==
    /\ shape \in [Addr -> Shape \cup {Nil}]
    /\ object \in [Objects -> Object \cup {Nil}]
    /\ buckets \in [Hashes -> SUBSET Addr]

ShapesInit ==
    /\ shape = [a \in Addr |-> Nil]
    /\ object = [o \in Objects |-> Nil]
    /\ buckets = [h \in Hashes |-> {}]

Live(o) == object[o] # Nil
ShapeOf(o) == shape[object[o].shape]
FreeAddr == CHOOSE a \in Addr : shape[a] = Nil

\* The index of a property.
IsAt(o, atom, k) == k \in DOMAIN ShapeOf(o).props /\ ShapeOf(o).props[k].atom = atom
Has(o, atom) == \E k \in DOMAIN ShapeOf(o).props : IsAt(o, atom, k)

-----------------------------------------------------------------------------
(***************************************************************************)
(* The heap of shapes: each operator takes shapes and table as one record. *)
(***************************************************************************)

Heap == [shape |-> shape, buckets |-> buckets]

\* js_shape_hash_link, js_shape_hash_unlink
Link(m, a) == [m EXCEPT !.buckets[m.shape[a].hash] = @ \cup {a}]
Unlink(m, a) == [m EXCEPT !.buckets[m.shape[a].hash] = @ \ {a}]

\* js_dup_shape
Dup(m, a) == [m EXCEPT !.shape[a].refs = @ + 1]

\* Mutant of FreeShape: the shape stays in the hash table.
FreeShapeLinked(m, a) ==
    IF m.shape[a].refs > 1 THEN [m EXCEPT !.shape[a].refs = @ - 1]
    ELSE [m EXCEPT !.shape[a] = Nil]

\* js_free_shape
FreeShape(m, a) ==
    IF m.shape[a].refs > 1 THEN [m EXCEPT !.shape[a].refs = @ - 1]
    ELSE LET n == IF m.shape[a].hashed THEN Unlink(m, a) ELSE m
         IN [n EXCEPT !.shape[a] = Nil]

\* js_new_shape2
NewShape(m, a, proto) ==
    Link([m EXCEPT !.shape[a] = [proto |-> proto, props |-> <<>>, size |-> InitSize,
                                 hashed |-> TRUE, hash |-> 0, refs |-> 1]], a)

\* js_clone_shape at address c
Clone(m, a, c) == [m EXCEPT !.shape[c] = [m.shape[a] EXCEPT !.refs = 1, !.hashed = FALSE]]

Grown(size, count) == IF count > (size * 3) \div 2 THEN count ELSE (size * 3) \div 2

\* add_shape_property
AddShapeProperty(m, a, p) ==
    LET s == m.shape[a]
        t == [s EXCEPT !.hash = IF s.hashed THEN Mix(@) ELSE @,
                       !.size = IF Len(s.props) >= @ THEN Grown(@, Len(s.props) + 1) ELSE @,
                       !.props = Append(@, p)]
        n == IF s.hashed THEN Unlink(m, a) ELSE m
        q == [n EXCEPT !.shape[a] = t]
    IN IF s.hashed THEN Link(q, a) ELSE q

\* find_hashed_shape_proto
EmptyShapes(proto) ==
    {a \in buckets[0] : shape[a].proto = proto /\ shape[a].props = <<>>}

\* find_hashed_shape_prop
MatchingShapes(s, p) ==
    {a \in buckets[Mix(s.hash)] :
        /\ shape[a].hash = Mix(s.hash)
        /\ shape[a].proto = s.proto
        /\ shape[a].props = Append(s.props, p)}

Becomes(m) == shape' = m.shape /\ buckets' = m.buckets

\* js_shape_prepare_update: afterwards the shape is o's alone, and not hashed.
PreparedAddr(o) ==
    IF ShapeOf(o).hashed /\ ShapeOf(o).refs # 1 THEN FreeAddr ELSE object[o].shape
Prepared(o) ==
    LET a == object[o].shape IN
    IF ~ShapeOf(o).hashed THEN Heap
    ELSE IF ShapeOf(o).refs # 1 THEN FreeShape(Clone(Heap, a, FreeAddr), a)
    ELSE [Unlink(Heap, a) EXCEPT !.shape[a].hashed = FALSE]

-----------------------------------------------------------------------------
(***************************************************************************)
(* Objects                                                                 *)
(***************************************************************************)

\* JS_NewObjectProtoClass, JS_NewObjectFromShape
NewObject(o, proto) ==
    /\ ~Live(o)
    /\ \/ \E a \in EmptyShapes(proto) :
             /\ Becomes(Dup(Heap, a))
             /\ object' = [object EXCEPT ![o] =
                              [shape |-> a, size |-> shape[a].size, values |-> <<>>]]
       \/ /\ EmptyShapes(proto) = {}
          /\ Becomes(NewShape(Heap, FreeAddr, proto))
          /\ object' = [object EXCEPT ![o] =
                           [shape |-> FreeAddr, size |-> InitSize, values |-> <<>>]]

Valued(o, a, size, atom) ==
    [object EXCEPT ![o] = [shape |-> a, size |-> size, values |-> Append(@.values, atom)]]

\* add_property: a hashed shape with the property, or the shape itself, cloned
\* if it is shared.
AddProperty(o, atom, flags) ==
    LET a == object[o].shape
        s == ShapeOf(o)
        p == [atom |-> atom, flags |-> flags]
        found == IF s.hashed THEN MatchingShapes(s, p) ELSE {}
        cloned == s.hashed /\ s.refs # 1
        c == IF cloned THEN FreeAddr ELSE a
        m == IF ~cloned THEN Heap
             ELSE FreeShape(Link([Clone(Heap, a, c) EXCEPT !.shape[c].hashed = TRUE], c), a)
        n == AddShapeProperty(m, c, p)
    IN /\ Live(o) /\ ~Has(o, atom) /\ Len(s.props) < MaxCount
       /\ \/ \E b \in found :
                /\ Becomes(FreeShape(Dup(Heap, b), a))
                /\ object' = Valued(o, b, IF shape[b].size # s.size THEN shape[b].size
                                          ELSE object[o].size, atom)
          \/ /\ found = {}
             /\ Becomes(n)
             /\ object' = Valued(o, c, IF n.shape[c].size # s.size THEN n.shape[c].size
                                       ELSE object[o].size, atom)

\* The places of the properties that are not deleted; the nth of them; and
\* what is left of a sequence when only these places are.
Kept(props) == {k \in DOMAIN props : props[k] # Deleted}
Nth(places, n) == CHOOSE k \in places : Cardinality({j \in places : j < k}) = n - 1
Packed(seq, places) == [n \in 1..Cardinality(places) |-> seq[Nth(places, n)]]

\* compact_properties: the shape without deleted properties
Compacted(s) ==
    LET n == Cardinality(Kept(s.props)) IN
    [s EXCEPT !.props = Packed(@, Kept(s.props)), !.size = IF n > InitSize THEN n ELSE InitSize]

\* delete_property
DeleteProperty(o, atom) ==
    /\ Live(o)
    /\ \E k \in DOMAIN ShapeOf(o).props :
          LET a == PreparedAddr(o)
              m == Prepared(o)
              s == [m.shape[a] EXCEPT !.props[k] = Deleted]
              deleted == Cardinality({i \in DOMAIN s.props : s.props[i] = Deleted})
              values == [object[o].values EXCEPT ![k] = Nil]
              compact == deleted >= MinDeleted /\ deleted >= Len(s.props) \div 2
              t == IF compact THEN Compacted(s) ELSE s
          IN /\ IsAt(o, atom, k)
             /\ Becomes([m EXCEPT !.shape[a] = t])
             /\ object' = [object EXCEPT ![o] =
                   [shape |-> a,
                    size |-> IF compact THEN t.size ELSE @.size,
                    values |-> IF compact THEN Packed(values, Kept(s.props)) ELSE values]]

\* js_update_property_flags
SetFlags(o, atom, flags) ==
    /\ Live(o)
    /\ \E k \in DOMAIN ShapeOf(o).props :
          /\ IsAt(o, atom, k) /\ ShapeOf(o).props[k].flags # flags
          /\ Becomes([Prepared(o) EXCEPT !.shape[PreparedAddr(o)].props[k].flags = flags])
    /\ object' = [object EXCEPT ![o].shape = PreparedAddr(o)]

\* JS_SetPrototypeInternal
SetPrototype(o, proto) ==
    /\ Live(o) /\ ShapeOf(o).proto # proto
    /\ Becomes([Prepared(o) EXCEPT !.shape[PreparedAddr(o)].proto = proto])
    /\ object' = [object EXCEPT ![o].shape = PreparedAddr(o)]

\* free_object
FreeObject(o) ==
    /\ Live(o)
    /\ Becomes(FreeShape(Heap, object[o].shape))
    /\ object' = [object EXCEPT ![o] = Nil]

ShapesNext ==
    \E o \in Objects :
        \/ FreeObject(o)
        \/ \E proto \in Protos : NewObject(o, proto) \/ SetPrototype(o, proto)
        \/ \E atom \in Atoms : DeleteProperty(o, atom)
        \/ \E atom \in Atoms, flags \in BOOLEAN : AddProperty(o, atom, flags) \/ SetFlags(o, atom, flags)

ShapesSpec == ShapesInit /\ [][ShapesNext]_shapevars

-----------------------------------------------------------------------------
\* A shape has one reference for each object that has it and is freed with the
\* last; one that is not hashed belongs to one object; the hash table has the
\* hashed ones, no two of them alike, each in the bucket of its hash and
\* without deleted properties; and an object has memory for what its shape
\* names (the assertions of add_property and compact_properties).
SharingExact ==
    /\ ShapesTypeOK
    /\ \A a \in Addr : shape[a] # Nil =>
          LET users == {o \in Objects : Live(o) /\ object[o].shape = a} IN
          /\ shape[a].refs = Cardinality(users)
          /\ ~shape[a].hashed => Cardinality(users) = 1
          /\ shape[a].hashed =>
                /\ a \in buckets[shape[a].hash] /\ \A p \in ToSet(shape[a].props) : p # Deleted
                /\ \A b \in Addr \ {a} : shape[b] = Nil \/ ~shape[b].hashed
                       \/ shape[b].proto # shape[a].proto \/ shape[b].props # shape[a].props
          /\ \A o \in users :
                /\ object[o].size = shape[a].size
                /\ Len(object[o].values) = Len(shape[a].props)
                /\ Len(shape[a].props) <= shape[a].size /\ InitSize <= shape[a].size
    /\ \A h \in Hashes : \A a \in buckets[h] : shape[a] # Nil /\ shape[a].hash = h
    /\ \A o \in Objects : Live(o) => ShapeOf(o) # Nil

\* What is done to an object is done to that object alone.
View(x, s) ==
    LET props == [k \in DOMAIN s.props |->
                     [atom |-> s.props[k].atom, flags |-> s.props[k].flags, value |-> x.values[k]]]
    IN [proto |-> s.proto, props |-> Packed(props, Kept(s.props))]

Own == [o \in {q \in Objects : Live(q)} |-> View(object[o], ShapeOf(o))]

Apart == INSTANCE OwnProperties WITH own <- Own
ObjectsApart == Apart!Spec
=============================================================================
