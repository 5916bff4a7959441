-------------------------------- MODULE JSHeap --------------------------------
(***************************************************************************)
(* Memory management of the QuickJS engine (quickjs.c): reference counts,  *)
(* the list of objects waiting to be freed, the three passes of the cycle  *)
(* collector, weak references and the destruction of the runtime.          *)
(*                                                                         *)
(* A heap cell is an address of Addr.  A place that can hold a counted     *)
(* JSValue (a local, a property, a map value, the link of a closure to a   *)
(* variable) is a member of Ref; owner says who holds the place and target *)
(* which cell its value denotes.  The engine is single threaded: pc says   *)
(* which of its loops is running, and "run" is when the program (scripts   *)
(* and C code) executes.  The order in which a loop visits a linked list   *)
(* is left open.                                                           *)
(***************************************************************************)
EXTENDS Integers, FiniteSets

CONSTANTS
    Addr,    \* addresses of heap cells
    Ref,     \* places that can hold a counted JS value
    Stack,   \* owner of the values held by C code or by a JS stack frame
    Unused,  \* owner of a place that holds no value
    Nil      \* JS_UNDEFINED as the target of a weak reference

ASSUME AddrRefAssumption == IsFiniteSet(Addr) /\ IsFiniteSet(Ref)

ASSUME TokenAssumption ==
    /\ Stack \notin Addr /\ Unused \notin Addr /\ Nil \notin Addr
    /\ Nil \notin Ref
    /\ Stack # Unused

VARIABLES
    kind,    \* kind[a]: what the cell holds; "zombie": an object with free_mark
    rc,      \* header.ref_count
    mark,    \* header.mark
    list,    \* the list header.link is on
    wcount,  \* weakref_count of an object
    wkey,    \* WeakRef target, or key of the record of a WeakMap
    wval,    \* the place of the value of the record of a WeakMap
    owner,   \* owner[r]: the cell that holds place r, Stack or Unused
    target,  \* target[r]: the cell denoted by the value in place r
    pc,      \* the loop the engine is in
    todo,    \* the cells that loop has still to visit
    closing  \* JS_FreeRuntime is running

cells == <<kind, rc, mark, list, wcount, wkey, wval>>
refs == <<owner, target>>
vars == <<cells, refs, pc, todo, closing>>

Kinds == {"free", "object", "weakref", "weakmap", "var_ref", "zombie"}
Lists == {"none", "gc", "zero", "tmp"}
Loops == {"run", "free_zero", "weak", "weak_free", "decref", "scan",
          "free_cycles", "sweep", "dead"}

TypeOK ==
    /\ kind \in [Addr -> Kinds]
    /\ rc \in [Addr -> Nat]
    /\ mark \in [Addr -> {0, 1}]
    /\ list \in [Addr -> Lists]
    /\ wcount \in [Addr -> Nat]
    /\ wkey \in [Addr -> Addr \cup {Nil}]
    /\ wval \in [Addr -> Ref \cup {Nil}]
    /\ owner \in [Ref -> Addr \cup {Stack, Unused}]
    /\ target \in [Ref -> Addr \cup {Nil}]
    /\ pc \in Loops
    /\ todo \in SUBSET Addr
    /\ closing \in BOOLEAN

-----------------------------------------------------------------------------
(***************************************************************************)
(* Reading the heap                                                        *)
(***************************************************************************)

\* rt->gc_phase, which the loops set on entry and reset on exit.
gc_phase ==
    IF pc \in {"free_zero", "weak", "weak_free"} THEN "decref"
    ELSE IF pc = "free_cycles" THEN "remove_cycles"
    ELSE "none"

Live == {a \in Addr : kind[a] \notin {"free", "zombie"}}

On(l) == {a \in Addr : list[a] = l}

\* rt->weakref_list: the finalizer of a weak holder takes it off the list.
weakref_list == {a \in Addr : kind[a] \in {"weakref", "weakmap"}}

Own(p) == {r \in Ref : owner[r] = p}

\* The number of values in places R that denote c.
Edges(R, c) == Cardinality({r \in R : target[r] = c})

\* One of the locals L denotes a: C code or a stack frame can operate on it.
HeldBy(L, a) == \E s \in L : owner[s] = Stack /\ target[s] = a

Held(a) == HeldBy(Ref, a)

\* The program, holding the locals L, can read and write place r: a property
\* of an object it holds, the value of a map for a key it holds, or the
\* closed-over variable behind a closure it holds.
Accessible(L, r) ==
    LET h == owner[r] IN
    /\ h \in Addr
    /\ \/ HeldBy(L, h) /\ (wval[h] = r => HeldBy(L, wkey[h]))
       \/ /\ kind[h] = "var_ref"
          /\ \E s \in Ref : target[s] = h /\ HeldBy(L, owner[s])

\* js_weakref_is_live
is_live(k) == k = Nil \/ rc[k] # 0

-----------------------------------------------------------------------------
(***************************************************************************)
(* Dropping values                                                         *)
(***************************************************************************)

\* Mutant of DyingVars: the count of the variable is not looked at.
DyingVarsShared(p) ==
    {v \in Addr : kind[v] = "var_ref" /\ Edges(Own(p), v) > 0}

\* The variables whose every reference is dropped with the places of p:
\* free_var_ref frees them on the spot.
DyingVars(p) ==
    {v \in Addr : /\ kind[v] = "var_ref"
                  /\ Edges(Own(p), v) > 0
                  /\ Edges(Own(p), v) = rc[v]}

\* Every value free_object(p) drops: its properties and records, and the
\* values of the variables that die with them.
Dropped(p) == Own(p) \cup {r \in Ref : owner[r] \in DyingVars(p)}

\* The place of the value of the record of map w, if it has one.
RecordValue(w) == {wval[w]} \cap Ref

\* Forget the values in places R.
Clear(R) ==
    /\ owner' = [r \in Ref |-> IF r \in R THEN Unused ELSE owner[r]]
    /\ target' = [r \in Ref |-> IF r \in R THEN Nil ELSE target[r]]

RcWithout(R) == [a \in Addr |-> rc[a] - Edges(R, a)]

\* The objects whose count drops to zero with R, which __JS_FreeValueRT puts
\* on the list of objects to free (it leaves them alone when the cycle
\* collector is freeing).
ToZero(R) ==
    IF gc_phase = "remove_cycles" THEN {}
    ELSE {a \in Addr : /\ Edges(R, a) > 0
                       /\ Edges(R, a) = rc[a]
                       /\ kind[a] # "var_ref"}

\* Mutant of KeyFreed: the last weak reference leaves the structure behind.
KeyKept(k, R) == k # Nil /\ FALSE

\* js_weakref_free, once the values in R have been dropped: the structure of
\* a dead key goes with its last weak reference, unless mark says that a
\* loop is about to free it.
KeyFreed(k, R) ==
    /\ k # Nil
    /\ wcount[k] = 1
    /\ rc[k] = Edges(R, k)
    /\ mark[k] = 0 /\ k \notin ToZero(R)

\* Mutant of WithoutWeakRef: a record forgets its key without giving it up.
WeakRefKept(k) == wcount

WithoutWeakRef(k) ==
    IF k = Nil THEN wcount ELSE [wcount EXCEPT ![k] = @ - 1]

\* js_free_rt of the cells in F: nothing in a freed cell means anything.
FreedFields(F) ==
    /\ wkey' = [a \in Addr |-> IF a \in F THEN Nil ELSE wkey[a]]
    /\ wval' = [a \in Addr |-> IF a \in F THEN Nil ELSE wval[a]]

\* JS_FreeValue of the values in R by the program.  A last reference starts
\* free_zero_refcount, which runs to its end before the program goes on.
FreeValues(R) ==
    /\ rc' = RcWithout(R)
    /\ mark' = [a \in Addr |-> IF a \in ToZero(R) THEN 1 ELSE mark[a]]
    /\ list' = [a \in Addr |-> IF a \in ToZero(R) THEN "zero" ELSE list[a]]
    /\ pc' = IF ToZero(R) = {} THEN "run" ELSE "free_zero"

\* free_object(p): p becomes invalid, drops its values, its finalizer gives
\* up its weak reference; the structure stays as long as it is referenced,
\* by weak references or, among cycles being freed, by their other members.
FreeObject(p) ==
    LET R == Dropped(p)
        k == wkey[p]
        wc == WithoutWeakRef(k)
        keep == wc[p] # 0 \/ (gc_phase = "remove_cycles" /\ RcWithout(R)[p] # 0)
        F == DyingVars(p) \cup (IF keep THEN {} ELSE {p})
                 \cup (IF KeyFreed(k, R) THEN {k} ELSE {})
    IN /\ Clear(R)
       /\ rc' = RcWithout(R)
       /\ wcount' = wc
       /\ kind' = [a \in Addr |-> IF a \in F THEN "free"
                                  ELSE IF a = p THEN "zombie" ELSE kind[a]]
       /\ mark' = [a \in Addr |->
                     IF a \in F THEN 0
                     ELSE IF a \in ToZero(R) THEN 1
                     ELSE IF a = p /\ gc_phase # "remove_cycles" THEN 0
                     ELSE mark[a]]
       /\ list' = [a \in Addr |->
                     IF a \in F THEN "none"
                     ELSE IF a = p THEN
                         IF gc_phase = "remove_cycles" THEN "zero" ELSE "none"
                     ELSE IF a \in ToZero(R) THEN "zero" ELSE list[a]]
       /\ FreedFields(F \cup {p})

-----------------------------------------------------------------------------
(***************************************************************************)
(* The program: scripts and C code, between two runs of the collector      *)
(***************************************************************************)

Init ==
    /\ kind = [a \in Addr |-> "free"]
    /\ rc = [a \in Addr |-> 0]
    /\ mark = [a \in Addr |-> 0]
    /\ list = [a \in Addr |-> "none"]
    /\ wcount = [a \in Addr |-> 0]
    /\ wkey = [a \in Addr |-> Nil]
    /\ wval = [a \in Addr |-> Nil]
    /\ owner = [r \in Ref |-> Unused]
    /\ target = [r \in Ref |-> Nil]
    /\ pc = "run"
    /\ todo = {}
    /\ closing = FALSE

Running == pc = "run" /\ ~closing

\* malloc of a cell of kind k, whose one reference is place r of o, and
\* add_gc_object.
NewCell(a, k, r, o) ==
    /\ kind[a] = "free"
    /\ owner[r] = Unused
    /\ kind' = [kind EXCEPT ![a] = k]
    /\ rc' = [rc EXCEPT ![a] = 1]
    /\ mark' = [mark EXCEPT ![a] = 0]
    /\ list' = [list EXCEPT ![a] = "gc"]
    /\ owner' = [owner EXCEPT ![r] = o]
    /\ target' = [target EXCEPT ![r] = a]

\* JS_DupValue into place r of o.
Dup(c, r, o) ==
    /\ owner[r] = Unused
    /\ rc' = [rc EXCEPT ![c] = @ + 1]
    /\ owner' = [owner EXCEPT ![r] = o]
    /\ target' = [target EXCEPT ![r] = c]

\* JS_NewObject (the collection its allocation may trigger is RunGC), and
\* new WeakMap().
NewObject(a, k, r) ==
    /\ Running
    /\ k \in {"object", "weakmap"}
    /\ NewCell(a, k, r, Stack)
    /\ wcount' = [wcount EXCEPT ![a] = 0]
    /\ UNCHANGED <<wkey, wval, pc, todo, closing>>

\* new WeakRef(key)
NewWeakRef(a, r, key) ==
    /\ Running
    /\ Held(key)
    /\ NewCell(a, "weakref", r, Stack)
    /\ wkey' = [wkey EXCEPT ![a] = key]
    /\ wcount' = [wcount EXCEPT ![a] = 0, ![key] = @ + 1]
    /\ UNCHANGED <<wval, pc, todo, closing>>

\* weakref.deref()
Deref(w, r) ==
    /\ Running
    /\ Held(w) /\ kind[w] = "weakref"
    /\ wkey[w] # Nil /\ is_live(wkey[w])
    /\ Dup(wkey[w], r, Stack)
    /\ UNCHANGED <<kind, mark, list, wcount, wkey, wval, pc, todo, closing>>

\* weakmap.set(key, value) of a new key, in place r; the model has room for
\* one record in each map.
MapSet(w, key, c, r) ==
    /\ Running
    /\ Held(w) /\ kind[w] = "weakmap" /\ wkey[w] = Nil
    /\ Held(key) /\ Held(c)
    /\ wkey' = [wkey EXCEPT ![w] = key]
    /\ wcount' = [wcount EXCEPT ![key] = @ + 1]
    /\ wval' = [wval EXCEPT ![w] = r]
    /\ Dup(c, r, w)
    /\ UNCHANGED <<kind, mark, list, pc, todo, closing>>

\* weakmap.delete(key): map_delete_record_internal gives up the weak
\* reference first, then the value.  The caller holds the key, so its
\* structure stays.
MapDelete(w) ==
    /\ Running
    /\ Held(w) /\ kind[w] = "weakmap"
    /\ wkey[w] # Nil /\ Held(wkey[w])
    /\ wcount' = WithoutWeakRef(wkey[w])
    /\ wkey' = [wkey EXCEPT ![w] = Nil]
    /\ wval' = [wval EXCEPT ![w] = Nil]
    /\ Clear(RecordValue(w))
    /\ FreeValues(RecordValue(w))
    /\ UNCHANGED <<kind, todo, closing>>

\* JS_DupValue of a local, or of a property or variable that is read.
ReadValue(s, r) ==
    /\ Running
    /\ owner[s] = Stack \/ Accessible(Ref, s)
    /\ kind[target[s]] # "var_ref"
    /\ Dup(target[s], r, Stack)
    /\ UNCHANGED <<kind, mark, list, wcount, wkey, wval, pc, todo, closing>>

\* A local becomes a new property of h: the value is moved, not counted again.
AddProperty(s, h) ==
    /\ Running
    /\ owner[s] = Stack
    /\ HeldBy(Ref \ {s}, h)
    /\ owner' = [owner EXCEPT ![s] = h]
    /\ UNCHANGED <<cells, target, pc, todo, closing>>

\* set_value: a local replaces the value in place r of an object or of a
\* closed-over variable; the old value is freed once the new one is stored.
\* weakmap.set() of a key that is there replaces the value of its record: it
\* frees the old value first, but nothing reads the record in between.
SetValue(s, r) ==
    /\ Running
    /\ owner[s] = Stack
    /\ Accessible(Ref \ {s}, r)
    /\ kind[target[r]] # "var_ref"
    /\ owner' = [owner EXCEPT ![s] = owner[r], ![r] = Unused]
    /\ target' = [target EXCEPT ![r] = Nil]
    /\ wval' = [a \in Addr |-> IF wval[a] = r THEN s ELSE wval[a]]
    /\ FreeValues({r})
    /\ UNCHANGED <<kind, wcount, wkey, todo, closing>>

\* JS_FreeValue of a local, or the deletion of a property.
FreeValue(r) ==
    /\ Running
    /\ \/ owner[r] = Stack
       \/ /\ Held(owner[r])
          /\ kind[target[r]] # "var_ref"
          /\ wval[owner[r]] # r
    /\ Clear({r})
    /\ FreeValues({r})
    /\ UNCHANGED <<kind, wcount, wkey, wval, todo, closing>>

\* js_closure2, get_var_ref: the closure f captures a local of its frame.
\* The variable is open: its value stays in the frame.
CaptureVar(f, v, r) ==
    /\ Running
    /\ Held(f) /\ kind[f] = "object"
    /\ NewCell(v, "var_ref", r, f)
    /\ UNCHANGED <<wcount, wkey, wval, pc, todo, closing>>

\* js_closure2: another closure captures the same variable.
ShareVar(f, v, r) ==
    /\ Running
    /\ Held(f) /\ kind[f] = "object"
    /\ kind[v] = "var_ref"
    /\ Dup(v, r, f)
    /\ UNCHANGED <<kind, mark, list, wcount, wkey, wval, pc, todo, closing>>

\* close_var_refs, close_lexical_var: the frame ends, and the variable keeps
\* its own reference to the value of local s.
CloseVar(v, s, r) ==
    /\ Running
    /\ kind[v] = "var_ref" /\ Own(v) = {}
    /\ owner[s] = Stack
    /\ Dup(target[s], r, v)
    /\ UNCHANGED <<kind, mark, list, wcount, wkey, wval, pc, todo, closing>>

\* JS_RunGC, called by the program or by js_trigger_gc.
RunGC ==
    /\ Running
    /\ pc' = "weak"
    /\ todo' = weakref_list
    /\ UNCHANGED <<cells, refs, closing>>

\* JS_FreeRuntime, once the embedder has freed its values and contexts: the
\* collector runs without its pass over the weak references.
FreeRuntime ==
    /\ Running
    /\ Own(Stack) = {}
    /\ closing' = TRUE
    /\ pc' = "decref"
    /\ todo' = On("gc")
    /\ UNCHANGED <<cells, refs>>

\* JS_NewRuntime after JS_FreeRuntime: a new activity of the application.
NewRuntime ==
    /\ pc = "dead"
    /\ pc' = "run"
    /\ closing' = FALSE
    /\ UNCHANGED <<cells, refs, todo>>

-----------------------------------------------------------------------------
(***************************************************************************)
(* free_zero_refcount                                                      *)
(***************************************************************************)

\* An object whose count is zero is freed; what dies with it joins the list.
FreeZeroStep(p) ==
    /\ pc \in {"free_zero", "weak_free"}
    /\ list[p] = "zero"
    /\ FreeObject(p)
    /\ UNCHANGED <<pc, todo, closing>>

\* Mutant of FreeZeroDone: what died may be a key, so the weak references are
\* looked at again, without asking whether anything died.
FreeZeroAgain ==
    /\ pc \in {"free_zero", "weak_free"}
    /\ On("zero") = {}
    /\ pc' = IF pc = "free_zero" THEN "run" ELSE "weak"
    /\ todo' = IF pc = "free_zero" THEN {} ELSE weakref_list
    /\ UNCHANGED <<cells, refs, closing>>

\* The list is empty: back to the program, or on to the cycle collector.
FreeZeroDone ==
    /\ pc \in {"free_zero", "weak_free"}
    /\ On("zero") = {}
    /\ pc' = IF pc = "free_zero" THEN "run" ELSE "decref"
    /\ todo' = IF pc = "free_zero" THEN {} ELSE On("gc")
    /\ UNCHANGED <<cells, refs, closing>>

-----------------------------------------------------------------------------
(***************************************************************************)
(* gc_remove_weak_objects                                                  *)
(***************************************************************************)

\* One holder of rt->weakref_list: a record whose key is dead is deleted, its
\* value freed without running the finalizers yet.
WeakStep(w) ==
    /\ pc = "weak"
    /\ w \in todo
    /\ todo' = todo \ {w}
    /\ IF is_live(wkey[w])
       THEN UNCHANGED <<cells, refs, pc, closing>>
       ELSE LET k == wkey[w]
                R == RecordValue(w)
                F == IF KeyFreed(k, {}) THEN {k} ELSE {}
            IN /\ Clear(R)
               /\ rc' = RcWithout(R)
               /\ wcount' = WithoutWeakRef(k)
               /\ kind' = [a \in Addr |-> IF a \in F THEN "free" ELSE kind[a]]
               /\ mark' = [a \in Addr |-> IF a \in ToZero(R) THEN 1 ELSE mark[a]]
               /\ list' = [a \in Addr |-> IF a \in ToZero(R) THEN "zero" ELSE list[a]]
               /\ wkey' = [wkey EXCEPT ![w] = Nil]
               /\ wval' = [wval EXCEPT ![w] = Nil]
               /\ UNCHANGED <<pc, closing>>

WeakDone ==
    /\ pc = "weak"
    /\ todo = {}
    /\ pc' = "weak_free"
    /\ UNCHANGED <<cells, refs, todo, closing>>

-----------------------------------------------------------------------------
(***************************************************************************)
(* The cycle collector: gc_decref, gc_scan, gc_free_cycles                 *)
(***************************************************************************)

\* Mutant of DecrefStep: the count of p itself is not looked at.
DecrefStepChildren(p) ==
    /\ pc = "decref"
    /\ p \in todo
    /\ todo' = todo \ {p}
    /\ rc' = RcWithout(Own(p))
    /\ mark' = [mark EXCEPT ![p] = 1]
    /\ list' = [a \in Addr |->
                  IF rc'[a] = 0 /\ Edges(Own(p), a) > 0 /\ mark[a] = 1
                  THEN "tmp" ELSE list[a]]
    /\ UNCHANGED <<kind, wcount, wkey, wval, refs, pc, closing>>

\* gc_decref visits p: its children lose the references it holds.  A visited
\* object whose count is zero waits on tmp_obj_list.
DecrefStep(p) ==
    /\ pc = "decref"
    /\ p \in todo
    /\ todo' = todo \ {p}
    /\ rc' = RcWithout(Own(p))
    /\ mark' = [mark EXCEPT ![p] = 1]
    /\ list' = [a \in Addr |->
                  IF /\ rc'[a] = 0
                     /\ a = p \/ (Edges(Own(p), a) > 0 /\ mark[a] = 1)
                  THEN "tmp" ELSE list[a]]
    /\ UNCHANGED <<kind, wcount, wkey, wval, refs, pc, closing>>

DecrefDone ==
    /\ pc = "decref"
    /\ todo = {}
    /\ pc' = "scan"
    /\ todo' = On("gc")
    /\ UNCHANGED <<cells, refs, closing>>

\* Mutants of ScanStep: the children are not visited in turn; the mark of p
\* stays for the next collection.
ScanStepShallow(p) ==
    LET Revived == {a \in Addr : Edges(Own(p), a) > 0 /\ rc[a] = 0} IN
    /\ pc = "scan"
    /\ p \in todo
    /\ todo' = todo \ {p}
    /\ rc' = [a \in Addr |-> rc[a] + Edges(Own(p), a)]
    /\ mark' = [a \in Addr |-> IF a \in Revived \cup {p} THEN 0 ELSE mark[a]]
    /\ list' = [a \in Addr |-> IF a \in Revived THEN "gc" ELSE list[a]]
    /\ UNCHANGED <<kind, wcount, wkey, wval, refs, pc, closing>>

ScanStepMarked(p) ==
    LET Revived == {a \in Addr : Edges(Own(p), a) > 0 /\ rc[a] = 0} IN
    /\ pc = "scan"
    /\ p \in todo
    /\ todo' = (todo \ {p}) \cup Revived
    /\ rc' = [a \in Addr |-> rc[a] + Edges(Own(p), a)]
    /\ list' = [a \in Addr |-> IF a \in Revived THEN "gc" ELSE list[a]]
    /\ UNCHANGED <<kind, mark, wcount, wkey, wval, refs, pc, closing>>

\* gc_scan visits p, which is in use: so are its children, which return to
\* the object list behind the ones still to visit.
ScanStep(p) ==
    LET Revived == {a \in Addr : Edges(Own(p), a) > 0 /\ rc[a] = 0} IN
    /\ pc = "scan"
    /\ p \in todo
    /\ todo' = (todo \ {p}) \cup Revived
    /\ rc' = [a \in Addr |-> rc[a] + Edges(Own(p), a)]
    /\ mark' = [a \in Addr |-> IF a \in Revived \cup {p} THEN 0 ELSE mark[a]]
    /\ list' = [a \in Addr |-> IF a \in Revived THEN "gc" ELSE list[a]]
    /\ UNCHANGED <<kind, wcount, wkey, wval, refs, pc, closing>>

\* Mutant of ScanDone: the second loop is missing.
ScanDoneUnrestored ==
    /\ pc = "scan"
    /\ todo = {}
    /\ pc' = "free_cycles"
    /\ UNCHANGED <<cells, refs, todo, closing>>

\* The second loop of gc_scan: what stays on tmp_obj_list will be freed and
\* gets the counts of its children back.
ScanDone ==
    /\ pc = "scan"
    /\ todo = {}
    /\ rc' = [a \in Addr |->
                rc[a] + Edges({r \in Ref : owner[r] \in On("tmp")}, a)]
    /\ pc' = "free_cycles"
    /\ UNCHANGED <<kind, mark, list, wcount, wkey, wval, refs, todo, closing>>

\* gc_free_cycles visits p: variables are only moved, the objects that own
\* them free them.
FreeCycleStep(p) ==
    /\ pc = "free_cycles"
    /\ list[p] = "tmp"
    /\ IF kind[p] = "var_ref"
       THEN /\ list' = [list EXCEPT ![p] = "zero"]
            /\ UNCHANGED <<kind, rc, mark, wcount, wkey, wval, refs>>
       ELSE FreeObject(p)
    /\ UNCHANGED <<pc, todo, closing>>

FreeCyclesDone ==
    /\ pc = "free_cycles"
    /\ On("tmp") = {}
    /\ pc' = "sweep"
    /\ UNCHANGED <<cells, refs, todo, closing>>

\* The structures kept during the loop are freed, but for those that weak
\* references still point to.
Sweep ==
    LET F == {a \in On("zero") : wcount[a] = 0} IN
    /\ pc = "sweep"
    /\ kind' = [a \in Addr |-> IF a \in F THEN "free" ELSE kind[a]]
    /\ mark' = [a \in Addr |-> IF a \in On("zero") THEN 0 ELSE mark[a]]
    /\ list' = [a \in Addr |-> IF a \in On("zero") THEN "none" ELSE list[a]]
    /\ pc' = IF closing THEN "dead" ELSE "run"
    /\ UNCHANGED <<rc, wcount, wkey, wval, refs, todo, closing>>

-----------------------------------------------------------------------------
Program ==
    \/ \E a \in Addr, r \in Ref :
          \/ \E k \in {"object", "weakmap"} : NewObject(a, k, r)
          \/ \E key \in Addr : NewWeakRef(a, r, key)
          \/ Deref(a, r)
          \/ \E key, c \in Addr : MapSet(a, key, c, r)
          \/ \E v \in Addr : CaptureVar(a, v, r) \/ ShareVar(a, v, r)
          \/ \E s \in Ref : CloseVar(a, s, r)
    \/ \E s \in Ref :
          \/ \E r \in Ref : ReadValue(s, r) \/ SetValue(s, r)
          \/ \E h \in Addr : AddProperty(s, h)
          \/ FreeValue(s)
    \/ \E w \in Addr : MapDelete(w)
    \/ RunGC \/ FreeRuntime \/ NewRuntime

Collector ==
    \/ \E p \in Addr :
          \/ FreeZeroStep(p) \/ WeakStep(p)
          \/ DecrefStep(p) \/ ScanStep(p) \/ FreeCycleStep(p)
    \/ FreeZeroDone \/ WeakDone
    \/ DecrefDone \/ ScanDone \/ FreeCyclesDone \/ Sweep

Next == Program \/ Collector

\* The loops of the engine run without waiting for anything.
Spec == Init /\ [][Next]_vars /\ WF_vars(Collector)

-----------------------------------------------------------------------------
(***************************************************************************)
(* What the heap guarantees                                                *)
(***************************************************************************)

\* The cells whose references the collector has taken out of the counts for
\* the time being: the ones gc_decref has visited, then the ones gc_scan has
\* not put back yet.
Deducted ==
    IF pc = "decref" THEN (On("gc") \cup On("tmp")) \ todo
    ELSE IF pc = "scan" THEN On("tmp") \cup todo
    ELSE {}

\* Every count is exact at every step, also in the middle of the collector's
\* passes, where the references of the deducted cells are missing from it: a
\* reference lost or counted twice frees an object that is in use, or never
\* frees it.
RefCountExact ==
    \A a \in Addr :
        rc[a] = Edges({r \in Ref : owner[r] \notin Deducted}, a)

\* No value the program, or any object that is not itself being thrown away,
\* holds denotes a freed object; a weak reference may denote a dead object
\* but never freed memory.
NoUseAfterFree ==
    /\ \A r \in Ref :
          \/ owner[r] = Unused
          \/ target[r] \in Live
          \/ pc = "free_cycles" /\ owner[r] \in On("tmp") \cup On("zero")
    /\ \A w \in weakref_list : wkey[w] # Nil => kind[wkey[w]] # "free"

\* weakref_count is the number of weak references: the structure of a dead
\* object stays exactly as long as one of them needs it.
WeakCountExact ==
    \A k \in Addr :
        /\ wcount[k] = Cardinality({w \in weakref_list : wkey[w] = k})
        /\ kind[k] = "zombie" /\ list[k] = "none" => wcount[k] > 0

\* The assertions of the collector: gc_decref finds every mark reset by the
\* previous collection, gc_scan keeps only objects in use, the lists of
\* objects to free hold none that is referenced, and gc_free_cycles has freed
\* every variable with its closures.
CollectorAsserts ==
    /\ pc = "decref" => \A a \in todo : mark[a] = 0 /\ list[a] = "gc"
    /\ pc = "scan" => \A a \in todo : rc[a] > 0
    /\ pc \in {"free_zero", "weak_free"} => \A a \in On("zero") : rc[a] = 0
    /\ pc = "sweep" => \A a \in On("zero") : kind[a] = "zombie" /\ rc[a] = 0

\* No value outside U denotes a member of U.
Closed(U) == \A r \in Ref : target[r] \in U => owner[r] \in U

\* When the collector ends, every object it kept can be reached from a value
\* the program holds: no group of objects survives by its own references.
NoGarbageLeft ==
    pc = "sweep" => \A U \in SUBSET On("gc") : U # {} => ~Closed(U)

\* JS_FreeRuntime: the assertions that the object list and the list of weak
\* references are empty, and the check for leaked memory of DUMP_LEAKS.
RuntimeEmpty ==
    pc = "dead" => \A a \in Addr : kind[a] = "free"

\* An object that died stays dead: no weak reference brings it back, neither
\* during a collection nor after it.
DeadStayDead ==
    [][\A a \in Addr :
         /\ kind[a] = "zombie" => kind'[a] \in {"zombie", "free"}
         /\ kind[a] = "zombie" => rc'[a] <= rc[a]]_vars

\* Every loop of the engine ends: JS_FreeValue, JS_RunGC and JS_FreeRuntime
\* return.
EngineReturns == (pc # "run") ~> (pc \in {"run", "dead"})

-----------------------------------------------------------------------------
(***************************************************************************)
(* Why it holds: the inductive invariant                                   *)
(***************************************************************************)

\* The cells gc_free_cycles is about to free or has freed.
Doomed == On("tmp") \cup On("zero")

\* Who may hold what.
PlacesInv ==
    \A r \in Ref :
        /\ owner[r] = Unused <=> target[r] = Nil
        /\ owner[r] \in Addr => owner[r] \in Live
        /\ target[r] \in Addr =>
              /\ kind[target[r]] # "free"
              /\ kind[target[r]] = "zombie" =>
                    pc = "free_cycles" /\ list[target[r]] = "zero"
              /\ kind[target[r]] = "var_ref" =>
                    owner[r] \in Addr /\ kind[owner[r]] = "object"

RecordsInv ==
    \A w \in Addr :
        wval[w] \in Ref => kind[w] = "weakmap" /\ owner[wval[w]] = w

\* Who may refer to what weakly: a record that has a value has a key.
WeakKeysInv ==
    \A w \in Addr :
        /\ wkey[w] # Nil =>
              w \in weakref_list /\ kind[wkey[w]] \notin {"free", "var_ref"}
        /\ wval[w] # Nil => wkey[w] # Nil

VarsInv ==
    \A v \in Addr : kind[v] = "var_ref" => \E r \in Ref : target[r] = v

\* Which list a cell may be on.
ListsInv ==
    \A a \in Addr :
        /\ kind[a] = "free" => list[a] = "none"
        /\ kind[a] = "zombie" =>
              \/ list[a] = "none"
              \/ list[a] = "zero" /\ pc \in {"free_cycles", "sweep"}
        /\ a \in Live => list[a] # "none"
        /\ list[a] = "tmp" => pc \in {"decref", "scan", "free_cycles"}
        /\ a \in Live /\ list[a] = "zero" =>
              IF kind[a] = "var_ref" THEN pc = "free_cycles"
              ELSE pc \in {"free_zero", "weak", "weak_free"}

\* What the count and the mark of a cell say on each list.
CountsInv ==
    \A a \in Addr :
        /\ list[a] = "gc" =>
              /\ rc[a] > 0 \/ (pc = "decref" /\ a \in todo)
              /\ pc = "decref" /\ a \in todo => mark[a] = 0
              /\ pc = "decref" /\ a \notin todo => mark[a] = 1
              /\ mark[a] = 0 \/ pc = "decref" \/ (pc = "scan" /\ a \in todo)
        /\ list[a] = "zero" =>
              mark[a] = 1 /\ (pc # "free_cycles" => rc[a] = 0)
        /\ list[a] = "tmp" =>
              mark[a] = 1 /\ (pc # "free_cycles" => rc[a] = 0)
        /\ list[a] = "none" => mark[a] = 0 /\ rc[a] = 0

TodoInv ==
    /\ pc \in {"decref", "scan"} => todo \subseteq On("gc")
    /\ pc \notin {"weak", "decref", "scan"} => todo = {}

\* The cells being freed are known only to each other; a cell that is kept
\* is known to one that is kept, or to the program.
CyclesInv ==
    pc = "free_cycles" =>
        /\ \A r \in Ref : target[r] \in Doomed => owner[r] \in Doomed
        /\ \A a \in On("gc") :
              \E r \in Ref : target[r] = a /\ owner[r] \notin Doomed

\* The inductive invariant: the counts are exact, and each loop of the engine
\* keeps its lists, counts and marks in the state the next one relies on.
HeapInv ==
    /\ RefCountExact
    /\ WeakCountExact
    /\ PlacesInv
    /\ RecordsInv
    /\ WeakKeysInv
    /\ VarsInv
    /\ ListsInv
    /\ CountsInv
    /\ TodoInv
    /\ CyclesInv

\* The refinement: the cells that are neither free nor dead are the objects
\* of ObjectGraph.
Graph == INSTANCE ObjectGraph WITH live <- Live

\* The mechanism implements the promise: the engine takes back only objects
\* that nothing in use refers to.
GraphSpec == Graph!Spec

=============================================================================
