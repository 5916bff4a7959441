---------------------------- MODULE MapIterators ----------------------------
(***************************************************************************)
(* A Map or Set of quickjs.c with its iterators and calls of forEach:      *)
(* records on a list, which iterators lock with a reference, so that a     *)
(* record that is deleted stays on the list, empty, until the last of them *)
(* has moved on.  The values of the map may be its iterators.              *)
(*                                                                         *)
(* A record is a number, never used twice.  New ones come to the end of    *)
(* the list and none moves, so the list is the set of its records, in      *)
(* their order; memory is freed when a record leaves it.  Finalizers run   *)
(* inside of the call that drops the last reference of an object, so the   *)
(* map is passed through them as one record of the variables they change.  *)
(***************************************************************************)
EXTENDS Integers, Sequences, FiniteSets

CONSTANTS
    Keys,
    Iters,      \* map iterator objects
    Values,     \* iterators that may be values of the map
    MaxRecords, \* bound: records made
    MaxCalls,   \* bound: calls of forEach inside of each other
    None        \* no record, a value that is not an iterator, no clear

ASSUME MapAssumption ==
    /\ IsFiniteSet(Iters) /\ Values \subseteq Iters /\ None \notin Iters \cup Keys
    /\ MaxRecords \in Nat /\ None \notin 0..MaxRecords

VARIABLES
    map,       \* what finalizers change: see Map
    next,      \* the next record
    key,       \* mr->key of every record that was made
    table,     \* the records in s->hash_table
    held,      \* iterators that the script holds
    mapHeld,   \* the script holds the map
    clearing   \* el of js_map_clear: a record, 0 for the end of the list

mapvars == <<map, next, key, table, held, mapHeld, clearing>>

Records == 1..MaxRecords

\* records: s->records.  refs, empty, value: of each record.  state, cur: of
\* each iterator, it->cur_record.  live: the map is not freed.  calls: the
\* locked record and the value of each call of forEach.  fault: freed memory
\* was read.
Map ==
    [records : SUBSET Records, refs : [Records -> Nat], empty : [Records -> BOOLEAN],
     value : [Records -> Values \cup {None}],
     state : [Iters -> {"unused", "live", "done", "dead"}],
     cur : [Iters -> Records \cup {None}], live : BOOLEAN,
     calls : Seq([record : Records, value : Values \cup {None}]), fault : BOOLEAN]

MapTypeOK ==
    /\ map \in Map
    /\ next \in 1..MaxRecords + 1
    /\ key \in Seq(Keys) /\ Len(key) = next - 1
    /\ table \subseteq Records
    /\ held \subseteq Iters /\ \A i \in held : map.state[i] \in {"live", "done"}
    /\ mapHeld \in BOOLEAN
    /\ clearing \in {None, 0} \cup Records

MapInit ==
    /\ map = [records |-> {}, refs |-> [r \in Records |-> 0],
              empty |-> [r \in Records |-> FALSE], value |-> [r \in Records |-> None],
              state |-> [i \in Iters |-> "unused"], cur |-> [i \in Iters |-> None],
              live |-> TRUE, calls |-> <<>>, fault |-> FALSE]
    /\ next = 1 /\ key = <<>> /\ table = {}
    /\ held = {} /\ mapHeld = TRUE
    /\ clearing = None

\* The records of a list after r, and the first of records.
After(list, r) == {q \in list : q > r}
First(list) == CHOOSE r \in list : \A q \in list : r <= q

-----------------------------------------------------------------------------
(***************************************************************************)
(* Freeing                                                                 *)
(***************************************************************************)

\* map_decref_record
Decref(s, r) ==
    IF r \notin s.records THEN [s EXCEPT !.fault = TRUE]
    ELSE IF s.refs[r] > 1 THEN [s EXCEPT !.refs[r] = @ - 1]
    ELSE [s EXCEPT !.refs[r] = 0, !.records = @ \ {r},
                   !.fault = @ \/ ~s.empty[r]]

\* The script, a call of forEach or an iterator that is not done has the map.
Reached(s, held_by_script) ==
    held_by_script \/ s.calls # <<>> \/ \E i \in Iters : s.state[i] = "live"

\* js_map_finalizer; the iterators among its values are done.
FreeMap(s) ==
    [s EXCEPT !.live = FALSE, !.records = {},
              !.value = [r \in Records |-> None], !.refs = [r \in Records |-> 0]]

\* References of iterator i beside those of the script.
ValueRefs(s, i) ==
    Cardinality({r \in s.records : s.value[r] = i})
    + Cardinality({c \in DOMAIN s.calls : s.calls[c].value = i})

\* js_map_iterator_finalizer; there is nothing to do for one that is done.
Finalize(s, i) ==
    IF s.state[i] = "done" THEN s
    ELSE LET t == IF s.live /\ s.cur[i] # None THEN Decref(s, s.cur[i]) ELSE s
         IN [t EXCEPT !.state[i] = "dead"]

\* JS_FreeValue of a reference to v that is already gone from s.
FreeValue(s, v) ==
    IF v = None \/ v \in held \/ ValueRefs(s, v) > 0 THEN s
    ELSE LET t == Finalize(s, v)
         IN IF t.live /\ ~Reached(t, mapHeld) THEN FreeMap(t) ELSE t

\* Mutant of DeleteInternal: the record goes although it is locked.
DeleteInternalLocked(s, r) ==
    IF s.empty[r] THEN s
    ELSE LET t == FreeValue([s EXCEPT !.value[r] = None], s.value[r])
         IN [t EXCEPT !.refs[r] = 0, !.records = @ \ {r}]

\* map_delete_record_internal
DeleteInternal(s, r) ==
    IF s.empty[r] THEN s
    ELSE LET t == FreeValue([s EXCEPT !.value[r] = None], s.value[r])
         IN IF t.refs[r] = 1
            THEN [t EXCEPT !.refs[r] = 0, !.records = @ \ {r}]
            ELSE [t EXCEPT !.refs[r] = @ - 1, !.empty[r] = TRUE]

-----------------------------------------------------------------------------
(***************************************************************************)
(* The map                                                                 *)
(***************************************************************************)

Running == clearing = None /\ ~map.fault
Usable == Running /\ mapHeld

\* map_find_record
Found(k) == {r \in table : key[r] = k}

\* js_map_set: the old value is freed before the new one is there.
SetValue(k, v) ==
    /\ Usable
    /\ v = None \/ v \in held \cap Values
    /\ \E r \in Found(k) :
          map' = [FreeValue([map EXCEPT !.value[r] = None], map.value[r]) EXCEPT !.value[r] = v]
    /\ UNCHANGED <<next, key, table, held, mapHeld, clearing>>

\* map_add_record
AddRecord(k, v) ==
    /\ Usable /\ Found(k) = {}
    /\ v = None \/ v \in held \cap Values
    /\ next <= MaxRecords
    /\ map' = [map EXCEPT !.records = @ \cup {next}, !.refs[next] = 1, !.value[next] = v]
    /\ next' = next + 1
    /\ key' = Append(key, k)
    /\ table' = table \cup {next}
    /\ UNCHANGED <<held, mapHeld, clearing>>

\* map_delete_record
Delete(k) ==
    /\ Usable
    /\ \E r \in Found(k) :
          /\ table' = table \ {r}
          /\ map' = DeleteInternal(map, r)
    /\ UNCHANGED <<next, key, held, mapHeld, clearing>>

\* js_map_clear: the hash table, then one record after the other; the next
\* one is taken from the list before the record is deleted.
ClearStart ==
    /\ Usable
    /\ table' = {}
    /\ clearing' = IF map.records = {} THEN 0 ELSE First(map.records)
    /\ UNCHANGED <<map, next, key, held, mapHeld>>

ClearStep ==
    LET rest == After(map.records, clearing) IN
    /\ clearing \in Records /\ ~map.fault
    /\ IF clearing \in map.records
       THEN /\ map' = DeleteInternal(map, clearing)
            /\ clearing' = IF rest = {} THEN 0 ELSE First(rest)
       ELSE /\ map' = [map EXCEPT !.fault = TRUE]
            /\ UNCHANGED clearing
    /\ UNCHANGED <<next, key, table, held, mapHeld>>

ClearDone ==
    /\ clearing = 0
    /\ clearing' = None
    /\ UNCHANGED <<map, next, key, table, held, mapHeld>>

-----------------------------------------------------------------------------
(***************************************************************************)
(* Iterators and forEach                                                   *)
(***************************************************************************)

NewIterator(i) ==
    /\ Usable /\ map.state[i] = "unused"
    /\ map' = [map EXCEPT !.state[i] = "live"]
    /\ held' = held \cup {i}
    /\ UNCHANGED <<next, key, table, mapHeld, clearing>>

\* The records from el on that are not deleted.
Valid(s, el) == {r \in s.records : r >= el /\ ~s.empty[r]}

Locked(s, r) == [s EXCEPT !.refs[r] = @ + 1]

\* The element of the list after r, whose lock is given up then; the one after
\* the last is beyond all records.
NextElement(s, r) ==
    LET rest == After(s.records, r) IN IF rest = {} THEN MaxRecords + 1 ELSE First(rest)

\* js_map_iterator_next; the end of the list drops the map.
IteratorNext(i) ==
    LET c == map.cur[i]
        el == IF c = None THEN 0 ELSE NextElement(map, c)
        s == IF c = None THEN map ELSE Decref(map, c)
        rest == Valid(s, el)
        t == [s EXCEPT !.state[i] = "done", !.cur[i] = None]
    IN /\ Running /\ i \in held /\ map.state[i] = "live"
       /\ map' = IF rest # {} THEN [Locked(s, First(rest)) EXCEPT !.cur[i] = First(rest)]
                 ELSE IF Reached(t, mapHeld) THEN t ELSE FreeMap(t)
       /\ table' = IF map'.live THEN table ELSE {}
       /\ UNCHANGED <<next, key, held, mapHeld, clearing>>

DropIterator(i) ==
    /\ Running /\ i \in held
    /\ held' = held \ {i}
    /\ map' = IF ValueRefs(map, i) > 0 THEN map
              ELSE LET t == Finalize(map, i)
                   IN IF t.live /\ ~Reached(t, mapHeld) THEN FreeMap(t) ELSE t
    /\ table' = IF map'.live THEN table ELSE {}
    /\ UNCHANGED <<next, key, mapHeld, clearing>>

Call(s, r) == [record |-> r, value |-> s.value[r]]

\* js_map_forEach calls the function with its first record.
ForEach ==
    LET rest == Valid(map, 0) IN
    /\ Usable /\ Len(map.calls) < MaxCalls /\ rest # {}
    /\ map' = [Locked(map, First(rest)) EXCEPT !.calls = Append(@, Call(map, First(rest)))]
    /\ UNCHANGED <<next, key, table, held, mapHeld, clearing>>

Top == map.calls[Len(map.calls)]
Below == SubSeq(map.calls, 1, Len(map.calls) - 1)

Unlock(s, r) == Decref(s, r)

\* The function returns: its arguments are freed, then the next record is
\* taken from the list, then the lock is given up.
Return ==
    LET s == FreeValue([map EXCEPT !.calls[Len(map.calls)].value = None], Top.value)
        el == NextElement(s, Top.record)
        t == Unlock(s, Top.record)
        rest == Valid(t, el)
    IN /\ Running /\ map.calls # <<>>
       /\ map' = [(IF rest = {} THEN t ELSE Locked(t, First(rest))) EXCEPT
                     !.calls = IF rest = {} THEN Below ELSE Append(Below, Call(t, First(rest)))]
       /\ UNCHANGED <<next, key, table, held, mapHeld, clearing>>

\* It throws.
Throw ==
    LET s == FreeValue([map EXCEPT !.calls[Len(map.calls)].value = None], Top.value)
        t == Unlock(s, Top.record)
    IN /\ Running /\ map.calls # <<>>
       /\ map' = [t EXCEPT !.calls = Below]
       /\ UNCHANGED <<next, key, table, held, mapHeld, clearing>>

\* The script drops the map; while a call of forEach runs, it is an argument.
DropMap ==
    /\ Usable /\ map.calls = <<>>
    /\ mapHeld' = FALSE
    /\ map' = IF Reached(map, FALSE) THEN map ELSE FreeMap(map)
    /\ table' = IF map'.live THEN table ELSE {}
    /\ UNCHANGED <<next, key, held, clearing>>

\* The iterators in finalized each give up their record: one that is not there,
\* or goes although it is not deleted, is a fault.
Misses(finalized) ==
    \E r \in Records :
        LET n == Cardinality({i \in finalized : map.cur[i] = r}) IN
        n > 0 /\ (r \notin map.records \/ n > map.refs[r] \/ (n = map.refs[r] /\ ~map.empty[r]))

\* Iterators of the map that only the map references are in a cycle with it:
\* the collector finalizes some before the map, and others after it, which do
\* nothing.
Collect(first) ==
    LET lost == {i \in Iters : map.state[i] = "live"}
    IN /\ Running /\ map.live /\ ~mapHeld /\ map.calls = <<>>
       /\ lost \cap held = {} /\ first \subseteq lost
       /\ map' = [FreeMap(map) EXCEPT !.state = [i \in Iters |-> IF i \in lost THEN "dead" ELSE @[i]],
                                      !.fault = Misses(first)]
       /\ table' = {}
       /\ UNCHANGED <<next, key, held, mapHeld, clearing>>

MapNext ==
    \/ \E k \in Keys : Delete(k) \/ \E v \in Values \cup {None} : SetValue(k, v) \/ AddRecord(k, v)
    \/ ClearStart \/ ClearStep \/ ClearDone
    \/ \E i \in Iters : NewIterator(i) \/ IteratorNext(i) \/ DropIterator(i)
    \/ ForEach \/ Return \/ Throw \/ DropMap
    \/ \E first \in SUBSET Iters : Collect(first)

MapSpec == MapInit /\ [][MapNext]_mapvars

-----------------------------------------------------------------------------
\* A record is on the list as long as the map or a walk needs it, and no
\* longer: its count is the number of iterators and calls that stand on it,
\* and one for the map unless it is deleted.  The hash table has the records
\* that are not deleted, one for each key, except while clear works.  Freed
\* memory is read in a clear only, and only in one that frees an iterator of
\* the map.
RecordsExact ==
    /\ map.live /\ ~map.fault =>
        /\ \A i \in Iters : map.state[i] = "live" /\ map.cur[i] # None => map.cur[i] \in map.records
        /\ \A r \in map.records :
              /\ map.refs[r] = (IF map.empty[r] THEN 0 ELSE 1)
                     + Cardinality({i \in Iters : map.state[i] = "live" /\ map.cur[i] = r})
                     + Cardinality({c \in DOMAIN map.calls : map.calls[c].record = r})
              /\ map.refs[r] > 0
    /\ clearing = None /\ ~map.fault =>
        /\ table = {r \in map.records : ~map.empty[r]}
        /\ \A q, r \in table : key[q] = key[r] => q = r
    /\ map.fault => clearing \in Records /\ \E i \in Values : map.state[i] = "dead"

\* Refuted (quickjs.c:1007, "used during enumeration to avoid freeing the
\* record"): clear takes the next record, a deleted one, before it frees the
\* iterator that keeps it on the list.
NoFreedRecord == ~map.fault

\* Iterators and forEach see the entries of the log.
Log == [r \in 1..next - 1 |-> IF r \in map.records /\ ~map.empty[r] THEN key[r] ELSE None]
Positions ==
    [i \in Iters |-> IF map.state[i] = "done" THEN None
                     ELSE IF map.cur[i] = None THEN 0 ELSE map.cur[i]]
Walks == [c \in DOMAIN map.calls |-> map.calls[c].record]

Promised ==
    INSTANCE OrderedMap WITH log <- Log, pos <- Positions, walks <- Walks,
                             Gap <- None, Ended <- None
Ordered == Promised!Spec
=============================================================================
