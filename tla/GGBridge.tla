------------------------------- MODULE GGBridge -------------------------------
(***************************************************************************)
(* The JNI bridge of GGJS (ggjs.cpp, jsi.cpp, jsi.h, utils.cpp) with its   *)
(* Kotlin side (JSRuntime.kt, JSObjectProxy.kt, JSFunction.kt, JSContext.kt*)
(* and bridge/JSBridge.kt): JS objects and functions that stand for Kotlin *)
(* objects, the maps that find the Kotlin object of a JS pointer, the      *)
(* cache of the functions a getter returned, and who owns the references.  *)
(*                                                                         *)
(* The bridge runs on one thread; what makes it hard is that both sides    *)
(* name objects by address: maps and caches keep addresses whose cell may  *)
(* have been freed, and freed addresses are used again.                    *)
(*                                                                         *)
(* The engine is used through its API: JS_NewObjectClass returns a counted *)
(* reference, JS_DupValue and JS_FreeValue change the count, an object     *)
(* whose count drops to zero is finalized and freed.                       *)
(***************************************************************************)
EXTENDS Integers, FiniteSets

CONSTANTS
    Addr,      \* addresses of JS objects, as jlong in Kotlin
    Names,     \* names of global variables, "print" among them
    Methods,   \* the JSFunctions: what their JavaCallback does
    Proxies,   \* the classes that extend JSObjectProxy
    Bridge,    \* JSBridge: its getter returns a new JSFunction
    BridgeFun, \* that JSFunction
    Nil,       \* JS_NULL, or no entry in a map
    MaxRefs,   \* bound: references of one kind to one object
    MaxJava,   \* bound: references Kotlin takes to one object
    MaxLeaks   \* bound: calls of setGlobalFun

ASSUME BridgeAssumption ==
    /\ "print" \in Names /\ IsFiniteSet(Names)
    /\ Bridge \in Proxies /\ BridgeFun \in Methods
    /\ Nil \notin Addr \cup Methods \cup Proxies
    /\ "native" \notin Methods \cup Proxies
    /\ MaxRefs \in Nat \ {0} /\ MaxJava \in Nat /\ MaxLeaks \in Nat

VARIABLES
    phase,             \* a GGRuntime exists: "up", or not: "down"
    heap,              \* heap[a]: the JS object at address a
    script,            \* script[a]: references held by the running script
    global,            \* global[n]: the object global variable n denotes
    globalLeak,        \* references to the global object never freed
    java,              \* java[a]: references Kotlin took with addRefCount
    objFunctionCache,  \* GGRuntime::objFunctionCache
    trackProxyMap,     \* JSRuntime.trackProxyMap
    trackMethodMap,    \* JSRuntime.trackMethodMap
    hit,               \* a getter was answered from functionCache
    fault              \* what went wrong; nothing is modelled after that

jsvars == <<script, global, globalLeak, java>>
maps == <<trackProxyMap, trackMethodMap>>
vars == <<phase, heap, jsvars, objFunctionCache, maps, hit, fault>>

Classes == {"free", "JSIObject", "JSIFunction", "object", "closure"}

\* made is the Kotlin object the cell was created for, "native" if it was made
\* by C++ or by the script; call is functionCache["call"] of a JSIObject;
\* leaked counts the references evalCode took and nobody will free.
Cell == [class : Classes, rc : Nat, made : Methods \cup Proxies \cup {"native"},
         call : Addr \cup {Nil}, leaked : 0..MaxRefs]

TypeOK ==
    /\ phase \in {"down", "up"}
    /\ heap \in [Addr -> Cell]
    /\ script \in [Addr -> 0..MaxRefs]
    /\ global \in [Names -> Addr \cup {Nil}]
    /\ globalLeak \in 0..MaxLeaks
    /\ java \in [Addr -> 0..MaxJava]
    /\ objFunctionCache \in SUBSET Addr
    /\ trackProxyMap \in [Addr -> Proxies \cup {Nil}]
    /\ trackMethodMap \in [Addr -> Methods \cup {Nil}]
    /\ hit \in BOOLEAN
    /\ fault \in {"none", "dangling", "conversion", "assert"}

-----------------------------------------------------------------------------
(***************************************************************************)
(* The engine's API                                                        *)
(***************************************************************************)

FreeCell == [class |-> "free", rc |-> 0, made |-> "native", call |-> Nil,
             leaked |-> 0]

NewCell(c, who) == [class |-> c, rc |-> 1, made |-> who, call |-> Nil,
                    leaked |-> 0]

Free(a) == heap[a].class = "free"

\* Mutant of JS_IsFunction: any object will do.
JS_IsObject(a) == ~Free(a)

JS_IsFunction(a) == heap[a].class \in {"JSIFunction", "closure"}

\* Mutant of JS_DupValue: the copy is not counted.
JS_NoDup(h, a) == h

JS_DupValue(h, a) == [h EXCEPT ![a].rc = @ + 1]

\* The finalizers delete the JSIObject, with its functionCache, and the
\* JSCallback; they leave the maps of the Kotlin side as they are.
JS_FreeValue(h, a) ==
    IF a = Nil THEN h
    ELSE IF h[a].rc = 1 THEN [h EXCEPT ![a] = FreeCell]
    ELSE [h EXCEPT ![a].rc = @ - 1]

NamesOf(a) == {n \in Names : global[n] = a}

\* The references to a that the script, global variables and Kotlin may use.
Users(a) == script[a] + Cardinality(NamesOf(a)) + java[a]

Owners(a) == Users(a) + heap[a].leaked

Dangling == \E a \in Addr : Free(a) /\ Users(a) > 0

\* A freed object somebody still refers to is a fault: a later use of the
\* reference is undefined.
Watch == fault' = IF Dangling' THEN "dangling" ELSE "none"

Running == phase = "up" /\ fault = "none"

-----------------------------------------------------------------------------
(***************************************************************************)
(* Kotlin                                                                  *)
(***************************************************************************)

Init ==
    /\ phase = "down"
    /\ heap = [a \in Addr |-> FreeCell]
    /\ script = [a \in Addr |-> 0]
    /\ global = [n \in Names |-> Nil]
    /\ globalLeak = 0
    /\ java = [a \in Addr |-> 0]
    /\ objFunctionCache = {}
    /\ trackProxyMap = [a \in Addr |-> Nil]
    /\ trackMethodMap = [a \in Addr |-> Nil]
    /\ hit = FALSE
    /\ fault = "none"

\* JSRuntime().initRuntime(): GGRuntime::init registers the function print.
\* A new JSRuntime has empty maps.
InitRuntime(a) ==
    /\ phase = "down"
    /\ fault = "none"
    /\ phase' = "up"
    /\ heap' = [heap EXCEPT ![a] = NewCell("JSIFunction", "native")]
    /\ global' = [global EXCEPT !["print"] = a]
    /\ objFunctionCache' = {}
    /\ trackProxyMap' = [x \in Addr |-> Nil]
    /\ trackMethodMap' = [x \in Addr |-> Nil]
    /\ hit' = FALSE
    /\ UNCHANGED <<script, globalLeak, java, fault>>

\* Mutant of SetGlobalProperty: JS_SetPropertyStr is taken for a function that
\* leaves the caller its reference.
SetGlobalPropertyFree(h, n, a) ==
    /\ heap' = JS_FreeValue(JS_FreeValue(h, global[n]), a)
    /\ global' = [global EXCEPT ![n] = a]

\* nativeSetGlobalFun, nativeSetGlobalObj: global variable n takes over the
\* reference to the object at a; h is the heap in which that object exists.
SetGlobalProperty(h, n, a) ==
    /\ heap' = JS_FreeValue(h, global[n])
    /\ global' = [global EXCEPT ![n] = a]

\* Mutant of CreateJSFunction: an entry that is there is kept.
PutFunctionIfAbsent(m, a) ==
    /\ Free(a)
    /\ trackMethodMap' = [trackMethodMap EXCEPT ![a] = IF @ = Nil THEN m ELSE @]
    /\ UNCHANGED trackProxyMap

\* JSRuntime.createJSFunction
CreateJSFunction(m, a) ==
    /\ Free(a)
    /\ trackMethodMap' = [trackMethodMap EXCEPT ![a] = m]
    /\ UNCHANGED trackProxyMap

\* Mutant of CreateJSObject: an entry that is there is kept.
PutObjectIfAbsent(o, a) ==
    /\ Free(a)
    /\ trackProxyMap' = [trackProxyMap EXCEPT ![a] = IF @ = Nil THEN o ELSE @]
    /\ UNCHANGED trackMethodMap

\* JSRuntime.createJSObject
CreateJSObject(o, a) ==
    /\ Free(a)
    /\ trackProxyMap' = [trackProxyMap EXCEPT ![a] = o]
    /\ UNCHANGED trackMethodMap

\* setGlobalFun(n, JSFunction(m).ptr): the reference to the global object that
\* nativeSetGlobalFun takes is never freed.
SetGlobalFun(n, m, a) ==
    /\ Running
    /\ globalLeak < MaxLeaks
    /\ CreateJSFunction(m, a)
    /\ SetGlobalProperty([heap EXCEPT ![a] = NewCell("JSIFunction", m)], n, a)
    /\ globalLeak' = globalLeak + 1
    /\ UNCHANGED <<phase, script, java, objFunctionCache, hit>>
    /\ Watch

\* setGlobalObj(n, o.ptr)
SetGlobalObj(n, o, a) ==
    /\ Running
    /\ CreateJSObject(o, a)
    /\ SetGlobalProperty([heap EXCEPT ![a] = NewCell("JSIObject", o)], n, a)
    /\ UNCHANGED <<phase, script, globalLeak, java, objFunctionCache, hit>>
    /\ Watch

\* JSObjectProxy.addRefCount of the Kotlin object behind a, and its
\* releaseRefCount; Kotlin calls them in pairs, while the JS object exists.
AddRefCount(a) ==
    /\ Running
    /\ ~Free(a) /\ heap[a].made # "native"
    /\ java[a] < MaxJava
    /\ java' = [java EXCEPT ![a] = @ + 1]
    /\ heap' = JS_DupValue(heap, a)
    /\ UNCHANGED <<phase, script, global, globalLeak, objFunctionCache, maps, hit, fault>>

ReleaseRefCount(a) ==
    /\ Running
    /\ java[a] > 0
    /\ java' = [java EXCEPT ![a] = @ - 1]
    /\ heap' = JS_FreeValue(heap, a)
    /\ UNCHANGED <<phase, script, global, globalLeak, objFunctionCache, maps, hit>>
    /\ Watch

-----------------------------------------------------------------------------
(***************************************************************************)
(* The script that evalCode runs                                           *)
(***************************************************************************)

\* The script allocates an object or a closure.
NewObject(a, c) ==
    /\ Running
    /\ Free(a) /\ c \in {"object", "closure"}
    /\ heap' = [heap EXCEPT ![a] = NewCell(c, "native")]
    /\ script' = [script EXCEPT ![a] = 1]
    /\ UNCHANGED <<phase, global, globalLeak, java, objFunctionCache, maps, hit, fault>>

\* The script reads global variable n.
ReadGlobal(n) ==
    LET a == global[n] IN
    /\ Running
    /\ a # Nil /\ script[a] < MaxRefs
    /\ script' = [script EXCEPT ![a] = @ + 1]
    /\ heap' = JS_DupValue(heap, a)
    /\ UNCHANGED <<phase, global, globalLeak, java, objFunctionCache, maps, hit, fault>>

\* The script assigns an object it holds, or a number, to global variable n.
WriteGlobal(n, a) ==
    /\ Running
    /\ a # Nil => script[a] > 0
    /\ SetGlobalProperty(heap, n, a)
    /\ script' = [x \in Addr |-> IF x = a THEN script[x] - 1 ELSE script[x]]
    /\ UNCHANGED <<phase, globalLeak, java, objFunctionCache, maps, hit>>
    /\ Watch

\* The script drops a reference.
Drop(a) ==
    /\ Running
    /\ script[a] > 0
    /\ script' = [script EXCEPT ![a] = @ - 1]
    /\ heap' = JS_FreeValue(heap, a)
    /\ UNCHANGED <<phase, global, globalLeak, java, objFunctionCache, maps, hit>>
    /\ Watch

\* print(...): the result is a new JSIObject without a Kotlin object.
CallPrint(f, a) ==
    /\ Running
    /\ script[f] > 0
    /\ heap[f].class = "JSIFunction" /\ heap[f].made = "native"
    /\ Free(a)
    /\ heap' = [heap EXCEPT ![a] = NewCell("JSIObject", "native")]
    /\ script' = [script EXCEPT ![a] = 1]
    /\ UNCHANGED <<phase, global, globalLeak, java, objFunctionCache, maps, hit, fault>>

\* JSIObject::get, functionCache holds a function: it is returned as it is.
GetCached(p) ==
    LET f == heap[p].call IN
    /\ Running
    /\ script[p] > 0 /\ heap[p].class = "JSIObject"
    /\ f # Nil /\ JS_IsFunction(f) /\ script[f] < MaxRefs
    /\ script' = [script EXCEPT ![f] = @ + 1]
    /\ hit' = TRUE
    /\ UNCHANGED <<phase, heap, global, globalLeak, java, objFunctionCache, maps, fault>>

\* JSIObject::get, functionCache holds the address of a freed function:
\* JS_IsFunction reads freed memory.
GetFreed(p) ==
    LET f == heap[p].call IN
    /\ Running
    /\ script[p] > 0 /\ heap[p].class = "JSIObject"
    /\ f # Nil /\ Free(f)
    /\ fault' = "dangling"
    /\ UNCHANGED <<phase, heap, jsvars, objFunctionCache, maps, hit>>

\* JSIObject::get, nothing useful in functionCache: the getter of JSBridge
\* makes a new JSFunction, and the reference taken for the caches is theirs.
\* Other getters return no object.
GetNew(p, a) ==
    /\ Running
    /\ script[p] > 0 /\ heap[p].class = "JSIObject"
    /\ heap[p].call # Nil =>
          ~Free(heap[p].call) /\ ~JS_IsFunction(heap[p].call)
    /\ trackProxyMap[p] = Bridge
    /\ CreateJSFunction(BridgeFun, a)
    /\ heap' = [JS_DupValue([heap EXCEPT ![a] = NewCell("JSIFunction", BridgeFun)], a)
                   EXCEPT ![p].call = a]
    /\ script' = [script EXCEPT ![a] = 1]
    /\ objFunctionCache' = objFunctionCache \cup {a}
    /\ UNCHANGED <<phase, global, globalLeak, java, hit, fault>>

\* toJavaObject of an object that trackProxyMap does not know (a function, a
\* plain object, the result of print): the variable result is never assigned,
\* or assigned by a method of another class.
ConvertOther(x) ==
    /\ Running
    /\ trackProxyMap[x] = Nil
    /\ fault' = "conversion"
    /\ UNCHANGED <<phase, heap, jsvars, objFunctionCache, maps, hit>>

\* A script passes object x to Kotlin: an argument of a JSFunction, or the
\* value of a property of a JSIObject.  A known proxy changes nothing.
PassObject(x) ==
    /\ script[x] > 0
    /\ \E c \in Addr : script[c] > 0 /\ (heap[c].class = "JSIObject" \/ heap[c].made \in Methods)
    /\ ConvertOther(x)

\* The script ends with object x as its result; nativeEvalCode converts it
\* and never frees it.
EvalResult(x) ==
    /\ Running
    /\ script[x] > 0 /\ heap[x].leaked < MaxRefs
    /\ IF trackProxyMap[x] = Nil
       THEN ConvertOther(x)
       ELSE /\ script' = [script EXCEPT ![x] = @ - 1]
            /\ heap' = [heap EXCEPT ![x].leaked = @ + 1]
            /\ UNCHANGED <<phase, global, globalLeak, java, objFunctionCache, maps,
                           hit, fault>>

-----------------------------------------------------------------------------
(***************************************************************************)
(* nativeDestroy                                                           *)
(***************************************************************************)

\* Mutant of CountLeft: destroy forgets the function cache.
CountLeftCached(a) == heap[a].rc - Cardinality(NamesOf(a))

\* The count of a once objFunctionCache and the global variables are freed.
CountLeft(a) ==
    heap[a].rc - Cardinality(NamesOf(a))
        - (IF a \in objFunctionCache /\ JS_IsFunction(a) THEN 1 ELSE 0)

\* GGRuntime::destroy, between two scripts: the cached functions are freed,
\* then the context with the global object, then the runtime, which asserts
\* that no object is left.  JSRuntime.destroy clears trackProxyMap only.
Destroy ==
    /\ Running
    /\ \A a \in Addr : script[a] = 0
    /\ fault' = IF \/ \E a \in objFunctionCache : Free(a)
                   \/ \E a \in Addr : CountLeft(a) < 0
                THEN "dangling"
                ELSE IF globalLeak > 0 \/ \E a \in Addr : CountLeft(a) > 0
                THEN "assert"
                ELSE "none"
    /\ IF fault' = "none"
       THEN /\ phase' = "down"
            /\ heap' = [a \in Addr |-> FreeCell]
            /\ global' = [n \in Names |-> Nil]
            /\ java' = [a \in Addr |-> 0]
            /\ trackProxyMap' = [a \in Addr |-> Nil]
            /\ UNCHANGED <<script, globalLeak, objFunctionCache,
                           trackMethodMap, hit>>
       ELSE UNCHANGED <<phase, heap, jsvars, objFunctionCache, maps, hit>>

-----------------------------------------------------------------------------
Kotlin ==
    \/ \E a \in Addr :
          \/ InitRuntime(a)
          \/ \E n \in Names :
                \/ \E m \in Methods : SetGlobalFun(n, m, a)
                \/ \E o \in Proxies : SetGlobalObj(n, o, a)
          \/ AddRefCount(a) \/ ReleaseRefCount(a)
    \/ Destroy

Script ==
    \/ \E a \in Addr :
          \/ \E c \in {"object", "closure"} : NewObject(a, c)
          \/ \E f \in Addr : CallPrint(f, a) \/ GetNew(f, a)
          \/ Drop(a) \/ GetCached(a) \/ GetFreed(a) \/ PassObject(a) \/ EvalResult(a)
    \/ \E n \in Names :
          ReadGlobal(n) \/ \E a \in Addr \cup {Nil} : WriteGlobal(n, a)

Next == Kotlin \/ Script

Spec == Init /\ [][Next]_vars

-----------------------------------------------------------------------------
(***************************************************************************)
(* What the bridge guarantees                                              *)
(***************************************************************************)

\* As long as no getter is answered from functionCache, every count is the
\* number of references: those of scripts, global variables, Kotlin and the
\* function cache, and the ones evalCode leaks.
ExactUntilHit ==
    Running /\ ~hit =>
        \A a \in Addr :
            heap[a].rc = Owners(a) + (IF a \in objFunctionCache THEN 1 ELSE 0)

\* The function cache is the only way to a freed object: no sequence of other
\* calls, with objects freed and their addresses used again, frees an object
\* that is in use or reads freed memory, destroy included.
DanglingOnlyAfterHit == fault = "dangling" => hit

\* A hit never makes the count of an object that is not a function wrong,
\* although its address may be in the function cache.
ProxyCountsExact ==
    Running =>
        \A a \in Addr :
            heap[a].class \in {"JSIObject", "object"} => heap[a].rc = Owners(a)

\* A call of a JSIFunction made for a JSFunction reaches that JSFunction,
\* whatever the address stood for before.
CallsReachTheirFunction ==
    Running =>
        \A a \in Addr :
            heap[a].class = "JSIFunction" /\ heap[a].made # "native" =>
                trackMethodMap[a] = heap[a].made

\* A property of a JSIObject made for a JSObjectProxy is read from and written
\* to that Kotlin object, and the object is converted to it.
ProxiesKeepTheirObject ==
    Running =>
        \A a \in Addr :
            heap[a].class = "JSIObject" /\ heap[a].made # "native" =>
                trackProxyMap[a] = heap[a].made

\* destroy leaves no object behind but for a reference that was leaked by
\* setGlobalFun or evalCode, or taken by Kotlin and not released.
LeftOnlyIfLeaked ==
    fault = "assert" =>
        globalLeak > 0 \/ \E a \in Addr : java[a] + heap[a].leaked > 0

\* quickjs.texi on C functions: they "return a newly allocated (=live)
\* JSValue".  A function read from a JSIObject is alive as long as it is held,
\* by the script or by the function cache.
FunctionsStayAlive == fault # "dangling"

\* JS_FreeRuntime: "assert(list_empty(&rt->gc_obj_list))".
RuntimeFreed == fault # "assert"

=============================================================================
