----------------------------- MODULE PoolHandle -----------------------------
(***************************************************************************)
(* The C++ pool handle nvml::obj::pool<T> of                               *)
(* src/src/include/libpmemobj/pool.hpp, over the pmemobj pools it opens.   *)
(*                                                                         *)
(* Objs are pool<T> objects of the application.  Each holds the raw        *)
(* PMEMobjpool pointer `pop`; the defaulted copy and move constructors and *)
(* assignments copy it (a move of a raw pointer leaves the source as it    *)
(* was).  Every successful pmemobj_open/pmemobj_create returns a fresh     *)
(* handle 1..MaxOpens; `live` is the set pmemobj has open and not closed.  *)
(***************************************************************************)
EXTENDS Naturals, FiniteSets

CONSTANTS
    Objs,       \* pool<T> objects
    NULL,       \* nullptr
    MaxOpens    \* bound on successful opens and creates

VARIABLES
    pop,        \* pop[o]: the handle object o holds, or NULL
    live,       \* handles pmemobj has open
    nextH,      \* the handle the next successful open returns
    last        \* the last call: operation, object, handle, and its outcome

vars == <<pop, live, nextH, last>>

Handles == 1..MaxOpens

Init ==
    /\ pop = [o \in Objs |-> NULL]     \* pool() : pop(nullptr)
    /\ live = {}
    /\ nextH = 1
    /\ last = [op |-> "none", obj |-> NULL, h |-> NULL, wasLive |-> FALSE,
               outcome |-> "none"]

Call(op, o, h, outcome) ==
    [op |-> op, obj |-> o, h |-> h, wasLive |-> h \in live, outcome |-> outcome]

(* pool<T>::open / pool<T>::create assigned to o: pmemobj returns a new    *)
(* handle, or nullptr and pool_error is thrown with o left as it was.      *)
OpenOrCreate(o, op) ==
    \/ /\ nextH <= MaxOpens
       /\ pop' = [pop EXCEPT ![o] = nextH]
       /\ live' = live \cup {nextH}
       /\ nextH' = nextH + 1
       /\ last' = Call(op, o, nextH, "ok")
    \/ /\ last' = Call(op, o, NULL, "pool_error")
       /\ UNCHANGED <<pop, live, nextH>>

Open(o) == OpenOrCreate(o, "open")
Create(o) == OpenOrCreate(o, "create")

(* pool(const pool&), pool(pool&&) and both operator=: pop copied (self-   *)
(* assignment included).                                                   *)
Copy(dst, src) ==
    /\ pop' = [pop EXCEPT ![dst] = pop[src]]
    /\ last' = Call("copy", dst, pop[src], "ok")
    /\ UNCHANGED <<live, nextH>>

(* pool<T>::close: logic_error on nullptr, else pmemobj_close(pop) and     *)
(* pop = nullptr.                                                          *)
Close(o) ==
    \/ /\ pop[o] = NULL
       /\ last' = Call("close", o, NULL, "logic_error")
       /\ UNCHANGED <<pop, live, nextH>>
    \/ /\ pop[o] # NULL
       /\ live' = live \ {pop[o]}
       /\ pop' = [pop EXCEPT ![o] = NULL]
       /\ last' = Call("close", o, pop[o], "pmemobj_close")
       /\ UNCHANGED nextH

(* pool<T>::get_root: pmemobj_root(pop, sizeof (T)) without a check.       *)
GetRoot(o) ==
    /\ last' = Call("get_root", o, pop[o], "pmemobj_root")
    /\ UNCHANGED <<pop, live, nextH>>

Next ==
    \E o \in Objs :
        \/ Open(o)
        \/ Create(o)
        \/ Close(o)
        \/ GetRoot(o)
        \/ \E src \in Objs : Copy(o, src)

Spec == Init /\ [][Next]_vars

-----------------------------------------------------------------------------
(* Type invariant.                                                         *)
TypeOK ==
    /\ pop \in [Objs -> Handles \cup {NULL}]
    /\ live \subseteq Handles
    /\ nextH \in 1..MaxOpens + 1
    /\ last.h \in Handles \cup {NULL}

(* The documented contract of pool<T>::close ("@throw std::logic_error if  *)
(* the pool has already been closed"): a close reaches pmemobj_close only  *)
(* with a handle pmemobj still has open; on a pool already closed it       *)
(* throws.                                                                 *)
CloseOfClosedPoolThrows ==
    last.op = "close" /\ last.outcome # "logic_error" => last.wasLive

=============================================================================
