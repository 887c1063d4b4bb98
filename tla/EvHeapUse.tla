------------------------------- MODULE EvHeapUse ------------------------------
(***************************************************************************)
(* A heap of libev (see EvHeap) of which watchers are started, stopped and *)
(* moved to another time in any order.                                     *)
(***************************************************************************)
EXTENDS EvHeap

CONSTANTS
    Element,    \* the watchers
    Times       \* the times a watcher can have

HeapAssumption == Times \subseteq Int

VARIABLES
    h,      \* the heap
    armed   \* history: the time each active watcher was started with or moved to

Init == h = Empty(Element) /\ armed = [w \in {} |-> 0]

start(w, t) ==
    /\ h.active[w] = 0
    /\ h' = heap_start([h EXCEPT !.at[w] = t], w)
    /\ armed' = [v \in DOMAIN armed \cup {w} |-> IF v = w THEN t ELSE armed[v]]

stop(w) ==
    /\ h.active[w] # 0
    /\ h' = [heap_stop(h, w) EXCEPT !.at[w] = 0]
    /\ armed' = [v \in DOMAIN armed \ {w} |-> armed[v]]

move(w, t) ==
    /\ h.active[w] # 0
    /\ h' = heap_move([h EXCEPT !.at[w] = t], w)
    /\ armed' = [armed EXCEPT ![w] = t]

Next == \E w \in Element : stop(w) \/ \E t \in Times : start(w, t) \/ move(w, t)

Spec == Init /\ [][Next]_<<h, armed>>

-------------------------------------------------------------------------------

TypeOK ==
    /\ h.heap \in Seq([w : Element, at : Times])
    /\ h.active \in [Element -> 0 .. Len(h.heap)]
    /\ h.at \in [Element -> Times \cup {0}]

\* See VerifyHeap.
verify_heap == VerifyHeap(h)

\* No operation loses, doubles or confuses a watcher: the heap holds exactly
\* the watchers that were started and not stopped, with their times.
EntriesKept ==
    /\ {w \in Element : h.active[w] # 0} = DOMAIN armed
    /\ Len(h.heap) = Cardinality(DOMAIN armed)
    /\ \A k \in DOMAIN h.heap :
         h.heap[k].w \in DOMAIN armed /\ h.heap[k].at = armed[h.heap[k].w]

\* The root is the earliest of all: what timers_reify and the wait rely on.
RootIsEarliest == \A w \in DOMAIN armed : h.heap[1].at <= armed[w]
===============================================================================
