-------------------------------- MODULE EvHeap --------------------------------
(***************************************************************************)
(* The heap of timers (src/libs/libev/ev.c): an array of ANHE, a watcher   *)
(* with a copy of its time, ordered as a DHEAP-ary heap whose root is the  *)
(* earliest, as EV_USE_4HEAP has it.  Index 1 here is HEAP0 there.         *)
(* EvTimers uses the operators for the heap of a loop, EvHeapUse applies   *)
(* them in any order, and ListLemmas has the theorems.                     *)
(***************************************************************************)
EXTENDS Integers, EvSteps

DHEAP == 4    \* children of a node

\* The array heap, and active (the index, 0 for none) and at of each watcher.
Empty(Element) == [heap   |-> <<>>,
                   active |-> [w \in Element |-> 0],
                   at     |-> [w \in Element |-> 0]]

HPARENT(k) == ((k - 2) \div DHEAP) + 1
Children(k, n) == {i \in DHEAP * (k - 1) + 2 .. DHEAP * k + 1 : i <= n}
ANHE_at(heap, k) == heap[k].at

\* heap[path[1]] moves to the end of the path, the others one step back.
Rotate(s, path) ==
    LET m == Len(path)
        put == [j \in 1 .. m |-> IF j = m THEN s.heap[path[1]] ELSE s.heap[path[j + 1]]]
    IN  [s EXCEPT !.heap = [i \in DOMAIN @ |->
                                IF Contains(path, i) THEN put[CHOOSE j \in 1 .. m : path[j] = i]
                                ELSE @[i]],
                  !.active = [w \in DOMAIN @ |->
                                IF \E j \in 1 .. m : put[j].w = w
                                THEN path[CHOOSE j \in 1 .. m : put[j].w = w] ELSE @[w]]]

\* Away from the root, towards the first of the earliest children.
downheap(s, n, start) ==
    LET he == s.heap[start]
        path[k \in 1 .. n] ==
            LET below == {i \in Children(k, n) : \A j \in Children(k, n) :
                             \/ ANHE_at(s.heap, i) < ANHE_at(s.heap, j)
                             \/ ANHE_at(s.heap, i) = ANHE_at(s.heap, j) /\ i <= j}
            IN  IF \E i \in below : ANHE_at(s.heap, i) < he.at
                THEN <<k>> \o path[CHOOSE i \in below : TRUE]
                ELSE <<k>>
    IN  Rotate(s, path[start])

\* Towards the root.
upheap(s, start) ==
    LET he == s.heap[start]
        path[k \in 1 .. start] ==
            IF k = 1 \/ ANHE_at(s.heap, HPARENT(k)) <= he.at THEN <<k>>
            ELSE <<k>> \o path[HPARENT(k)]
    IN  Rotate(s, path[start])

adjustheap(s, n, k) ==
    IF k > 1 /\ ANHE_at(s.heap, k) <= ANHE_at(s.heap, HPARENT(k)) THEN upheap(s, k)
    ELSE downheap(s, n, k)

ANHE_at_cache(s, k) == [s EXCEPT !.heap[k].at = s.at[s.heap[k].w]]

\* What ev_timer_start does to the heap, and ev_timer_stop.
heap_start(s, w) ==
    LET k == Len(s.heap) + 1
    IN  upheap([s EXCEPT !.heap = Append(@, [w |-> w, at |-> s.at[w]]), !.active[w] = k], k)

\* A faulty variant: the watcher keeps its index.
heap_stop_active(s, w) ==
    LET k == s.active[w]
        n == Len(s.heap) - 1
        short == [s EXCEPT !.heap = SubSeq(@, 1, n)]
    IN  IF k > n THEN short ELSE adjustheap([short EXCEPT !.heap[k] = s.heap[n + 1]], n, k)

\* Another: the last element, put in the place that is free, only moves down.
heap_stop_down(s, w) ==
    LET k == s.active[w]
        n == Len(s.heap) - 1
        short == [s EXCEPT !.heap = SubSeq(@, 1, n)]
    IN  [(IF k > n THEN short ELSE downheap([short EXCEPT !.heap[k] = s.heap[n + 1]], n, k))
            EXCEPT !.active[w] = 0]

heap_stop(s, w) ==
    LET k == s.active[w]
        n == Len(s.heap) - 1
        short == [s EXCEPT !.heap = SubSeq(@, 1, n)]
    IN  [(IF k > n THEN short ELSE adjustheap([short EXCEPT !.heap[k] = s.heap[n + 1]], n, k))
            EXCEPT !.active[w] = 0]

\* An active watcher has a new time.
heap_move(s, w) == adjustheap(ANHE_at_cache(s, s.active[w]), Len(s.heap), s.active[w])

\* All active watchers are moved by as much, and the copies with them.
heap_adjust(s, adjust) ==
    [s EXCEPT !.heap = [k \in DOMAIN @ |-> [w |-> @[k].w, at |-> @[k].at + adjust]],
              !.at = [w \in DOMAIN @ |-> IF s.active[w] # 0 THEN @[w] + adjust ELSE @[w]]]

-------------------------------------------------------------------------------

\* verify_heap, the assertions of libev: each watcher knows its index, a parent
\* is no later than its children, and the copies of the times are right.
VerifyHeap(s) ==
    \A k \in DOMAIN s.heap :
        /\ s.active[s.heap[k].w] = k
        /\ k = 1 \/ ANHE_at(s.heap, HPARENT(k)) <= ANHE_at(s.heap, k)
        /\ ANHE_at(s.heap, k) = s.at[s.heap[k].w]
===============================================================================
