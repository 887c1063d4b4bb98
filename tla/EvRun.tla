-------------------------------- MODULE EvRun --------------------------------
(***************************************************************************)
(* An iteration of libev (ev_run in src/libs/libev/ev.c): priorities, the  *)
(* watchers that run around the poll (fork, prepare, check, idle, cleanup) *)
(* and when the loop ends.  Callbacks start and stop watchers, feed        *)
(* events, break the loop and call ev_run again.                           *)
(***************************************************************************)
EXTENDS Integers, SequencesExt

CONSTANTS
    Watcher,
    Kinds,          \* what watchers can be: "fork", "prepare", "check", "idle",
                    \* "cleanup", or "io" for those that the back end feeds
    NUMPRI,         \* priorities are 0 .. NUMPRI - 1
    None,           \* pending_w, which stands for a watcher that was cleared
    LateFork,       \* may a callback that runs between fork watchers and poll fork?
    MaxDepth,       \* bound on ev_run within ev_run
    MaxOps          \* bound on what the program does

RunAssumption ==
    /\ IsFiniteSet(Watcher) /\ None \notin Watcher /\ NUMPRI \in Nat \ {0}
    /\ Kinds \subseteq {"fork", "prepare", "check", "idle", "cleanup", "io"}
    /\ LateFork \in BOOLEAN /\ MaxDepth \in Nat /\ MaxOps \in Nat

Pri == 0 .. NUMPRI - 1
Arrays == ({"fork", "prepare", "check", "cleanup", "io"} \X {0}) \cup ({"idle"} \X Pri)

VARIABLES
    of,         \* kind, priority and active index (0: none) of each watcher
    arr,        \* prepares[], checks[], ..., and idles[] for each priority
    pend,       \* pendings[] for each priority, the top last
    pendingpri, \* the priority ev_invoke_pending has come to
    activecnt, loop_done,
    postfork,   \* 1: a fork is known, 2: epoll wants its set made anew
    stack,      \* the calls of ev_run, the innermost last: the flag, how far it
                \* is, and whether a callback runs
    user,       \* history: ev_ref less ev_unref of the program
    untold,     \* history: the fork watchers that have not run since the fork
    ops

vars == <<of, arr, pend, pendingpri, activecnt, loop_done, postfork, stack, user, untold, ops>>

Array(w) == <<of[w].kind, IF of[w].kind = "idle" THEN of[w].pri ELSE 0>>
Active(w) == of[w].active # 0
Pending(w) == \E p \in Pri : Contains(pend[p], w)

Init ==
    /\ of = [w \in Watcher |-> [kind |-> "io", pri |-> 0, active |-> 0]]
    /\ arr = [a \in Arrays |-> <<>>]
    /\ pend = [p \in Pri |-> <<>>] /\ pendingpri = 0
    /\ activecnt = 0 /\ loop_done = "CANCEL" /\ postfork = 0
    /\ stack = <<>> /\ user = 0 /\ untold = {} /\ ops = 0

-------------------------------------------------------------------------------
(* Watchers. *)

\* A callback runs, or no call of ev_run.
Program == stack # <<>> => Last(stack).cb
Op == Program /\ ops < MaxOps /\ ops' = ops + 1

feed(p, w) == IF Contains(p[of[w].pri], w) THEN p ELSE [p EXCEPT ![of[w].pri] = Append(@, w)]
queue_events(p, ws) ==
    LET queued[n \in 0 .. Len(ws)] == IF n = 0 THEN p ELSE feed(queued[n - 1], ws[n])
    IN  queued[Len(ws)]

clear_pending(w) == [p \in Pri |-> [i \in DOMAIN pend[p] |-> IF pend[p][i] = w THEN None ELSE pend[p][i]]]

\* A faulty variant: the loop goes on from the priority it has come to.
ev_feed_event_low(w) ==
    /\ Op
    /\ pend' = feed(pend, w)
    /\ UNCHANGED <<of, arr, pendingpri, activecnt, loop_done, postfork, stack, user, untold>>

ev_feed_event(w) ==
    /\ Op
    /\ pend' = feed(pend, w)
    /\ pendingpri' = NUMPRI - 1
    /\ UNCHANGED <<of, arr, activecnt, loop_done, postfork, stack, user, untold>>

\* The starts of all kinds.  Only a cleanup watcher does not count.
start(w, kind, pri) ==
    /\ Op
    /\ ~Active(w) /\ (Pending(w) => kind = of[w].kind /\ pri = of[w].pri)
    /\ LET a == <<kind, IF kind = "idle" THEN pri ELSE 0>>
       IN  /\ arr' = [arr EXCEPT ![a] = Append(@, w)]
           /\ of' = [of EXCEPT ![w] = [kind |-> kind, pri |-> pri, active |-> Len(arr[a]) + 1]]
    /\ activecnt' = IF kind = "cleanup" THEN activecnt ELSE activecnt + 1
    /\ UNCHANGED <<pend, pendingpri, loop_done, postfork, stack, user, untold>>

\* A faulty variant: the watcher that moves keeps its index.
stop_index(w) ==
    LET a == Array(w)
        n == Len(arr[a])
    IN  /\ arr' = [arr EXCEPT ![a] = SubSeq([@ EXCEPT ![of[w].active] = arr[a][n]], 1, n - 1)]
        /\ of' = [of EXCEPT ![w].active = 0]
        /\ activecnt' = IF of[w].kind = "cleanup" THEN activecnt ELSE activecnt - 1

\* The last of the array takes the place of the one that stops.
stop_active(w) ==
    LET a == Array(w)
        n == Len(arr[a])
    IN  /\ arr' = [arr EXCEPT ![a] = SubSeq([@ EXCEPT ![of[w].active] = arr[a][n]], 1, n - 1)]
        /\ of' = [[of EXCEPT ![arr[a][n]].active = of[w].active] EXCEPT ![w].active = 0]
        /\ activecnt' = IF of[w].kind = "cleanup" THEN activecnt ELSE activecnt - 1

stop(w) ==
    /\ Op
    /\ ~Active(w) => Pending(w)
    /\ pend' = clear_pending(w)
    /\ IF Active(w) THEN stop_active(w) ELSE UNCHANGED <<arr, of, activecnt>>
    /\ untold' = untold \ {w}
    /\ UNCHANGED <<pendingpri, loop_done, postfork, stack, user>>

ev_clear_pending(w) ==
    /\ Op
    /\ Pending(w)
    /\ pend' = clear_pending(w)
    /\ untold' = untold \ {w}
    /\ UNCHANGED <<of, arr, pendingpri, activecnt, loop_done, postfork, stack, user>>

ev_ref(n) ==
    /\ Op
    /\ user + n \in {-1, 0, 1}
    /\ activecnt' = activecnt + n /\ user' = user + n
    /\ UNCHANGED <<of, arr, pend, pendingpri, loop_done, postfork, stack, untold>>

ev_break(how) ==
    /\ Op
    /\ stack # <<>>
    /\ loop_done' = how
    /\ UNCHANGED <<of, arr, pend, pendingpri, activecnt, postfork, stack, user, untold>>

ev_loop_fork ==
    /\ Op
    /\ LateFork \/ \A i \in DOMAIN stack : stack[i].at \notin {"forked", "prepared"}
    /\ postfork' = 1
    /\ untold' = ToSet(arr[<<"fork", 0>>])
    /\ UNCHANGED <<of, arr, pend, pendingpri, activecnt, loop_done, stack, user>>

-------------------------------------------------------------------------------
(* ev_run. *)

top == Last(stack)
At(label) == stack # <<>> /\ top.at = label /\ ~top.cb
becomes(label) == stack' = [stack EXCEPT ![Len(stack)].at = label]

\* EV_INVOKE_PENDING, after which the call goes on at label.
invokes(label) ==
    /\ stack' = [stack EXCEPT ![Len(stack)].at = label]
    /\ pendingpri' = NUMPRI - 1

\* Only the calls from a callback are bounded.
ev_run(flag) ==
    /\ Program /\ Len(stack) < MaxDepth
    /\ IF stack = <<>> THEN UNCHANGED ops ELSE Op
    /\ loop_done' = "CANCEL"
    /\ stack' = Append(stack, [flag |-> flag, at |-> "first", cb |-> FALSE])
    /\ pendingpri' = NUMPRI - 1
    /\ UNCHANGED <<of, arr, pend, activecnt, postfork, user, untold>>

\* The places of ev_run where pending events are invoked, with what comes next.
Invokes == [first |-> "fork", forked |-> "prepare", prepared |-> "poll", polled |-> "while"]
Lower == {p \in Pri : p <= pendingpri /\ pend[p] # <<>>}
Highest == CHOOSE p \in Lower : \A q \in Lower : q <= p
AtInvoke == stack # <<>> /\ ~top.cb /\ top.at \in DOMAIN Invokes

ev_invoke_pending ==
    /\ AtInvoke /\ Lower # {}
    /\ pendingpri' = Highest
    /\ pend' = [pend EXCEPT ![Highest] = Front(@)]
    /\ stack' = [stack EXCEPT ![Len(stack)].cb = Last(pend[Highest]) # None]
    /\ untold' = untold \ {Last(pend[Highest])}
    /\ UNCHANGED <<of, arr, activecnt, loop_done, postfork, user, ops>>

callback_returns ==
    /\ stack # <<>> /\ top.cb
    /\ stack' = [stack EXCEPT ![Len(stack)].cb = FALSE]
    /\ UNCHANGED <<of, arr, pend, pendingpri, activecnt, loop_done, postfork, user, untold, ops>>

invoked ==
    /\ AtInvoke /\ Lower = {}
    /\ pendingpri' = 0
    /\ becomes(Invokes[top.at])
    /\ UNCHANGED <<of, arr, pend, activecnt, loop_done, postfork, user, untold, ops>>

rest == UNCHANGED <<of, arr, activecnt, user, ops>>

\* With postfork set, the fork watchers run before anything else; epoll sets it
\* without a fork.
run_fork ==
    /\ At("fork")
    /\ pend' = IF postfork # 0 THEN queue_events(pend, arr[<<"fork", 0>>]) ELSE pend
    /\ invokes("forked")
    /\ UNCHANGED <<loop_done, postfork, untold>> /\ rest

run_prepare ==
    /\ At("prepare")
    /\ pend' = queue_events(pend, arr[<<"prepare", 0>>])
    /\ invokes("prepared")
    /\ UNCHANGED <<loop_done, postfork, untold>> /\ rest

\* The idle watchers of the highest priority that has some, if nothing of that
\* or a higher priority is pending.
idle_reify(p) ==
    LET busy  == {q \in Pri : p[q] # <<>>}
        ready == {q \in Pri : arr[<<"idle", q>>] # <<>>}
        first == CHOOSE q \in ready : \A r \in ready : r <= q
    IN  IF ready = {} \/ \E b \in busy : b >= first THEN p
        ELSE queue_events(p, arr[<<"idle", first>>])

\* From loop_fork to the check watchers: the back end feeds what is ready; a
\* loop that waits goes on only with an event or by a timer, which is always so.
\* epoll_poll sets postfork again when it finds an entry it cannot explain.
run_poll ==
    /\ At("poll")
    /\ IF loop_done # "CANCEL"
       THEN becomes("end") /\ UNCHANGED <<pend, pendingpri, loop_done, postfork>>
       ELSE \E ready \in SUBSET ToSet(arr[<<"io", 0>>]) :
              /\ pend' = queue_events(idle_reify(queue_events(pend, SetToSeq(ready))),
                                      arr[<<"check", 0>>])
              /\ loop_done' = "CANCEL"      \* assert with a side effect
              /\ postfork' \in {0, 2}
              /\ invokes("polled")
    /\ UNCHANGED untold /\ rest

run_while ==
    /\ At("while")
    /\ becomes(IF activecnt # 0 /\ loop_done = "CANCEL" /\ top.flag = "LOOP" THEN "fork" ELSE "end")
    /\ UNCHANGED <<pend, pendingpri, loop_done, postfork, untold>> /\ rest

\* EVBREAK_ONE has been for this call.
run_end ==
    /\ At("end")
    /\ loop_done' = IF loop_done = "ONE" THEN "CANCEL" ELSE loop_done
    /\ stack' = Front(stack)
    /\ UNCHANGED <<of, arr, pend, pendingpri, activecnt, postfork, user, untold, ops>>

loop ==
    \/ ev_invoke_pending \/ callback_returns \/ invoked
    \/ run_fork \/ run_prepare \/ run_poll \/ run_while \/ run_end

program ==
    \/ \E w \in Watcher :
         \/ stop(w)
         \/ \E kind \in Kinds, pri \in Pri : start(w, kind, pri)
         \/ Active(w) /\ ev_feed_event(w)
         \/ ev_clear_pending(w)
    \/ \E n \in {-1, 1} : ev_ref(n)
    \/ \E how \in {"ONE", "ALL"} : ev_break(how)
    \/ \E flag \in {"LOOP", "ONCE", "NOWAIT"} : ev_run(flag)
    \/ ev_loop_fork

Next == program \/ loop

Spec == Init /\ [][Next]_vars

-------------------------------------------------------------------------------

\* array_verify: each active watcher knows its place.
TypeOK ==
    /\ \A a \in Arrays : \A i \in DOMAIN arr[a] :
         of[arr[a][i]].active = i /\ Array(arr[a][i]) = a
    /\ \A w \in Watcher : Active(w) => Contains(arr[Array(w)], w)
    /\ \A p \in Pri : \A w \in ToSet(pend[p]) \ {None} : of[w].pri = p
    /\ loop_done \in {"CANCEL", "ONE", "ALL"}

\* What keeps the loop running is counted right: the active watchers but for
\* cleanup watchers, and what the program asked for.
ActiveCounted ==
    activecnt = user + Cardinality({w \in Watcher : Active(w) /\ of[w].kind # "cleanup"})

\* No callback runs while one of a higher priority is pending, also not after a
\* callback that feeds one, or that runs the loop itself.
HighestFirst == ev_invoke_pending => \A p \in Pri : p > pendingpri' => pend[p] = <<>>

\* An idle watcher becomes pending by the loop only when nothing of its
\* priority or a higher one is to be done.
IdleWhenIdle ==
    run_poll => \A w \in Watcher :
        of[w].kind = "idle" /\ ~Pending(w) /\ Pending(w)' =>
            \A p \in Pri : p >= of[w].pri =>
                pend[p] = <<>> /\ \A v \in ToSet(pend'[p]) : of[v].kind \in {"idle", "check"}

\* The loop polls with no callback left to run: ev_invoke_pending misses none,
\* whatever the callbacks feed and stop.
PollsWhenDone == run_poll /\ loop_done = "CANCEL" => \A p \in Pri : pend[p] = <<>>

\* After a fork every fork watcher has run before the loop polls again.  With
\* LateFork not: a prepare watcher that calls ev_loop_fork comes after them, and
\* loop_fork clears postfork all the same.
ForkBeforePoll == run_poll /\ loop_done = "CANCEL" /\ postfork = 1 => untold = {}
===============================================================================
