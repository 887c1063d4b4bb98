-------------------------------- MODULE EvStat --------------------------------
(***************************************************************************)
(* Stat watchers of libev with inotify (src/libs/libev/ev.c).  All of them *)
(* watch one path, in a directory that stays, whose file is changed,       *)
(* removed and replaced by others.  On a file system that is known to be   *)
(* local a watcher relies on inotify alone, otherwise it also polls.       *)
(***************************************************************************)
EXTENDS Integers, FiniteSetsExt, EvSteps

CONSTANTS
    Watcher,
    File,       \* the files (inodes) the path can refer to
    Missing,    \* what the path refers to when there is none
    Watches,    \* watch descriptors the kernel grants (ENOSPC beyond)
    QueueMax,   \* events the kernel keeps for an inotify descriptor
    Buffer,     \* events one read returns
    Races,      \* what may happen: "start": a change inside of ev_stat_start,
                \* "fork": a fork with changes untold, "overflow": a full queue
    MaxOps      \* bound on what the program and others do

StatAssumption ==
    /\ Missing \notin File
    /\ Watches \in Nat /\ QueueMax \in Nat \ {0} /\ Buffer \in Nat \ {0} /\ MaxOps \in Nat
    /\ Races \subseteq {"start", "fork", "overflow"}

VARIABLES
    x,      \* the file system, the kernel's inotify and libev, see Init
    told,   \* history: the attributes each watcher was started with or told last
    ops

vars == <<x, told, ops>>

-------------------------------------------------------------------------------
(* The file system and inotify. *)

\* op, with its state evaluated once.
Do(op(_, _), y, arg) == CHOOSE z \in {op(v, arg) : v \in {y}} : TRUE

Dir == "dir"
Overflow == [wd |-> -1, gone |-> FALSE]

\* What lstat says of the path: a version is used for one change only.
lstat(y) == [file |-> y.path, version |-> IF y.path = Missing THEN 0 ELSE y.version[y.path]]

\* An event, when the queue is full a mark that some are lost.  gone stands
\* for IN_IGNORED and IN_DELETE_SELF.
post(y, wd, gone) ==
    IF Len(y.queue) < QueueMax \/ "overflow" \notin Races
    THEN [y EXCEPT !.queue = Append(@, [wd |-> wd, gone |-> gone])]
    ELSE IF Last(y.queue) = Overflow THEN y ELSE [y EXCEPT !.queue = Append(@, Overflow)]

Wds(y, on) == {wd \in DOMAIN y.marks : y.marks[wd] = on}
Post(y, on, gone) == IF Wds(y, on) = {} THEN y ELSE post(y, CHOOSE wd \in Wds(y, on) : TRUE, gone)

remove_mark(y, wd) ==
    IF wd \notin DOMAIN y.marks THEN y
    ELSE post([y EXCEPT !.marks = [v \in DOMAIN @ \ {wd} |-> @[v]]], wd, TRUE)

\* The watch descriptor of what is watched already, or a new one.
inotify_add_watch(y, on) ==
    IF Wds(y, on) # {} \/ Cardinality(DOMAIN y.marks) >= Watches THEN y
    ELSE [y EXCEPT !.marks = [wd \in DOMAIN @ \cup {y.wds} |-> IF wd = y.wds THEN on ELSE @[wd]],
                   !.wds = @ + 1]

\* The file of the path loses its name: with its last name it is gone.
unlink(y, last) ==
    IF y.path = Missing THEN y
    ELSE LET z == Post([y EXCEPT !.path = Missing], y.path, last)
         IN  IF last THEN Steps(remove_mark, z, SetToSeq(Wds(z, y.path))) ELSE z

touch(y, f) == Post([y EXCEPT !.version[f] = y.clock, !.clock = @ + 1], f, FALSE)
link(y, f) == Post([y EXCEPT !.path = f, !.version[f] = y.clock, !.clock = @ + 1], Dir, FALSE)

Quiet == [do |-> "none"]

\* A file is written to or gets the name, or the name is removed.
Changes == {[do |-> "touch"], Quiet}
           \cup [do : {"unlink"}, last : BOOLEAN]
           \cup [do : {"link"}, file : File, last : BOOLEAN]
change(y, by) ==
    CASE by.do = "none" -> y
      [] by.do = "touch" -> IF y.path = Missing THEN y ELSE touch(y, y.path)
      [] by.do = "unlink" -> unlink(y, by.last)
      [] by.do = "link" -> IF by.file = y.path THEN y ELSE link(Do(unlink, y, by.last), by.file)

\* A change by another process while the loop is inside of a callback.
meanwhile(y) == [Do(change, y, y.mid) EXCEPT !.mid = Quiet]

-------------------------------------------------------------------------------
(* inotify for stat watchers. *)

active(y, w) == w \in y.active

\* ev_timer_again on w->timer, which must not keep the loop alive.
timer_again(y, w, repeat) ==
    [y EXCEPT !.timer = IF repeat THEN @ \cup {w} ELSE @ \ {w},
              !.activecnt = @ + (IF repeat THEN 1 ELSE 0) - (IF w \in y.timer THEN 1 ELSE 0)]
timer_ref(y, w, by) == IF w \in y.timer THEN [y EXCEPT !.activecnt = @ + by] ELSE y
timer_rearm(y, w, repeat) == timer_ref(timer_again(timer_ref(y, w, 1), w, repeat), w, -1)

\* A path that is not there has its directory watched, and is polled.
infy_add(y, w) ==
    LET on == IF y.path = Missing THEN Dir ELSE y.path
        z  == Do(inotify_add_watch, y, on)
    IN  IF Wds(z, on) = {} THEN timer_rearm([z EXCEPT !.wd[w] = -1], w, TRUE)
        ELSE timer_rearm([z EXCEPT !.wd[w] = CHOOSE v \in Wds(z, on) : TRUE, !.hash = @ \cup {w}],
                         w, on = Dir \/ ~y.local)

\* The other watchers of the same descriptor are told that it is gone.
infy_del(y, w) ==
    IF y.wd[w] < 0 THEN y
    ELSE remove_mark([y EXCEPT !.wd[w] = -2, !.hash = @ \ {w}], y.wd[w])

stat_differs(y, w) == lstat(y) # y.attr[w]

ev_stat_stat(y, w) == [y EXCEPT !.attr[w] = lstat(y)]

\* A faulty variant: without the second look at the path.
stat_rearm_blind(y, w) ==
    IF y.fs_fd THEN Do(infy_add, Do(infy_del, y, w), w) ELSE y

\* The second look at the path is for what happens before the new watch.
stat_rearm(y, w) ==
    IF y.fs_fd THEN ev_stat_stat(Do(infy_add, Do(infy_del, y, w), w), w) ELSE y

stat_looked(y, w) == meanwhile(ev_stat_stat(y, w))

stat_timer_cb(y, w) ==
    IF stat_differs(y, w)
    THEN [Do(stat_rearm, Do(stat_looked, y, w), w) EXCEPT !.pend = @ \cup {w}]
    ELSE y

\* One event, for each watcher of its descriptor.  A watch that is gone is
\* added again.
infy_wd(y, ev) ==
    LET one(z, w) ==
            IF ~(w \in z.hash /\ (z.wd[w] = ev.wd \/ ev.wd = -1)) THEN z
            ELSE IF ev.gone
                 THEN stat_timer_cb(Do(infy_add, [z EXCEPT !.wd[w] = -1, !.hash = @ \ {w}], w), w)
                 ELSE stat_timer_cb(z, w)
    IN  Steps(one, y, SetToSeq(y.hash))

Read(y) == SubSeq(y.queue, 1, IF Len(y.queue) < Buffer THEN Len(y.queue) ELSE Buffer)

-------------------------------------------------------------------------------

Init ==
    \E local \in BOOLEAN, path \in File \cup {Missing} :
        /\ x = [path |-> path, version |-> [f \in File |-> 0], clock |-> 1,
                local |-> local,            \* infy_add takes the file system for a local one
                mid |-> Quiet,
                marks |-> <<>>, wds |-> 1, queue |-> <<>>,              \* inotify
                fs_fd |-> FALSE, tried |-> FALSE, hash |-> {},          \* libev
                active |-> {}, pend |-> {}, timer |-> {}, activecnt |-> 0,
                attr |-> [w \in Watcher |-> [file |-> Missing, version |-> 0]],
                wd |-> [w \in Watcher |-> -2]]
        /\ told = x.attr
    /\ ops = 0

Op == ops < MaxOps /\ ops' = ops + 1

\* What inotify cannot tell when the watch begins after the look at the path.
Meanwhile(race) == IF race THEN Changes ELSE {Quiet}

infy_init(y, opens) == IF y.tried THEN y ELSE [y EXCEPT !.tried = TRUE, !.fs_fd = opens]

ev_stat_start(w, opens, by) ==
    /\ Op /\ ~active(x, w)
    /\ LET y == infy_init(meanwhile([ev_stat_stat(x, w) EXCEPT !.mid = by]), opens)
           z == IF y.fs_fd THEN infy_add(y, w)
                ELSE [timer_again(y, w, TRUE) EXCEPT !.activecnt = @ - 1]
       IN  x' = [z EXCEPT !.active = @ \cup {w}, !.activecnt = @ + 1]
    /\ told' = [told EXCEPT ![w] = lstat(x)]

ev_stat_stop(w) ==
    /\ Op /\ (active(x, w) \/ w \in x.pend)
    /\ LET y == [x EXCEPT !.pend = @ \ {w}]
           ref == [infy_del(y, w) EXCEPT !.activecnt = IF w \in y.timer THEN @ + 1 ELSE @]
           z == timer_again(ref, w, FALSE)
       IN  x' = IF ~active(x, w) THEN y
                ELSE [z EXCEPT !.active = @ \ {w}, !.activecnt = @ - 1]
    /\ UNCHANGED told

\* Another process, or the program.
changes(by) ==
    /\ Op
    /\ x' = change(x, by) /\ x' # x
    /\ UNCHANGED told

Untold == x.queue # <<>> \/ \E w \in x.active : stat_differs(x, w)

\* infy_fork, in the child: a new descriptor, whose watches are added anew.
infy_fork(opens) ==
    /\ Op /\ x.fs_fd
    /\ "fork" \in Races \/ ~Untold
    /\ LET y == [x EXCEPT !.marks = <<>>, !.queue = <<>>, !.fs_fd = opens, !.hash = {}]
           one(z, w) == IF opens THEN infy_add([z EXCEPT !.wd[w] = -1], w)
                        ELSE timer_rearm([z EXCEPT !.wd[w] = -1], w, TRUE)
       IN  x' = Steps(one, y, SetToSeq(x.hash))
    /\ UNCHANGED told

-------------------------------------------------------------------------------
(* The loop. *)

\* fs_w: a change by another process meanwhile counts as an operation.
infy_cb(by) ==
    /\ x.queue # <<>>
    /\ IF by.do = "none" THEN UNCHANGED ops ELSE Op
    /\ x' = LET rest == SubSeq(x.queue, Len(Read(x)) + 1, Len(x.queue))
            IN  Steps(infy_wd, [x EXCEPT !.mid = by, !.queue = rest], Read(x))
    /\ x'.mid = x.mid
    /\ UNCHANGED told

timer(w, by) ==
    /\ w \in x.timer
    /\ IF by.do = "none" THEN UNCHANGED ops ELSE Op
    /\ x' = stat_timer_cb([x EXCEPT !.mid = by], w)
    /\ x'.mid = x.mid
    /\ UNCHANGED told

callback(w) ==
    /\ w \in x.pend
    /\ x' = [x EXCEPT !.pend = @ \ {w}]
    /\ told' = [told EXCEPT ![w] = x.attr[w]]
    /\ UNCHANGED ops

program ==
    \/ \E w \in Watcher :
         \/ \E opens \in BOOLEAN, by \in Meanwhile("start" \in Races) : ev_stat_start(w, opens, by)
         \/ ev_stat_stop(w)
    \/ \E by \in Changes : changes(by)
    \/ \E opens \in BOOLEAN : infy_fork(opens)

loop ==
    \/ \E by \in Changes : infy_cb(by) \/ \E w \in Watcher : timer(w, by)
    \/ \E w \in Watcher : callback(w)

Next == program \/ loop

Spec == Init /\ [][Next]_vars

-------------------------------------------------------------------------------

TypeOK ==
    /\ x.path \in File \cup {Missing}
    /\ x.hash \subseteq x.active /\ x.timer \subseteq x.active /\ x.pend \subseteq x.active
    /\ x.active \subseteq Watcher
    /\ \A w \in Watcher : x.wd[w] >= 0 <=> w \in x.hash
    /\ x.mid.do = "none"

\* The timers of stat watchers do not keep the loop alive.
ActiveCounted == x.activecnt = Cardinality(x.active)

\* No change of the file is missed: what an active watcher has seen of it it is
\* told, and what it has not seen is found by its timer or by an event of the
\* descriptor that it watches now.
ChangeOnItsWay ==
    \A w \in x.active :
        /\ x.attr[w] # told[w] => w \in x.pend
        /\ stat_differs(x, w) =>
             w \in x.timer \/ \E i \in DOMAIN x.queue : x.queue[i].wd \in {x.wd[w], -1}

===============================================================================
