--------------------------- MODULE MCEvEventsProofs ---------------------------
(***************************************************************************)
(* What holds of MCEvEvents, part by part.  Stat watchers are proved about *)
(* here; for signals (with handlers, with a callback that forks, with a    *)
(* signalfd) and iterations (with idle and with fork watchers) it is the   *)
(* theorems of EvSignalProofs and EvRunProofs.                             *)
(***************************************************************************)
EXTENDS MCEvEvents, ListLemmas

-------------------------------------------------------------------------------
(* Stat watchers *)

Paths == File \cup {Missing}
Attr == [file : Paths, version : Nat]
Event == [wd : Nat, gone : BOOLEAN]
Marks == UNION {[D -> Paths \cup {Stat!Dir}] : D \in SUBSET Nat}
Fs == [path : Paths, version : [File -> Nat], clock : Nat, local : BOOLEAN, mid : Stat!Changes,
       marks : Marks, wds : Nat, queue : Seq(Event),
       fs_fd : BOOLEAN, tried : BOOLEAN, hash : SUBSET Two, active : SUBSET Two,
       pend : SUBSET Two, timer : SUBSET Two, activecnt : Int,
       attr : [Two -> Attr], wd : [Two -> Int]]

\* The state is sound, where A are the watchers that are active or about to be:
\* no two marks are on the same file, and new ones get new descriptors.
Base(A, y) ==
    /\ y.hash \subseteq A /\ y.timer \subseteq A /\ y.pend \subseteq A
    /\ y.hash # {} => y.fs_fd
    /\ \A i \in DOMAIN y.marks : i < y.wds
    /\ \A i, j \in DOMAIN y.marks : y.marks[i] = y.marks[j] => i = j

\* A watcher has a descriptor while it is in the hash.
Numbered(y, w) == y.wd[w] >= 0 <=> w \in y.hash

\* A watcher without a timer will see its file: with the events in E, or those
\* of the queue, it gets to know that its mark is gone, or else its mark is on
\* the file it knows, and each difference to what it knows has an event.
Comes(y, E, wd, gone) ==
    \/ \E ev \in E : ev.wd = wd /\ (gone => ev.gone)
    \/ \E i \in DOMAIN y.queue : y.queue[i].wd = wd /\ (gone => y.queue[i].gone)
Sees(A, y, w, E) ==
    w \in A /\ w \notin y.timer =>
        /\ w \in y.hash /\ y.fs_fd
        /\ \/ Comes(y, E, y.wd[w], TRUE)
           \/ /\ y.wd[w] \in DOMAIN y.marks /\ y.marks[y.wd[w]] = y.attr[w].file
              /\ y.attr[w].file \in File
              /\ Stat!stat_differs(y, w) => Comes(y, E, y.wd[w], FALSE)

\* From y to d libev keeps the watchers but those of W in sight.
Keeps(A, y, d, W) ==
    /\ d \in Fs /\ Base(A, d)
    /\ d.active = y.active /\ d.activecnt = y.activecnt /\ d.fs_fd = y.fs_fd /\ d.tried = y.tried
    /\ y.pend \subseteq d.pend
    /\ \A v \in Two : Numbered(y, v) => Numbered(d, v)
    /\ \A v \in Two \ W : d.attr[v] = y.attr[v]
    /\ \A v \in Two \ W : \A E : Sees(A, y, v, E) => Sees(A, d, v, E)

\* The lines of the model that compute a state once.
LEMMA Once ==
    \A y, w :
        /\ Stat!Do(Stat!infy_del, y, w) = Stat!infy_del(y, w)
        /\ Stat!Do(Stat!infy_add, y, w) = Stat!infy_add(y, w)
        /\ Stat!Do(Stat!stat_rearm, y, w) = Stat!stat_rearm(y, w)
        /\ Stat!Do(Stat!stat_looked, y, w) = Stat!stat_looked(y, w)
        /\ Stat!Do(Stat!change, y, w) = Stat!change(y, w)
        /\ Stat!Do(Stat!unlink, y, w) = Stat!unlink(y, w)
        /\ Stat!Do(Stat!inotify_add_watch, y, w) = Stat!inotify_add_watch(y, w)
BY DEF Stat!Do

LEMMA MarksIs ==
    \A m : m \in Marks <=> DOMAIN m \subseteq Nat /\ m \in [DOMAIN m -> Paths \cup {Stat!Dir}]
BY DEF Marks

LEMMA KeepsOn ==
    ASSUME NEW A, NEW y, NEW d, NEW f, NEW W, Keeps(A, y, d, W), Keeps(A, d, f, W)
    PROVE  Keeps(A, y, f, W)
<1>1. /\ f.active = y.active /\ f.activecnt = y.activecnt /\ f.fs_fd = y.fs_fd /\ f.tried = y.tried
      /\ y.pend \subseteq f.pend
  BY DEF Keeps
<1>2. \A v \in Two \ W : f.attr[v] = y.attr[v] /\ \A E : Sees(A, y, v, E) => Sees(A, f, v, E)
  BY Zenon DEF Keeps
<1>3. \A v \in Two : Numbered(y, v) => Numbered(f, v)
  BY Zenon DEF Keeps
<1> QED
  BY <1>1, <1>2, <1>3, Zenon DEF Keeps

LEMMA KeepsItself ==
    ASSUME NEW A, NEW y \in Fs, Base(A, y), NEW W
    PROVE  Keeps(A, y, y, W)
BY Zenon DEF Keeps

LEMMA KeepsMore ==
    ASSUME NEW A, NEW y, NEW d, NEW w, Keeps(A, y, d, {})
    PROVE  Keeps(A, y, d, {w})
BY Zenon DEF Keeps

-------------------------------------------------------------------------------
(* The queue and the marks *)

\* An event gets to the end of the queue, which is never full.
LEMMA Posts ==
    ASSUME NEW y \in Fs, NEW wd \in Nat, NEW gone \in BOOLEAN
    PROVE  LET d == Stat!post(y, wd, gone)
           IN  /\ d \in Fs
               /\ \E q \in Seq(Event) :
                    /\ d = [y EXCEPT !.queue = q]
                    /\ \A E, v, b : Comes(y, E, v, b) => Comes(d, E, v, b)
                    /\ \A E, b : (b => gone) => Comes(d, E, wd, b)
<1> DEFINE ev == [wd |-> wd, gone |-> gone]
           q == Append(y.queue, ev)
           d == [y EXCEPT !.queue = q]
<1>1. Stat!post(y, wd, gone) = d
  BY Zenon DEF Stat!post
<1>2. y.queue \in Seq(Event) /\ ev \in Event
  BY DEF Fs, Event
<1>3. ev.wd = wd /\ ev.gone = gone
  OBVIOUS
<1> HIDE DEF ev
<1>4. /\ q \in Seq(Event) /\ q[Len(y.queue) + 1] = ev /\ Len(y.queue) + 1 \in DOMAIN q
      /\ \A i \in DOMAIN y.queue : i \in DOMAIN q /\ q[i] = y.queue[i]
  BY <1>2
<1> HIDE DEF q
<1>5. d \in Fs /\ d.queue = q
  BY <1>4 DEF Fs
<1>8. d = [y EXCEPT !.queue = q]
  OBVIOUS
<1> HIDE DEF d
<1>6. \A E, v, b : Comes(y, E, v, b) => Comes(d, E, v, b)
  BY <1>4, <1>5, Zenon DEF Comes
<1>7. \A E, b : (b => gone) => Comes(d, E, wd, b)
  BY <1>3, <1>4, <1>5, Zenon DEF Comes
<1> QED
  BY <1>1, <1>4, <1>5, <1>6, <1>7, <1>8, Zenon

\* From y to d at most marks are removed, of which there is an event that they
\* are gone, and events posted.
Shifts(y, d) ==
    /\ d \in Fs
    /\ d.local = y.local /\ d.mid = y.mid /\ d.wds = y.wds /\ d.fs_fd = y.fs_fd /\ d.tried = y.tried
    /\ d.hash = y.hash /\ d.active = y.active /\ d.pend = y.pend /\ d.timer = y.timer
    /\ d.activecnt = y.activecnt /\ d.attr = y.attr /\ d.wd = y.wd
    /\ DOMAIN d.marks \subseteq DOMAIN y.marks
    /\ \A i \in DOMAIN d.marks : d.marks[i] = y.marks[i]
    /\ \A i \in DOMAIN y.marks : i \notin DOMAIN d.marks => \A E, b : Comes(d, E, i, b)
    /\ \A E, v, b : Comes(y, E, v, b) => Comes(d, E, v, b)

LEMMA ShiftsItself == \A y \in Fs : Shifts(y, y)
BY DEF Shifts

LEMMA ShiftsOn ==
    ASSUME NEW y, NEW d, NEW f, Shifts(y, d), Shifts(d, f)
    PROVE  Shifts(y, f)
<1>1. /\ f \in Fs
      /\ f.local = y.local /\ f.mid = y.mid /\ f.wds = y.wds /\ f.fs_fd = y.fs_fd /\ f.tried = y.tried
      /\ f.hash = y.hash /\ f.active = y.active /\ f.pend = y.pend /\ f.timer = y.timer
      /\ f.activecnt = y.activecnt /\ f.attr = y.attr /\ f.wd = y.wd
  BY DEF Shifts
<1>2. DOMAIN f.marks \subseteq DOMAIN y.marks /\ \A i \in DOMAIN f.marks : f.marks[i] = y.marks[i]
  BY Zenon DEF Shifts
<1>3. \A E, v, b : Comes(y, E, v, b) => Comes(f, E, v, b)
  BY Zenon DEF Shifts
<1>4. \A i \in DOMAIN y.marks : i \notin DOMAIN f.marks => \A E, b : Comes(f, E, i, b)
  BY Zenon DEF Shifts
<1> QED
  BY <1>1, <1>2, <1>3, <1>4, Zenon DEF Shifts

\* Post tells the mark of a file, if there is one.
LEMMA PostTells ==
    ASSUME NEW y \in Fs, NEW on, NEW gone \in BOOLEAN,
           \A i, j \in DOMAIN y.marks : y.marks[i] = y.marks[j] => i = j
    PROVE  LET d == Stat!Post(y, on, gone)
           IN  /\ Shifts(y, d) /\ d.path = y.path /\ d.version = y.version /\ d.clock = y.clock
               /\ d.marks = y.marks
               /\ \A i \in DOMAIN y.marks : y.marks[i] = on => \A E : Comes(d, E, i, FALSE)
<1>1. CASE Stat!Wds(y, on) = {}
  <2>1. Stat!Post(y, on, gone) = y
    BY <1>1, Zenon DEF Stat!Post
  <2>2. \A i \in DOMAIN y.marks : y.marks[i] # on
    BY <1>1 DEF Stat!Wds
  <2> QED
    BY <2>1, <2>2, ShiftsItself, Zenon
<1>2. CASE Stat!Wds(y, on) # {}
  <2> DEFINE wd == CHOOSE wd \in Stat!Wds(y, on) : TRUE
             d == Stat!post(y, wd, gone)
  <2>1. Stat!Post(y, on, gone) = d
    BY <1>2, Zenon DEF Stat!Post
  <2>2. wd \in DOMAIN y.marks /\ y.marks[wd] = on
    BY <1>2 DEF Stat!Wds
  <2> HIDE DEF wd
  <2>3. DOMAIN y.marks \subseteq Nat
    BY MarksIs DEF Fs
  <2>4. wd \in Nat
    BY <2>2, <2>3
  <2>5. PICK q \in Seq(Event) :
            /\ d \in Fs /\ d = [y EXCEPT !.queue = q]
            /\ \A E, v, b : Comes(y, E, v, b) => Comes(d, E, v, b)
            /\ \A E, b : (b => gone) => Comes(d, E, wd, b)
    BY <2>4, Posts
  <2> HIDE DEF d
  <2>6. /\ d.path = y.path /\ d.version = y.version /\ d.clock = y.clock /\ d.marks = y.marks
        /\ d.local = y.local /\ d.mid = y.mid /\ d.wds = y.wds /\ d.fs_fd = y.fs_fd /\ d.tried = y.tried
        /\ d.hash = y.hash /\ d.active = y.active /\ d.pend = y.pend /\ d.timer = y.timer
        /\ d.activecnt = y.activecnt /\ d.attr = y.attr /\ d.wd = y.wd
    BY <2>5 DEF Fs
  <2>7. Shifts(y, d)
    BY <2>5, <2>6, Zenon DEF Shifts
  <2>8. \A i \in DOMAIN y.marks : y.marks[i] = on => i = wd
    BY <2>2, Zenon
  <2>9. \A E : Comes(d, E, wd, FALSE)
    BY <2>5, Zenon
  <2> QED
    BY <2>1, <2>6, <2>7, <2>8, <2>9, Zenon
<1> QED
  BY <1>1, <1>2

\* A mark that is removed is told.
LEMMA RemoveTells ==
    ASSUME NEW y \in Fs, NEW wd \in Int
    PROVE  LET d == Stat!remove_mark(y, wd)
           IN  /\ Shifts(y, d) /\ d.path = y.path /\ d.version = y.version /\ d.clock = y.clock
               /\ wd \notin DOMAIN d.marks
<1>1. CASE wd \notin DOMAIN y.marks
  BY <1>1, ShiftsItself DEF Stat!remove_mark
<1>2. CASE wd \in DOMAIN y.marks
  <2> DEFINE m == [v \in DOMAIN y.marks \ {wd} |-> y.marks[v]]
             z == [y EXCEPT !.marks = m]
             d == Stat!post(z, wd, TRUE)
  <2>1. Stat!remove_mark(y, wd) = d
    BY <1>2, Zenon DEF Stat!remove_mark
  <2>2. DOMAIN y.marks \subseteq Nat /\ y.marks \in [DOMAIN y.marks -> Paths \cup {Stat!Dir}]
    BY MarksIs DEF Fs
  <2>3. /\ wd \in Nat /\ DOMAIN m = DOMAIN y.marks \ {wd}
        /\ \A i \in DOMAIN m : m[i] = y.marks[i]
        /\ m \in [DOMAIN m -> Paths \cup {Stat!Dir}]
    BY <1>2, <2>2
  <2> HIDE DEF m
  <2>4. m \in Marks
    BY <2>2, <2>3, MarksIs
  <2>5. z \in Fs /\ z.marks = m /\ z.queue = y.queue
    BY <2>4 DEF Fs
  <2>6. z = [y EXCEPT !.marks = m]
    OBVIOUS
  <2> HIDE DEF z
  <2>7. PICK q \in Seq(Event) :
            /\ d \in Fs /\ d = [z EXCEPT !.queue = q]
            /\ \A E, v, b : Comes(z, E, v, b) => Comes(d, E, v, b)
            /\ \A E, b : (b => TRUE) => Comes(d, E, wd, b)
    BY <2>3, <2>5, Posts
  <2> HIDE DEF d
  <2>8. /\ d.path = y.path /\ d.version = y.version /\ d.clock = y.clock /\ d.marks = m
        /\ d.local = y.local /\ d.mid = y.mid /\ d.wds = y.wds /\ d.fs_fd = y.fs_fd /\ d.tried = y.tried
        /\ d.hash = y.hash /\ d.active = y.active /\ d.pend = y.pend /\ d.timer = y.timer
        /\ d.activecnt = y.activecnt /\ d.attr = y.attr /\ d.wd = y.wd
    BY <2>5, <2>6, <2>7 DEF Fs
  <2>9. \A E, v, b : Comes(y, E, v, b) => Comes(d, E, v, b)
    <3>1. \A E, v, b : Comes(y, E, v, b) => Comes(z, E, v, b)
      BY <2>5, Zenon DEF Comes
    <3> QED
      BY <2>7, <3>1, Zenon
  <2>10. \A i \in DOMAIN y.marks : i \notin DOMAIN m => i = wd
    BY <2>3
  <2>11. \A i \in DOMAIN y.marks : i \notin DOMAIN d.marks => \A E, b : Comes(d, E, i, b)
    BY <2>7, <2>8, <2>10, Zenon
  <2>12. DOMAIN m \subseteq DOMAIN y.marks /\ wd \notin DOMAIN m
    BY <2>3
  <2>13. Shifts(y, d)
    BY <2>3, <2>7, <2>8, <2>9, <2>11, <2>12, Zenon DEF Shifts
  <2> QED
    BY <2>1, <2>8, <2>12, <2>13, Zenon
<1> QED
  BY <1>1, <1>2

-------------------------------------------------------------------------------
(* The file changes *)

LEMMA SameList == \A S : Stat!SetToSeq(S) = SetToSeq(S)
BY Zenon DEF Stat!SetToSeq, SetToSeq, Stat!Cardinality, Cardinality, Stat!IsInjective, IsInjective

\* There is at most one mark on a file.
LEMMA OneMark ==
    ASSUME NEW z \in Fs, NEW on,
           \A i, j \in DOMAIN z.marks : z.marks[i] = z.marks[j] => i = j
    PROVE  Stat!SetToSeq(Stat!Wds(z, on)) \in Seq(Nat)
<1> DEFINE S == Stat!Wds(z, on)
<1>1. S \subseteq Nat
  BY MarksIs DEF Fs, Stat!Wds
<1>2. S = {} \/ \E i : S = {i}
  <2>1. \A i, j \in S : i = j
    BY DEF Stat!Wds
  <2> HIDE DEF S
  <2>2. ASSUME NEW i \in S
        PROVE  S = {i}
    BY <2>1
  <2> QED
    BY <2>2
<1> HIDE DEF S
<1>3. IsFiniteSet(S)
  <2>1. CASE S = {}
    BY <2>1, FS_EmptySet, Zenon
  <2>2. ASSUME NEW i, S = {i}
        PROVE  IsFiniteSet(S)
    BY <2>2, FS_Singleton, Zenon
  <2> QED
    BY <1>2, <2>1, <2>2, Zenon
<1>4. SetToSeq(S) \in Seq(S)
  BY <1>3, SetToSeqOnto
<1>5. SetToSeq(S) \in Seq(Nat)
  <2> DEFINE s == SetToSeq(S)
  <2> HIDE DEF s
  <2>1. s \in Seq(S)
    BY <1>4 DEF s
  <2>2. s \in Seq(Nat)
    <3>1. Len(s) \in Nat /\ s \in [1 .. Len(s) -> S]
      BY <2>1
    <3>2. s \in [1 .. Len(s) -> Nat]
      BY <1>1, <3>1
    <3> QED
      BY <3>1, <3>2
  <2> QED
    BY <2>2 DEF s
<1> QED
  BY <1>5, SameList DEF S

\* The marks of a file that has lost its last name are removed.
LEMMA RemovesAll ==
    ASSUME NEW z \in Fs, NEW on,
           \A i, j \in DOMAIN z.marks : z.marks[i] = z.marks[j] => i = j
    PROVE  LET d == Stat!Steps(Stat!remove_mark, z, Stat!SetToSeq(Stat!Wds(z, on)))
           IN  Shifts(z, d) /\ d.path = z.path /\ d.version = z.version /\ d.clock = z.clock
<1> DEFINE s == Stat!SetToSeq(Stat!Wds(z, on))
           L == Len(s)
           op(d, w) == Stat!remove_mark(d, w)
           D(f) == [n \in 0 .. L |-> IF n = 0 THEN z
                        ELSE CHOOSE u \in {op(v, s[n]) : v \in {f[n - 1]}} : TRUE]
           after == CHOOSE f : f = D(f)
           S == [n \in 0 .. L |->
                    {d \in Fs : Shifts(z, d) /\ d.path = z.path /\ d.version = z.version /\ d.clock = z.clock}]
           g == [p \in (1 .. L) \X Fs |-> op(p[2], s[p[1]])]
<1>1. Stat!Steps(Stat!remove_mark, z, s) = after[L]
  BY Zenon DEF Stat!Steps
<1>2. /\ L \in Nat /\ L \in 0 .. L /\ \A n \in 0 .. L : n = 0 \/ n \in 1 .. L
      /\ \A n \in 1 .. L : n \in 0 .. L /\ n - 1 \in 0 .. L /\ s[n] \in Int
  <2>1. s \in Seq(Nat)
    BY OneMark
  <2> HIDE DEF s
  <2> QED
    BY <2>1
<1>3. /\ z \in S[0] /\ \A n \in 0 .. L : S[n] \subseteq Fs
      /\ \A n \in 1 .. L : \A d \in S[n - 1] : op(d, s[n]) \in S[n]
  <2>1. z \in S[0]
    BY <1>2, ShiftsItself
  <2>2. ASSUME NEW n \in 1 .. L, NEW d \in S[n - 1]
        PROVE  op(d, s[n]) \in S[n]
    <3> DEFINE f == op(d, s[n])
    <3>1. d \in Fs /\ Shifts(z, d) /\ d.path = z.path /\ d.version = z.version /\ d.clock = z.clock
      BY <1>2
    <3>2. Shifts(d, f) /\ f.path = d.path /\ f.version = d.version /\ f.clock = d.clock
      BY <1>2, <3>1, RemoveTells
    <3> HIDE DEF op, s, L
    <3>3. Shifts(z, f)
      BY <3>1, <3>2, ShiftsOn
    <3>4. f \in Fs /\ n \in 0 .. L
      BY <1>2, <3>2 DEF Shifts
    <3> QED
      BY <3>1, <3>2, <3>3, <3>4, Zenon
  <2> QED
    BY <2>1, <2>2
<1> HIDE DEF s, L, op
<1>s. S[L] = {d \in Fs : Shifts(z, d) /\ d.path = z.path /\ d.version = z.version /\ d.clock = z.clock}
  BY <1>2
<1> HIDE DEF S
<1>4. \A n \in 1 .. L : \A y \in S[n - 1] : g[<<n, y>>] = op(y, s[n])
  BY <1>2, <1>3
<1> HIDE DEF g
<1>5. Stays(L, z, S, g)
  BY <1>2, <1>3, <1>4 DEF Stays
<1> HIDE DEF S
<1>6. PICK f : LoopRun(f, L, z, g) /\ \A n \in 0 .. L : f[n] \in S[n]
  BY <1>2, <1>5, LoopRuns DEF RunStays
<1>7. f = D(f)
  <2>1. \A n \in 1 .. L : f[n] = g[<<n, f[n - 1]>>] /\ f[n - 1] \in S[n - 1]
    BY <1>2, <1>6 DEF LoopRun
  <2>2. \A n \in 1 .. L : f[n] = op(f[n - 1], s[n])
    BY <1>4, <2>1
  <2>3. \A n \in 1 .. L : f[n] = CHOOSE u \in {op(v, s[n]) : v \in {f[n - 1]}} : TRUE
    BY <2>2
  <2>4. \A n \in 0 .. L : f[n] = D(f)[n]
    BY <1>2, <1>6, <2>3 DEF LoopRun
  <2> QED
    BY <1>6, <2>4 DEF LoopRun
<1>8. after = D(after)
  BY <1>7
<1> HIDE DEF after
<1>9. after[0] = z /\ \A n \in 1 .. L : after[n] = op(after[n - 1], s[n])
  BY <1>2, <1>8
<1>10. after[L] \in S[L]
  <2>1. \A n \in 1 .. L : after[n - 1] \in S[n - 1] => after[n] = g[<<n, after[n - 1]>>]
    BY <1>4, <1>9
  <2>2. L \in Nat /\ after[0] = z
    BY <1>2, <1>9
  <2> QED
    BY <1>5, <2>1, <2>2, LoopStays
<1> QED
  BY <1>1, <1>10, <1>s, Zenon DEF s

\* What the kernel tells of a change: the mark of the file that the path
\* referred to gets an event.
Tells(y, d) ==
    /\ Shifts(y, d)
    /\ y.path \in File /\ Stat!lstat(d) # Stat!lstat(y) =>
         \A i \in DOMAIN y.marks : y.marks[i] = y.path => \A E : Comes(d, E, i, FALSE)

OnePerFile(y) == \A i, j \in DOMAIN y.marks : y.marks[i] = y.marks[j] => i = j

LEMMA TellsItself == \A y \in Fs : Tells(y, y)
BY ShiftsItself, Zenon DEF Tells

LEMMA Unlinks ==
    ASSUME NEW y \in Fs, OnePerFile(y), NEW last \in BOOLEAN
    PROVE  LET d == Stat!unlink(y, last)
           IN  /\ Shifts(y, d) /\ d.path = Missing /\ d.version = y.version /\ d.clock = y.clock
               /\ y.path \in File =>
                    \A i \in DOMAIN y.marks : y.marks[i] = y.path => \A E : Comes(d, E, i, FALSE)
<1>0. Missing \notin File
  BY FilesAssumption DEF Stat!StatAssumption
<1>1. CASE y.path = Missing
  <2>1. Stat!unlink(y, last) = y
    BY <1>1, Zenon DEF Stat!unlink
  <2> QED
    BY <1>0, <1>1, <2>1, ShiftsItself, Zenon
<1>2. CASE y.path # Missing
  <2> DEFINE p == y.path
             y1 == [y EXCEPT !.path = Missing]
             z == Stat!Post(y1, p, last)
             d == Stat!Steps(Stat!remove_mark, z, Stat!SetToSeq(Stat!Wds(z, p)))
  <2>1. Stat!unlink(y, last) = IF last THEN d ELSE z
    BY <1>2, Zenon DEF Stat!unlink
  <2>2. /\ y1 \in Fs /\ y1.path = Missing /\ y1.version = y.version /\ y1.clock = y.clock
        /\ y1.marks = y.marks /\ y1.queue = y.queue
        /\ y1.local = y.local /\ y1.mid = y.mid /\ y1.wds = y.wds /\ y1.fs_fd = y.fs_fd /\ y1.tried = y.tried
        /\ y1.hash = y.hash /\ y1.active = y.active /\ y1.pend = y.pend /\ y1.timer = y.timer
        /\ y1.activecnt = y.activecnt /\ y1.attr = y.attr /\ y1.wd = y.wd
    BY DEF Fs, Paths
  <2> HIDE DEF y1
  <2>3. Shifts(y, y1)
    <3>1. \A E, v, b : Comes(y, E, v, b) => Comes(y1, E, v, b)
      BY <2>2, Zenon DEF Comes
    <3> QED
      BY <2>2, <3>1, Zenon DEF Shifts
  <2>4. OnePerFile(y1)
    BY <2>2, Zenon DEF OnePerFile
  <2>5. /\ Shifts(y1, z) /\ z.path = Missing /\ z.version = y.version /\ z.clock = y.clock
        /\ z.marks = y.marks
        /\ \A i \in DOMAIN y.marks : y.marks[i] = p => \A E : Comes(z, E, i, FALSE)
    <3>1. /\ Shifts(y1, z) /\ z.path = y1.path /\ z.version = y1.version /\ z.clock = y1.clock
          /\ z.marks = y1.marks
          /\ \A i \in DOMAIN y1.marks : y1.marks[i] = p => \A E : Comes(z, E, i, FALSE)
      BY <2>2, <2>4, PostTells, Zenon DEF OnePerFile
    <3> QED
      BY <2>2, <3>1, Zenon
  <2> HIDE DEF z
  <2>6. z \in Fs /\ \A i, j \in DOMAIN z.marks : z.marks[i] = z.marks[j] => i = j
    BY <2>5, Zenon DEF Shifts, OnePerFile
  <2>7. Shifts(z, d) /\ d.path = Missing /\ d.version = y.version /\ d.clock = y.clock
    BY <2>5, <2>6, RemovesAll
  <2> HIDE DEF d
  <2>8. \A E, v : Comes(z, E, v, FALSE) => Comes(d, E, v, FALSE)
    BY <2>7, Zenon DEF Shifts
  <2>9. Shifts(y, z) /\ Shifts(y, d)
    BY <2>3, <2>5, <2>7, ShiftsOn
  <2>10. CASE last
    BY <2>1, <2>5, <2>7, <2>8, <2>9, <2>10, Zenon
  <2>11. CASE ~last
    BY <2>1, <2>5, <2>9, <2>11, Zenon
  <2> QED
    BY <2>10, <2>11
<1> QED
  BY <1>1, <1>2

\* A file is written to, or gets the name: then a Post tells of it.
LEMMA Writes ==
    ASSUME NEW y \in Fs, OnePerFile(y), NEW f \in File, NEW path \in {y.path, f}, NEW on
    PROVE  LET z == [y EXCEPT !.path = path, !.version[f] = y.clock, !.clock = y.clock + 1]
               d == Stat!Post(z, on, FALSE)
           IN  /\ Shifts(y, d)
               /\ \A i \in DOMAIN y.marks : y.marks[i] = on => \A E : Comes(d, E, i, FALSE)
<1> DEFINE z == [y EXCEPT !.path = path, !.version[f] = y.clock, !.clock = y.clock + 1]
           d == Stat!Post(z, on, FALSE)
<1>1. y.clock + 1 \in Nat /\ y.clock \in Nat /\ path \in Paths
  BY DEF Fs, Paths
<1>2. /\ z \in Fs /\ z.marks = y.marks /\ z.queue = y.queue
      /\ z.local = y.local /\ z.mid = y.mid /\ z.wds = y.wds /\ z.fs_fd = y.fs_fd /\ z.tried = y.tried
      /\ z.hash = y.hash /\ z.active = y.active /\ z.pend = y.pend /\ z.timer = y.timer
      /\ z.activecnt = y.activecnt /\ z.attr = y.attr /\ z.wd = y.wd
  <2> DEFINE c == y.clock + 1
             v == [y.version EXCEPT ![f] = y.clock]
  <2>1. v \in [File -> Nat] /\ c \in Nat
    BY <1>1 DEF Fs
  <2>2. z = [y EXCEPT !.path = path, !.version = v, !.clock = c]
    BY DEF Fs
  <2> HIDE DEF c, v, z
  <2> QED
    BY <1>1, <2>1, <2>2 DEF Fs
<1> HIDE DEF z
<1>3. Shifts(y, z)
  <2>1. \A E, v, b : Comes(y, E, v, b) => Comes(z, E, v, b)
    BY <1>2, Zenon DEF Comes
  <2> QED
    BY <1>2, <2>1, Zenon DEF Shifts
<1>4. \A i, j \in DOMAIN z.marks : z.marks[i] = z.marks[j] => i = j
  BY <1>2, Zenon DEF OnePerFile
<1>5. /\ Shifts(z, d)
      /\ \A i \in DOMAIN y.marks : y.marks[i] = on => \A E : Comes(d, E, i, FALSE)
  BY <1>2, <1>4, PostTells, Zenon
<1> HIDE DEF d
<1>6. Shifts(y, d)
  BY <1>3, <1>5, ShiftsOn
<1> QED
  BY <1>5, <1>6, Zenon DEF d, z

LEMMA Change ==
    ASSUME NEW y \in Fs, OnePerFile(y), NEW by \in Stat!Changes
    PROVE  Tells(y, Stat!change(y, by))
<1>0. Missing \notin File /\ (y.path = Missing \/ y.path \in File)
  BY FilesAssumption DEF Stat!StatAssumption, Fs, Paths
<1>1. CASE by.do = "none"
  BY <1>1, TellsItself DEF Stat!change
<1>2. CASE by.do = "touch"
  <2>1. CASE y.path = Missing
    <3>1. Stat!change(y, by) = y
      BY <1>2, <2>1 DEF Stat!change
    <3> QED
      BY <3>1, TellsItself
  <2>2. CASE y.path \in File
    <3> DEFINE f == y.path
               d == Stat!touch(y, f)
    <3>1. Stat!change(y, by) = d
      BY <1>0, <1>2, <2>2 DEF Stat!change
    <3>2. d = Stat!Post([y EXCEPT !.path = f, !.version[f] = y.clock, !.clock = y.clock + 1], f, FALSE)
      <4>1. [y EXCEPT !.version[f] = y.clock, !.clock = @ + 1]
            = [y EXCEPT !.path = f, !.version[f] = y.clock, !.clock = y.clock + 1]
        BY DEF Fs
      <4>2. d = Stat!Post([y EXCEPT !.version[f] = y.clock, !.clock = @ + 1], f, FALSE)
        BY Zenon DEF Stat!touch
      <4> QED
        BY <4>1, <4>2, Zenon
    <3>3. /\ Shifts(y, d)
          /\ \A i \in DOMAIN y.marks : y.marks[i] = f => \A E : Comes(d, E, i, FALSE)
      <4>1. f \in File /\ f \in {y.path, f}
        BY <2>2
      <4> HIDE DEF d, f
      <4> QED
        BY <3>2, <4>1, Writes
    <3> QED
      BY <3>1, <3>3, Zenon DEF Tells
  <2> QED
    BY <1>0, <2>1, <2>2
<1>3. CASE by.do = "unlink"
  <2>1. by.last \in BOOLEAN
    BY <1>3 DEF Stat!Changes, Stat!Quiet
  <2>2. Stat!change(y, by) = Stat!unlink(y, by.last)
    BY <1>3 DEF Stat!change
  <2>3. /\ Shifts(y, Stat!unlink(y, by.last))
        /\ y.path \in File => \A i \in DOMAIN y.marks : y.marks[i] = y.path =>
              \A E : Comes(Stat!unlink(y, by.last), E, i, FALSE)
    BY <2>1, Unlinks
  <2> QED
    BY <2>2, <2>3, Zenon DEF Tells
<1>4. CASE by.do = "link"
  <2>1. by.last \in BOOLEAN /\ by.file \in File
    BY <1>4 DEF Stat!Changes, Stat!Quiet
  <2>2. CASE by.file = y.path
    <3>1. Stat!change(y, by) = y
      BY <1>4, <2>2 DEF Stat!change
    <3> QED
      BY <3>1, TellsItself
  <2>3. CASE by.file # y.path
    <3> DEFINE f == by.file
               z == Stat!unlink(y, by.last)
               d == Stat!link(z, f)
    <3>1. Stat!change(y, by) = d
      <4>1. Stat!change(y, by) = Stat!link(Stat!Do(Stat!unlink, y, by.last), by.file)
        BY <1>4, <2>3 DEF Stat!change
      <4>2. Stat!Do(Stat!unlink, y, by.last) = z
        BY Once, Zenon
      <4> QED
        BY <4>1, <4>2, Zenon
    <3>2. /\ Shifts(y, z)
          /\ y.path \in File => \A i \in DOMAIN y.marks : y.marks[i] = y.path => \A E : Comes(z, E, i, FALSE)
      BY <2>1, Unlinks
    <3> HIDE DEF z
    <3>3. z \in Fs /\ OnePerFile(z)
      BY <3>2, Zenon DEF Shifts, OnePerFile
    <3>4. d = Stat!Post([z EXCEPT !.path = f, !.version[f] = z.clock, !.clock = z.clock + 1], Stat!Dir, FALSE)
      <4>1. [z EXCEPT !.path = f, !.version[f] = z.clock, !.clock = @ + 1]
            = [z EXCEPT !.path = f, !.version[f] = z.clock, !.clock = z.clock + 1]
        BY <3>3 DEF Fs
      <4>2. d = Stat!Post([z EXCEPT !.path = f, !.version[f] = z.clock, !.clock = @ + 1], Stat!Dir, FALSE)
        BY Zenon DEF Stat!link
      <4> QED
        BY <4>1, <4>2, Zenon
    <3>5. Shifts(z, d)
      BY <2>1, <3>3, <3>4, Writes
    <3> HIDE DEF d
    <3>6. Shifts(y, d)
      BY <3>2, <3>5, ShiftsOn
    <3>7. \A E, i : Comes(z, E, i, FALSE) => Comes(d, E, i, FALSE)
      BY <3>5, Zenon DEF Shifts
    <3> QED
      BY <3>1, <3>2, <3>6, <3>7, Zenon DEF Tells
  <2> QED
    BY <2>2, <2>3
<1>5. by.do \in {"none", "touch", "unlink", "link"}
  BY DEF Stat!Changes, Stat!Quiet
<1> QED
  BY <1>1, <1>2, <1>3, <1>4, <1>5

\* A change is in sight of every watcher without a timer.
LEMMA TellsKeeps ==
    ASSUME NEW A, NEW y \in Fs, Base(A, y), NEW d, Tells(y, d)
    PROVE  Keeps(A, y, d, {})
<1>1. /\ d \in Fs
      /\ d.hash = y.hash /\ d.active = y.active /\ d.pend = y.pend /\ d.timer = y.timer
      /\ d.activecnt = y.activecnt /\ d.attr = y.attr /\ d.wd = y.wd /\ d.wds = y.wds /\ d.fs_fd = y.fs_fd /\ d.tried = y.tried
      /\ DOMAIN d.marks \subseteq DOMAIN y.marks
      /\ \A i \in DOMAIN d.marks : d.marks[i] = y.marks[i]
      /\ \A i \in DOMAIN y.marks : i \notin DOMAIN d.marks => \A E, b : Comes(d, E, i, b)
      /\ \A E, v, b : Comes(y, E, v, b) => Comes(d, E, v, b)
  BY Zenon DEF Tells, Shifts
<1>2. Base(A, d)
  BY <1>1, Zenon DEF Base
<1>3. ASSUME NEW v \in Two, NEW E, Sees(A, y, v, E), v \in A, v \notin d.timer
      PROVE  Sees(A, d, v, E)
  <2> DEFINE i == y.wd[v]
  <2>1. /\ v \in y.hash /\ y.fs_fd
        /\ \/ Comes(y, E, i, TRUE)
           \/ /\ i \in DOMAIN y.marks /\ y.marks[i] = y.attr[v].file /\ y.attr[v].file \in File
              /\ Stat!stat_differs(y, v) => Comes(y, E, i, FALSE)
    BY <1>1, <1>3, Zenon DEF Sees
  <2> HIDE DEF i
  <2>2. CASE Comes(y, E, i, TRUE)
    BY <1>1, <2>1, <2>2, Zenon DEF Sees, i
  <2>3. CASE ~Comes(y, E, i, TRUE)
    <3>1. /\ i \in DOMAIN y.marks /\ y.marks[i] = y.attr[v].file /\ y.attr[v].file \in File
          /\ Stat!stat_differs(y, v) => Comes(y, E, i, FALSE)
      BY <2>1, <2>3, Zenon
    <3>2. CASE i \notin DOMAIN d.marks
      BY <1>1, <2>1, <3>1, <3>2, Zenon DEF Sees, i
    <3>3. CASE i \in DOMAIN d.marks
      <4>1. d.marks[i] = d.attr[v].file /\ d.attr[v].file \in File
        BY <1>1, <3>1, <3>3, Zenon
      <4>2. ASSUME Stat!stat_differs(d, v)
            PROVE  Comes(d, E, i, FALSE)
        <5>1. CASE Stat!stat_differs(y, v)
          BY <1>1, <3>1, <5>1, Zenon
        <5>2. CASE ~Stat!stat_differs(y, v)
          <6>1. Stat!lstat(y) = y.attr[v] /\ Stat!lstat(d) # y.attr[v]
            BY <1>1, <4>2, <5>2, Zenon DEF Stat!stat_differs
          <6>2. y.attr[v].file = y.path
            BY <6>1 DEF Stat!lstat
          <6> QED
            BY <3>1, <6>1, <6>2, Zenon DEF Tells
        <5> QED
          BY <5>1, <5>2
      <4> QED
        BY <1>1, <2>1, <3>3, <4>1, <4>2, Zenon DEF Sees, i
    <3> QED
      BY <3>2, <3>3
  <2> QED
    BY <2>2, <2>3
<1>4. \A v \in Two : \A E : Sees(A, y, v, E) => Sees(A, d, v, E)
  BY <1>3, Zenon DEF Sees
<1>5. \A v \in Two : Numbered(y, v) => Numbered(d, v)
  BY <1>1, Zenon DEF Numbered
<1> QED
  BY <1>1, <1>2, <1>4, <1>5, Zenon DEF Keeps

-------------------------------------------------------------------------------
(* The watchers *)

\* A removed mark is in sight of every watcher without a timer.
LEMMA ShiftsKeeps ==
    ASSUME NEW A, NEW y \in Fs, Base(A, y), NEW d, Shifts(y, d), d.path = y.path, d.version = y.version
    PROVE  Keeps(A, y, d, {}) /\ Stat!lstat(d) = Stat!lstat(y)
<1>1. Stat!lstat(d) = Stat!lstat(y)
  BY DEF Stat!lstat
<1>2. Tells(y, d)
  BY <1>1, Zenon DEF Tells
<1> QED
  BY <1>1, <1>2, TellsKeeps

\* The timer is started or stopped without a trace in the count.
LEMMA Rearms ==
    ASSUME NEW y \in Fs, NEW w \in Two, NEW r \in BOOLEAN
    PROVE  /\ Stat!timer_rearm(y, w, r) = [y EXCEPT !.timer = IF r THEN y.timer \cup {w} ELSE y.timer \ {w}]
           /\ [y EXCEPT !.timer = IF r THEN y.timer \cup {w} ELSE y.timer \ {w}] \in Fs
<1> DEFINE t == IF r THEN y.timer \cup {w} ELSE y.timer \ {w}
           d == [y EXCEPT !.timer = t]
           by == (IF r THEN 1 ELSE 0) - (IF w \in y.timer THEN 1 ELSE 0)
           y1 == Stat!timer_ref(y, w, 1)
           y2 == Stat!timer_again(y1, w, r)
<1>1. t \in SUBSET Two /\ y.timer \subseteq Two /\ y.activecnt \in Int /\ by \in Int
  BY DEF Fs
<1>2. /\ y1.timer = y.timer /\ y1 = [y EXCEPT !.activecnt = y1.activecnt]
      /\ y1.activecnt = IF w \in y.timer THEN y.activecnt + 1 ELSE y.activecnt
  BY DEF Fs, Stat!timer_ref
<1>3. y2 = [y1 EXCEPT !.timer = t, !.activecnt = y1.activecnt + (IF r THEN 1 ELSE 0) - (IF w \in y.timer THEN 1 ELSE 0)]
  BY <1>2 DEF Stat!timer_again
<1> HIDE DEF y1
<1>4. y2 = [y EXCEPT !.timer = t, !.activecnt = y1.activecnt + (IF r THEN 1 ELSE 0) - (IF w \in y.timer THEN 1 ELSE 0)]
  <2> DEFINE c == y1.activecnt + (IF r THEN 1 ELSE 0) - (IF w \in y.timer THEN 1 ELSE 0)
             e == y1.activecnt
  <2>1. y2 = [y1 EXCEPT !.timer = t, !.activecnt = c]
    BY <1>3
  <2>2. y1 = [y EXCEPT !.activecnt = e]
    BY <1>2
  <2> HIDE DEF c, e, t, y2
  <2>3. y2 = [y EXCEPT !.timer = t, !.activecnt = c]
    BY <2>1, <2>2 DEF Fs
  <2> QED
    BY <2>3 DEF c
<1>5. y2 = [y EXCEPT !.timer = t, !.activecnt = IF r THEN y.activecnt + 1 ELSE y.activecnt]
  <2>1. y1.activecnt + (IF r THEN 1 ELSE 0) - (IF w \in y.timer THEN 1 ELSE 0)
        = IF r THEN y.activecnt + 1 ELSE y.activecnt
    BY <1>1, <1>2
  <2> QED
    BY <1>4, <2>1, Zenon
<1> HIDE DEF y2
<1>6. Stat!timer_ref(y2, w, -1) = d
  <2>1. w \in t <=> r
    OBVIOUS
  <2> HIDE DEF t
  <2>2. CASE r
    <3> DEFINE c == y.activecnt + 1
    <3>1. y2 = [y EXCEPT !.timer = t, !.activecnt = c]
      BY <1>5, <2>2
    <3>2. c + -1 = y.activecnt
      BY <1>1
    <3> HIDE DEF c
    <3>3. y2.timer = t /\ y2.activecnt = c
      BY <3>1 DEF Fs
    <3>4. Stat!timer_ref(y2, w, -1) = [y2 EXCEPT !.activecnt = c + -1]
      BY <2>1, <2>2, <3>3 DEF Stat!timer_ref
    <3> QED
      BY <3>1, <3>2, <3>4 DEF Fs
  <2>3. CASE ~r
    <3>1. y2 = [y EXCEPT !.timer = t, !.activecnt = y.activecnt]
      BY <1>5, <2>3
    <3>2. y2 = d /\ y2.timer = t
      BY <3>1 DEF Fs
    <3> QED
      BY <2>1, <2>3, <3>2 DEF Stat!timer_ref
  <2> QED
    BY <2>2, <2>3
<1>7. Stat!timer_rearm(y, w, r) = d
  BY <1>6, Zenon DEF Stat!timer_rearm, y1, y2
<1>8. d \in Fs
  <2> HIDE DEF t
  <2> QED
    BY <1>1 DEF Fs
<1> QED
  BY <1>7, <1>8, Zenon

\* A mark on what has none is a new one, if there is another.
Marked(y, d) ==
    /\ d \in Fs
    /\ d = [y EXCEPT !.marks = d.marks, !.wds = d.wds]
    /\ \A i \in DOMAIN y.marks : i \in DOMAIN d.marks /\ d.marks[i] = y.marks[i]
    /\ \A i \in DOMAIN d.marks : i < d.wds
    /\ OnePerFile(d)

LEMMA Adds ==
    ASSUME NEW A, NEW y \in Fs, Base(A, y), NEW on \in Paths \cup {Stat!Dir}
    PROVE  Marked(y, Stat!inotify_add_watch(y, on))
<1> DEFINE C == Stat!Wds(y, on) # {} \/ Stat!Cardinality(DOMAIN y.marks) >= 2
           m == [wd \in DOMAIN y.marks \cup {y.wds} |-> IF wd = y.wds THEN on ELSE y.marks[wd]]
           n == y.wds + 1
           d == [y EXCEPT !.marks = m, !.wds = n]
<1>1. Stat!inotify_add_watch(y, on) = IF C THEN y ELSE d
  BY Zenon DEF Stat!inotify_add_watch
<1>2. C => Stat!inotify_add_watch(y, on) = y
  BY <1>1
<1>3. ~C => Stat!inotify_add_watch(y, on) = d /\ \A i \in DOMAIN y.marks : y.marks[i] # on
  BY <1>1 DEF Stat!Wds
<1> HIDE DEF C
<1>4. /\ DOMAIN y.marks \subseteq Nat /\ y.marks \in [DOMAIN y.marks -> Paths \cup {Stat!Dir}]
      /\ y.wds \in Nat /\ y.marks \in Marks
  BY MarksIs DEF Fs
<1>5. \A i \in DOMAIN y.marks : i \in Nat /\ i < y.wds
  BY <1>4 DEF Base
<1>6. CASE C
  <2>1. y = [y EXCEPT !.marks = y.marks, !.wds = y.wds]
    BY DEF Fs
  <2>2. OnePerFile(y) /\ \A i \in DOMAIN y.marks : i < y.wds
    BY <1>5, Zenon DEF Base, OnePerFile
  <2> QED
    BY <1>2, <1>6, <2>1, <2>2, Zenon DEF Marked
<1>7. CASE ~C
  <2>1. /\ DOMAIN m = DOMAIN y.marks \cup {y.wds} /\ m[y.wds] = on
        /\ \A i \in DOMAIN y.marks : i \in DOMAIN m /\ m[i] = y.marks[i]
    BY <1>5
  <2>2. m \in [DOMAIN m -> Paths \cup {Stat!Dir}] /\ DOMAIN m \subseteq Nat
    BY <1>4
  <2>3. \A i \in DOMAIN m : i \in DOMAIN y.marks \/ i = y.wds
    BY <2>1
  <2> HIDE DEF m
  <2>4. m \in Marks
    BY <2>2, MarksIs
  <2>5. n \in Nat /\ \A i \in DOMAIN m : i < n
    BY <1>4, <1>5, <2>3
  <2> HIDE DEF n
  <2>6. d \in Fs /\ d.marks = m /\ d.wds = n
    BY <2>4, <2>5 DEF Fs
  <2>7. \A i, j \in DOMAIN m : m[i] = m[j] => i = j
    <3>1. \A i, j \in DOMAIN y.marks : y.marks[i] = y.marks[j] => i = j
      BY Zenon DEF Base
    <3>2. \A i \in DOMAIN y.marks : y.marks[i] # on
      BY <1>3, <1>7
    <3> QED
      BY <2>1, <2>3, <3>1, <3>2, Zenon
  <2>8. d = [y EXCEPT !.marks = d.marks, !.wds = d.wds]
    BY <2>6
  <2> HIDE DEF d
  <2>9. OnePerFile(d) /\ \A i \in DOMAIN d.marks : i < d.wds
    BY <2>5, <2>6, <2>7, Zenon DEF OnePerFile
  <2>10. \A i \in DOMAIN y.marks : i \in DOMAIN d.marks /\ d.marks[i] = y.marks[i]
    BY <2>1, <2>6, Zenon
  <2>11. Stat!inotify_add_watch(y, on) = d
    BY <1>3, <1>7
  <2> QED
    BY <2>6, <2>8, <2>9, <2>10, <2>11, Zenon DEF Marked
<1> QED
  BY <1>6, <1>7

\* The watcher has a timer or a mark on its file.
Follows(y, w) ==
    w \notin y.timer =>
        /\ w \in y.hash /\ y.fs_fd
        /\ y.wd[w] \in DOMAIN y.marks /\ y.marks[y.wd[w]] = y.path /\ y.path \in File

LEMMA FollowsSees ==
    ASSUME NEW y, NEW w, Follows(y, w), y.attr[w] = Stat!lstat(y)
    PROVE  \A A, E : Sees(A, y, w, E)
<1>1. y.attr[w].file = y.path
  BY DEF Stat!lstat
<1> QED
  BY <1>1, Zenon DEF Follows, Sees, Stat!stat_differs

\* The watcher w finds its file anew, or is given up: the others see theirs.
LEMMA AddKeeps ==
    ASSUME NEW A, NEW y \in Fs, Base(A, y), NEW w \in Two, w \in A, w \notin y.hash, y.fs_fd
    PROVE  LET d == Stat!infy_add(y, w)
           IN  /\ Keeps(A, y, d, {w})
               /\ d.attr = y.attr /\ d.pend = y.pend /\ d.mid = y.mid
               /\ d.path = y.path /\ d.version = y.version
               /\ Follows(d, w) /\ Numbered(d, w)
               /\ \A u \in Two \ {w} : u \in d.hash <=> u \in y.hash
<1> DEFINE on == IF y.path = Missing THEN Stat!Dir ELSE y.path
           z == Stat!inotify_add_watch(y, on)
           v == CHOOSE v \in Stat!Wds(z, on) : TRUE
           none == Stat!Wds(z, on) = {}
           id == IF none THEN -1 ELSE v
           hash == IF none THEN y.hash ELSE y.hash \cup {w}
           polls == none \/ on = Stat!Dir \/ ~y.local
           timer == IF polls THEN y.timer \cup {w} ELSE y.timer \ {w}
           wd == [y.wd EXCEPT ![w] = id]
           d == Stat!infy_add(y, w)
<1>1. on \in Paths \cup {Stat!Dir} /\ (on = Stat!Dir \/ on = y.path) /\ (on = y.path => y.path \in Paths)
  BY DEF Fs
<1>0. on # Stat!Dir => on = y.path /\ on \in File
  BY DEF Fs, Paths
<1> HIDE DEF on
<1>b. Marked(y, z)
  BY <1>1, Adds
<1>2. z = [y EXCEPT !.marks = z.marks, !.wds = z.wds]
  BY <1>b DEF Marked
<1>3. /\ z \in Fs
      /\ \A i \in DOMAIN y.marks : i \in DOMAIN z.marks /\ z.marks[i] = y.marks[i]
      /\ \A i \in DOMAIN z.marks : i < z.wds
      /\ OnePerFile(z)
  BY <1>b DEF Marked
<1>4. /\ ~none => v \in DOMAIN z.marks /\ z.marks[v] = on
      /\ DOMAIN z.marks \subseteq Nat
  BY <1>3, MarksIs DEF Stat!Wds, Fs
<1>5. id \in Int /\ (id >= 0 <=> ~none) /\ (~none => id = v)
  BY <1>4
<1>a. none \in BOOLEAN /\ polls \in BOOLEAN /\ (none => polls)
  OBVIOUS
<1> DEFINE z1 == [z EXCEPT !.wd = wd, !.hash = hash]
<1>6. wd \in [Two -> Int] /\ wd[w] = id /\ \A u \in Two \ {w} : wd[u] = y.wd[u]
  BY <1>5 DEF Fs
<1>7. hash \in SUBSET Two /\ (w \in hash <=> ~none) /\ \A u \in Two \ {w} : u \in hash <=> u \in y.hash
  BY DEF Fs
<1>8. d = Stat!timer_rearm(z1, w, polls)
  <2> HIDE DEF z
  <2>1. z.wd = y.wd /\ z.hash = y.hash
    BY <1>2, <1>3 DEF Fs
  <2>2. Stat!Do(Stat!inotify_add_watch, y, on) = z
    BY Once, Zenon DEF z
  <2>3. d = IF none THEN Stat!timer_rearm([z EXCEPT !.wd[w] = -1], w, TRUE)
            ELSE Stat!timer_rearm([z EXCEPT !.wd[w] = v, !.hash = @ \cup {w}], w, on = Stat!Dir \/ ~y.local)
    <3> DEFINE R(q) == IF Stat!Wds(q, on) = {} THEN Stat!timer_rearm([q EXCEPT !.wd[w] = -1], w, TRUE)
                       ELSE Stat!timer_rearm([q EXCEPT !.wd[w] = CHOOSE u \in Stat!Wds(q, on) : TRUE,
                                                       !.hash = @ \cup {w}],
                                             w, on = Stat!Dir \/ ~y.local)
    <3>1. d = R(Stat!Do(Stat!inotify_add_watch, y, on))
      BY DEF Stat!infy_add, on
    <3>2. R(z) = IF none THEN Stat!timer_rearm([z EXCEPT !.wd[w] = -1], w, TRUE)
                 ELSE Stat!timer_rearm([z EXCEPT !.wd[w] = v, !.hash = @ \cup {w}], w, on = Stat!Dir \/ ~y.local)
      OBVIOUS
    <3> HIDE DEF R, d
    <3>3. d = R(z)
      BY <2>2, <3>1, Zenon
    <3> QED
      BY <3>2, <3>3, Zenon
  <2>4. CASE none
    <3>1. z1 = [z EXCEPT !.wd[w] = -1]
      BY <1>3, <2>1, <2>4 DEF Fs
    <3> QED
      BY <2>3, <2>4, <3>1
  <2>5. CASE ~none
    <3>1. z1 = [z EXCEPT !.wd[w] = v, !.hash = @ \cup {w}]
      BY <1>3, <2>1, <2>5 DEF Fs
    <3>2. polls = (on = Stat!Dir \/ ~y.local)
      BY <2>5
    <3> QED
      BY <2>3, <2>5, <3>1, <3>2
  <2> QED
    BY <2>4, <2>5
<1> HIDE DEF z, none, wd, hash, id
<1>9. /\ z1 \in Fs /\ z1.timer = y.timer /\ z1.wd = wd /\ z1.hash = hash
      /\ z1.marks = z.marks /\ z1.wds = z.wds
      /\ z1.path = y.path /\ z1.version = y.version /\ z1.mid = y.mid /\ z1.queue = y.queue
      /\ z1.fs_fd = y.fs_fd /\ z1.tried = y.tried /\ z1.active = y.active /\ z1.pend = y.pend
      /\ z1.activecnt = y.activecnt /\ z1.attr = y.attr
  BY <1>2, <1>3, <1>6, <1>7 DEF Fs
<1> HIDE DEF z1, polls
<1>10. d = [z1 EXCEPT !.timer = timer] /\ d \in Fs
  <2> DEFINE t == IF polls THEN z1.timer \cup {w} ELSE z1.timer \ {w}
  <2>1. Stat!timer_rearm(z1, w, polls) = [z1 EXCEPT !.timer = t] /\ [z1 EXCEPT !.timer = t] \in Fs
    BY <1>9, <1>a, Rearms
  <2>2. t = timer
    BY <1>9, Zenon
  <2> HIDE DEF t, d, timer
  <2> QED
    BY <1>8, <2>1, <2>2
<1> HIDE DEF d
<1>11. /\ d.timer = timer /\ d.wd = wd /\ d.hash = hash /\ d.marks = z.marks /\ d.wds = z.wds
       /\ d.path = y.path /\ d.version = y.version /\ d.mid = y.mid /\ d.queue = y.queue
       /\ d.fs_fd = y.fs_fd /\ d.tried = y.tried /\ d.active = y.active /\ d.pend = y.pend
       /\ d.activecnt = y.activecnt /\ d.attr = y.attr
  BY <1>9, <1>10 DEF Fs
<1>12. /\ w \in timer <=> polls
       /\ \A u \in Two \ {w} : u \in timer <=> u \in y.timer
       /\ timer \subseteq y.timer \cup {w}
  OBVIOUS
<1> HIDE DEF timer
<1>13. Stat!lstat(d) = Stat!lstat(y)
  BY <1>11, Zenon DEF Stat!lstat
<1>14. Base(A, d)
  <2>1. d.hash \subseteq A /\ d.timer \subseteq A /\ d.pend \subseteq A
    <3>1. y.hash \subseteq A /\ y.timer \subseteq A /\ y.pend \subseteq A
      BY DEF Base
    <3>2. d.hash \subseteq A
      BY <1>11, <3>1 DEF hash
    <3> QED
      BY <1>11, <1>12, <3>1, <3>2
  <2>2. d.fs_fd
    BY <1>11
  <2> QED
    BY <1>3, <1>11, <2>1, <2>2, Zenon DEF Base, OnePerFile
<1>15. ASSUME NEW u \in Two \ {w}, NEW E, Sees(A, y, u, E)
       PROVE  Sees(A, d, u, E)
  <2>1. d.wd[u] = y.wd[u] /\ (u \in d.hash <=> u \in y.hash) /\ (u \in d.timer <=> u \in y.timer)
    BY <1>6, <1>7, <1>11, <1>12, Zenon
  <2>2. \A i, b : Comes(y, E, i, b) => Comes(d, E, i, b)
    BY <1>11, Zenon DEF Comes
  <2>3. Stat!stat_differs(d, u) => Stat!stat_differs(y, u)
    BY <1>11, <1>13, Zenon DEF Stat!stat_differs
  <2> QED
    BY <1>3, <1>11, <1>15, <2>1, <2>2, <2>3, Zenon DEF Sees
<1>16. Follows(d, w)
  <2>1. CASE polls
    BY <1>11, <1>12, <2>1, Zenon DEF Follows
  <2>2. CASE ~polls
    <3>1. ~none /\ on # Stat!Dir
      BY <2>2, <1>a DEF polls
    <3>2. w \in d.hash /\ d.fs_fd /\ d.wd[w] = v /\ v \in DOMAIN d.marks /\ d.marks[v] = on
      BY <1>4, <1>5, <1>6, <1>7, <1>11, <3>1, Zenon
    <3>3. on = d.path /\ on \in File
      BY <1>0, <1>11, <3>1
    <3> QED
      BY <3>2, <3>3, Zenon DEF Follows
  <2> QED
    BY <2>1, <2>2
<1>18. Numbered(d, w) /\ \A u \in Two : Numbered(y, u) => Numbered(d, u)
  BY <1>5, <1>6, <1>7, <1>11, Zenon DEF Numbered
<1>19. \A u \in Two \ {w} : u \in d.hash <=> u \in y.hash
  BY <1>7, <1>11, Zenon
<1>17. Keeps(A, y, d, {w})
  BY <1>10, <1>11, <1>14, <1>15, <1>18, Zenon DEF Keeps
<1> QED
  BY <1>11, <1>16, <1>17, <1>18, <1>19, Zenon DEF d

LEMMA DelKeeps ==
    ASSUME NEW A, NEW y \in Fs, Base(A, y), NEW w \in Two, Numbered(y, w)
    PROVE  LET d == Stat!infy_del(y, w)
           IN  /\ Keeps(A, y, d, {w})
               /\ w \notin d.hash /\ d.timer = y.timer
               /\ d.attr = y.attr /\ d.pend = y.pend /\ d.mid = y.mid
               /\ d.path = y.path /\ d.version = y.version
<1>0. y.wd \in [Two -> Int] /\ y.hash \subseteq Two
  BY DEF Fs
<1>1. CASE y.wd[w] < 0
  <2>1. Stat!infy_del(y, w) = y
    BY <1>1, Zenon DEF Stat!infy_del
  <2>2. w \notin y.hash
    <3>1. y.wd[w] >= 0 <=> w \in y.hash
      BY DEF Numbered
    <3> QED
      BY <1>0, <1>1, <3>1
  <2> QED
    BY <2>1, <2>2, KeepsItself, Zenon
<1>2. CASE ~(y.wd[w] < 0)
  <2> DEFINE hash == y.hash \ {w}
             wd == [y.wd EXCEPT ![w] = -2]
             z == [y EXCEPT !.wd = wd, !.hash = hash]
             i == y.wd[w]
             d == Stat!remove_mark(z, i)
  <2>1. Stat!infy_del(y, w) = d
    <3>1. Stat!infy_del(y, w) = Stat!remove_mark([y EXCEPT !.wd[w] = -2, !.hash = @ \ {w}], y.wd[w])
      BY <1>2, Zenon DEF Stat!infy_del
    <3>2. [y EXCEPT !.wd[w] = -2, !.hash = @ \ {w}] = z
      BY DEF Fs
    <3> QED
      BY <3>1, <3>2, Zenon
  <2>2. /\ wd \in [Two -> Int] /\ wd[w] = -2 /\ \A u \in Two \ {w} : wd[u] = y.wd[u]
        /\ hash \subseteq Two /\ w \notin hash /\ hash \subseteq y.hash
        /\ \A u \in Two \ {w} : u \in hash <=> u \in y.hash
    BY <1>0
  <2>3. i \in Int
    BY <1>0
  <2> HIDE DEF wd, hash
  <2>4. /\ z \in Fs /\ z.wd = wd /\ z.hash = hash
        /\ z.marks = y.marks /\ z.wds = y.wds /\ z.timer = y.timer
        /\ z.path = y.path /\ z.version = y.version /\ z.mid = y.mid /\ z.queue = y.queue
        /\ z.fs_fd = y.fs_fd /\ z.tried = y.tried /\ z.active = y.active /\ z.pend = y.pend
        /\ z.activecnt = y.activecnt /\ z.attr = y.attr
    BY <2>2 DEF Fs
  <2> HIDE DEF z, i
  <2>5. Base(A, z)
    <3>1. z.hash \subseteq A /\ (z.hash # {} => z.fs_fd)
      BY <2>2, <2>4 DEF Base
    <3> QED
      BY <2>4, <3>1, Zenon DEF Base
  <2>6. Keeps(A, y, z, {w})
    <3>1. ASSUME NEW u \in Two \ {w}, NEW E, Sees(A, y, u, E)
          PROVE  Sees(A, z, u, E)
      <4>1. z.wd[u] = y.wd[u] /\ (u \in z.hash <=> u \in y.hash)
        BY <2>2, <2>4, Zenon
      <4>2. \A j, b : Comes(y, E, j, b) => Comes(z, E, j, b)
        BY <2>4, Zenon DEF Comes
      <4>3. Stat!stat_differs(z, u) => Stat!stat_differs(y, u)
        BY <2>4, Zenon DEF Stat!stat_differs, Stat!lstat
      <4> QED
        BY <2>4, <3>1, <4>1, <4>2, <4>3, Zenon DEF Sees
    <3>2. ~(z.wd[w] >= 0)
      BY <2>2, <2>4
    <3>3. \A u \in Two : Numbered(y, u) => Numbered(z, u)
      BY <2>2, <2>4, <3>2, Zenon DEF Numbered
    <3> QED
      BY <2>4, <2>5, <3>1, <3>3, Zenon DEF Keeps
  <2>7. Shifts(z, d) /\ d.path = z.path /\ d.version = z.version
    BY <2>3, <2>4, RemoveTells
  <2> HIDE DEF d
  <2>8. Keeps(A, z, d, {w})
    BY <2>4, <2>5, <2>7, ShiftsKeeps, KeepsMore
  <2>9. d.hash = z.hash /\ d.timer = z.timer /\ d.attr = z.attr /\ d.pend = z.pend /\ d.mid = z.mid
    BY <2>7, Zenon DEF Shifts
  <2> QED
    BY <2>1, <2>2, <2>4, <2>6, <2>7, <2>8, <2>9, KeepsOn, Zenon
<1> QED
  BY <1>1, <1>2

\* What libev remembers of the path changes for w alone.
LEMMA StatKeeps ==
    ASSUME NEW A, NEW y \in Fs, Base(A, y), NEW w \in Two
    PROVE  LET d == Stat!ev_stat_stat(y, w)
           IN  /\ Keeps(A, y, d, {w})
               /\ d.attr[w] = Stat!lstat(d) /\ d.pend = y.pend /\ d.mid = y.mid
               /\ d.timer = y.timer /\ d.hash = y.hash
               /\ d.path = y.path /\ d.version = y.version
               /\ Follows(y, w) => Follows(d, w)
<1> DEFINE l == Stat!lstat(y)
           attr == [y.attr EXCEPT ![w] = l]
           d == [y EXCEPT !.attr = attr]
<1>1. l \in Attr
  BY DEF Fs, Attr, Paths, Stat!lstat
<1> HIDE DEF l
<1>2. attr \in [Two -> Attr] /\ attr[w] = l /\ \A u \in Two \ {w} : attr[u] = y.attr[u]
  BY <1>1 DEF Fs
<1>3. Stat!ev_stat_stat(y, w) = d
  BY DEF Stat!ev_stat_stat, Fs, l
<1> HIDE DEF attr
<1>4. /\ d \in Fs /\ d.attr = attr /\ d.hash = y.hash /\ d.timer = y.timer /\ d.pend = y.pend
      /\ d.marks = y.marks /\ d.wds = y.wds /\ d.queue = y.queue /\ d.wd = y.wd
      /\ d.path = y.path /\ d.version = y.version /\ d.mid = y.mid
      /\ d.fs_fd = y.fs_fd /\ d.tried = y.tried /\ d.active = y.active /\ d.activecnt = y.activecnt
  BY <1>2 DEF Fs
<1> HIDE DEF d
<1>5. Base(A, d)
  BY <1>4, Zenon DEF Base
<1>6. Stat!lstat(d) = l
  BY <1>4 DEF Stat!lstat, l
<1>7. ASSUME NEW u \in Two \ {w}, NEW E, Sees(A, y, u, E)
      PROVE  Sees(A, d, u, E)
  <2>1. \A j, b : Comes(y, E, j, b) => Comes(d, E, j, b)
    BY <1>4, Zenon DEF Comes
  <2>2. Stat!stat_differs(d, u) => Stat!stat_differs(y, u)
    BY <1>2, <1>4, <1>6, Zenon DEF Stat!stat_differs, l
  <2> QED
    BY <1>2, <1>4, <1>7, <2>1, <2>2, Zenon DEF Sees
<1>8. \A u \in Two : Numbered(y, u) => Numbered(d, u)
  BY <1>4, Zenon DEF Numbered
<1>9. Keeps(A, y, d, {w})
  BY <1>2, <1>4, <1>5, <1>7, <1>8, Zenon DEF Keeps
<1>10. Follows(y, w) => Follows(d, w)
  BY <1>4, Zenon DEF Follows
<1> QED
  BY <1>2, <1>3, <1>4, <1>6, <1>9, <1>10, Zenon

\* A change during a callback is in sight.
LEMMA MeanwhileKeeps ==
    ASSUME NEW A, NEW y \in Fs, Base(A, y)
    PROVE  LET d == Stat!meanwhile(y)
           IN  /\ Keeps(A, y, d, {})
               /\ d.attr = y.attr /\ d.pend = y.pend /\ d.timer = y.timer /\ d.hash = y.hash
               /\ d.mid = Stat!Quiet
<1> DEFINE c == Stat!change(y, y.mid)
           d == [c EXCEPT !.mid = Stat!Quiet]
<1>1. Stat!meanwhile(y) = d
  <2>1. Stat!Do(Stat!change, y, y.mid) = c
    BY Once, Zenon
  <2>2. Stat!meanwhile(y) = [Stat!Do(Stat!change, y, y.mid) EXCEPT !.mid = Stat!Quiet]
    BY Zenon DEF Stat!meanwhile
  <2> HIDE DEF c
  <2> QED
    BY <2>1, <2>2
<1>2. y.mid \in Stat!Changes /\ OnePerFile(y)
  BY DEF Fs, Base, OnePerFile
<1>3. Tells(y, c)
  BY <1>2, Change
<1> HIDE DEF c
<1>4. Keeps(A, y, c, {})
  BY <1>3, TellsKeeps
<1>5. /\ c \in Fs /\ Base(A, c)
      /\ c.attr = y.attr /\ c.pend = y.pend /\ c.timer = y.timer /\ c.hash = y.hash
  BY <1>3, <1>4, Zenon DEF Keeps, Tells, Shifts
<1>6. Stat!Quiet \in Stat!Changes
  BY DEF Stat!Changes
<1>7. /\ d \in Fs /\ d.attr = c.attr /\ d.hash = c.hash /\ d.timer = c.timer /\ d.pend = c.pend
      /\ d.marks = c.marks /\ d.wds = c.wds /\ d.queue = c.queue /\ d.wd = c.wd
      /\ d.path = c.path /\ d.version = c.version /\ d.mid = Stat!Quiet
      /\ d.fs_fd = c.fs_fd /\ d.tried = c.tried /\ d.active = c.active /\ d.activecnt = c.activecnt
  <2> DEFINE q == Stat!Quiet
  <2>1. q \in Stat!Changes /\ d = [c EXCEPT !.mid = q]
    BY <1>6
  <2> HIDE DEF q, d
  <2>2. /\ d \in Fs /\ d.attr = c.attr /\ d.hash = c.hash /\ d.timer = c.timer /\ d.pend = c.pend
        /\ d.marks = c.marks /\ d.wds = c.wds /\ d.queue = c.queue /\ d.wd = c.wd
        /\ d.path = c.path /\ d.version = c.version /\ d.mid = q
        /\ d.fs_fd = c.fs_fd /\ d.tried = c.tried /\ d.active = c.active /\ d.activecnt = c.activecnt
    BY <1>5, <2>1 DEF Fs
  <2> QED
    BY <2>2, Zenon DEF q
<1> HIDE DEF d
<1>8. Keeps(A, c, d, {})
  <2>1. Base(A, d)
    BY <1>5, <1>7, Zenon DEF Base
  <2>2. \A u \in Two : Numbered(c, u) => Numbered(d, u)
    BY <1>7, Zenon DEF Numbered
  <2>3. ASSUME NEW u \in Two, NEW E, Sees(A, c, u, E)
        PROVE  Sees(A, d, u, E)
    <3>1. \A j, b : Comes(c, E, j, b) => Comes(d, E, j, b)
      BY <1>7, Zenon DEF Comes
    <3>2. Stat!stat_differs(d, u) => Stat!stat_differs(c, u)
      BY <1>7, Zenon DEF Stat!stat_differs, Stat!lstat
    <3> QED
      BY <1>7, <2>3, <3>1, <3>2, Zenon DEF Sees
  <2> QED
    BY <1>7, <2>1, <2>2, <2>3, Zenon DEF Keeps
<1>9. Keeps(A, y, d, {})
  BY <1>4, <1>8, KeepsOn, Zenon
<1> QED
  BY <1>1, <1>5, <1>7, <1>9, Zenon

\* After a second look the watcher sees its file.
LEMMA RearmKeeps ==
    ASSUME NEW A, NEW y \in Fs, Base(A, y), NEW w \in Two, w \in A, Numbered(y, w),
           y.fs_fd \/ w \in y.timer
    PROVE  LET d == Stat!stat_rearm(y, w)
           IN  Keeps(A, y, d, {w}) /\ (\A E : Sees(A, d, w, E)) /\ d.pend = y.pend
<1>1. CASE ~y.fs_fd
  <2>1. Stat!stat_rearm(y, w) = y
    BY <1>1, Zenon DEF Stat!stat_rearm
  <2>2. \A E : Sees(A, y, w, E)
    BY <1>1, Zenon DEF Sees
  <2> QED
    BY <2>1, <2>2, KeepsItself, Zenon
<1>2. CASE y.fs_fd
  <2> DEFINE a == Stat!infy_del(y, w)
             b == Stat!infy_add(a, w)
             d == Stat!ev_stat_stat(b, w)
  <2>1. Stat!stat_rearm(y, w) = d
    <3>1. Stat!stat_rearm(y, w) = Stat!ev_stat_stat(Stat!Do(Stat!infy_add, Stat!Do(Stat!infy_del, y, w), w), w)
      BY <1>2, Zenon DEF Stat!stat_rearm
    <3>2. Stat!Do(Stat!infy_del, y, w) = a /\ Stat!Do(Stat!infy_add, a, w) = b
      BY Once, Zenon
    <3> HIDE DEF a, b
    <3> QED
      BY <3>1, <3>2, Zenon
  <2>2. Keeps(A, y, a, {w}) /\ w \notin a.hash /\ a.pend = y.pend
    BY DelKeeps
  <2> HIDE DEF a
  <2>3. a \in Fs /\ Base(A, a) /\ a.fs_fd
    BY <1>2, <2>2, Zenon DEF Keeps
  <2>4. Keeps(A, a, b, {w}) /\ Follows(b, w) /\ b.pend = a.pend
    BY <2>2, <2>3, AddKeeps
  <2> HIDE DEF b
  <2>5. b \in Fs /\ Base(A, b)
    BY <2>4, Zenon DEF Keeps
  <2>6. Keeps(A, b, d, {w}) /\ Follows(d, w) /\ d.attr[w] = Stat!lstat(d) /\ d.pend = b.pend
    BY <2>4, <2>5, StatKeeps
  <2> HIDE DEF d
  <2>7. \A E : Sees(A, d, w, E)
    BY <2>6, FollowsSees, Zenon
  <2>8. Keeps(A, y, d, {w})
    BY <2>2, <2>4, <2>6, KeepsOn, Zenon
  <2> QED
    BY <2>1, <2>2, <2>4, <2>6, <2>7, <2>8, Zenon
<1> QED
  BY <1>1, <1>2

\* A difference is noticed, and the watcher is told; or there is none.
LEMMA TimerKeeps ==
    ASSUME NEW A, NEW y \in Fs, Base(A, y), NEW w \in Two, w \in A, Numbered(y, w),
           y.fs_fd \/ w \in y.timer
    PROVE  LET d == Stat!stat_timer_cb(y, w)
           IN  /\ Keeps(A, y, d, {w})
               /\ d.attr[w] = y.attr[w] \/ w \in d.pend
               /\ (\A E : Sees(A, d, w, E)) \/ (d = y /\ ~Stat!stat_differs(y, w))
<1>1. CASE ~Stat!stat_differs(y, w)
  <2>1. Stat!stat_timer_cb(y, w) = y
    BY <1>1, Zenon DEF Stat!stat_timer_cb
  <2> QED
    BY <1>1, <2>1, KeepsItself, Zenon
<1>2. CASE Stat!stat_differs(y, w)
  <2> DEFINE e == Stat!ev_stat_stat(y, w)
             a == Stat!stat_looked(y, w)
             b == Stat!stat_rearm(a, w)
             rest == b.pend \cup {w}
             d == [b EXCEPT !.pend = rest]
  <2>1. Stat!stat_timer_cb(y, w) = d
    <3>1. Stat!stat_timer_cb(y, w)
          = [Stat!Do(Stat!stat_rearm, Stat!Do(Stat!stat_looked, y, w), w) EXCEPT !.pend = @ \cup {w}]
      BY <1>2, Zenon DEF Stat!stat_timer_cb
    <3>2. Stat!Do(Stat!stat_looked, y, w) = a /\ Stat!Do(Stat!stat_rearm, a, w) = b
      BY Once, Zenon
    <3> HIDE DEF a, b
    <3> QED
      BY <3>1, <3>2
  <2>2. Keeps(A, y, e, {w}) /\ e.pend = y.pend /\ e.timer = y.timer
    BY StatKeeps
  <2>3. a = Stat!meanwhile(e)
    BY Zenon DEF Stat!stat_looked
  <2> HIDE DEF e, a
  <2>4. e \in Fs /\ Base(A, e) /\ e.fs_fd = y.fs_fd /\ e.tried = y.tried /\ Numbered(e, w)
    BY <2>2, Zenon DEF Keeps
  <2>5. Keeps(A, e, a, {}) /\ a.timer = e.timer /\ a.pend = e.pend
    BY <2>3, <2>4, MeanwhileKeeps
  <2>6. /\ a \in Fs /\ Base(A, a) /\ a.fs_fd = y.fs_fd /\ a.tried = y.tried /\ a.timer = y.timer /\ Numbered(a, w)
        /\ Keeps(A, y, a, {w})
    <3>1. Keeps(A, y, a, {w})
      BY <2>2, <2>5, KeepsMore, KeepsOn, Zenon
    <3> QED
      BY <2>2, <2>5, <3>1, Zenon DEF Keeps
  <2>7. Keeps(A, a, b, {w}) /\ (\A E : Sees(A, b, w, E)) /\ b.pend = a.pend
    BY <2>6, RearmKeeps
  <2> HIDE DEF b
  <2>8. b \in Fs /\ Base(A, b) /\ b.pend \subseteq A
    BY <2>7, Zenon DEF Keeps, Base
  <2>9. rest \in SUBSET Two /\ rest \subseteq A /\ w \in rest /\ b.pend \subseteq rest
    BY <2>8 DEF Fs
  <2> HIDE DEF rest
  <2>10. /\ d \in Fs /\ d.attr = b.attr /\ d.hash = b.hash /\ d.timer = b.timer /\ d.pend = rest
         /\ d.marks = b.marks /\ d.wds = b.wds /\ d.queue = b.queue /\ d.wd = b.wd
         /\ d.path = b.path /\ d.version = b.version
         /\ d.fs_fd = b.fs_fd /\ d.tried = b.tried /\ d.active = b.active /\ d.activecnt = b.activecnt
    BY <2>8, <2>9 DEF Fs
  <2> HIDE DEF d
  <2>11. \A u \in Two : Numbered(b, u) => Numbered(d, u)
    BY <2>10, Zenon DEF Numbered
  <2>12. ASSUME NEW u \in Two, NEW E, Sees(A, b, u, E)
         PROVE  Sees(A, d, u, E)
    <3>1. \A j, c : Comes(b, E, j, c) => Comes(d, E, j, c)
      BY <2>10, Zenon DEF Comes
    <3>2. Stat!stat_differs(d, u) => Stat!stat_differs(b, u)
      BY <2>10, Zenon DEF Stat!stat_differs, Stat!lstat
    <3> QED
      BY <2>10, <2>12, <3>1, <3>2, Zenon DEF Sees
  <2>13. Base(A, d)
    BY <2>8, <2>9, <2>10, Zenon DEF Base
  <2>14. Keeps(A, b, d, {w})
    BY <2>9, <2>10, <2>11, <2>12, <2>13, Zenon DEF Keeps
  <2>15. Keeps(A, y, d, {w})
    BY <2>6, <2>7, <2>14, KeepsOn, Zenon
  <2> QED
    BY <2>1, <2>7, <2>9, <2>10, <2>12, <2>15, Zenon
<1> QED
  BY <1>1, <1>2

-------------------------------------------------------------------------------
(* Events *)

\* libev goes from y to d: what it finds anew of a file, a watcher is told.
Goes(A, y, d) ==
    /\ d \in Fs /\ Base(A, d)
    /\ d.active = y.active /\ d.activecnt = y.activecnt /\ d.fs_fd = y.fs_fd /\ d.tried = y.tried
    /\ y.pend \subseteq d.pend
    /\ \A v \in Two : Numbered(y, v) => Numbered(d, v)
    /\ \A v \in Two : d.attr[v] = y.attr[v] \/ v \in d.pend

InSight(A, y, E) == \A v \in Two : Sees(A, y, v, E)

LEMMA GoesOn ==
    ASSUME NEW A, NEW y, NEW d, NEW f, Goes(A, y, d), Goes(A, d, f)
    PROVE  Goes(A, y, f)
<1>1. /\ f.active = y.active /\ f.activecnt = y.activecnt /\ f.fs_fd = y.fs_fd /\ f.tried = y.tried
      /\ y.pend \subseteq f.pend
  BY DEF Goes
<1>2. \A v \in Two : Numbered(y, v) => Numbered(f, v)
  BY Zenon DEF Goes
<1>3. \A v \in Two : f.attr[v] = y.attr[v] \/ v \in f.pend
  BY DEF Goes
<1> QED
  BY <1>1, <1>2, <1>3, Zenon DEF Goes

LEMMA GoesItself ==
    ASSUME NEW A, NEW y \in Fs, Base(A, y)
    PROVE  Goes(A, y, y)
BY Zenon DEF Goes

LEMMA SeesMore ==
    ASSUME NEW A, NEW y, NEW w, NEW E, NEW F, E \subseteq F, Sees(A, y, w, E)
    PROVE  Sees(A, y, w, F)
<1>1. \A i, b : Comes(y, E, i, b) => Comes(y, F, i, b)
  BY Zenon DEF Comes
<1> QED
  BY <1>1, Zenon DEF Sees

\* A watcher is given an event, which it needs no more then.
LEMMA EventKeeps ==
    ASSUME NEW A, NEW y \in Fs, Base(A, y), NEW w \in Two, Numbered(y, w), NEW ev \in Event,
           NEW E, Sees(A, y, w, {ev} \cup E)
    PROVE  LET d == IF ~(w \in y.hash /\ (y.wd[w] = ev.wd \/ ev.wd = -1)) THEN y
                    ELSE IF ev.gone
                         THEN Stat!stat_timer_cb(Stat!Do(Stat!infy_add, [y EXCEPT !.wd[w] = -1, !.hash = @ \ {w}], w), w)
                         ELSE Stat!stat_timer_cb(y, w)
           IN  /\ Keeps(A, y, d, {w})
               /\ d.attr[w] = y.attr[w] \/ w \in d.pend
               /\ Sees(A, d, w, E)
<1>1. ev.wd # -1 /\ y.wd[w] \in Int
  BY DEF Event, Fs
<1>2. \A i, b : Comes(y, {ev} \cup E, i, b) => Comes(y, E, i, b) \/ (ev.wd = i /\ (b => ev.gone))
  BY Zenon DEF Comes
<1>3. CASE ~(w \in y.hash /\ y.wd[w] = ev.wd)
  <2>1. ~(w \in y.hash /\ (y.wd[w] = ev.wd \/ ev.wd = -1))
    BY <1>1, <1>3, Zenon
  <2>2. Sees(A, y, w, E)
    BY <1>2, <1>3, Zenon DEF Sees
  <2> QED
    BY <2>1, <2>2, KeepsItself, Zenon
<1>4. CASE w \in y.hash /\ y.wd[w] = ev.wd
  <2>1. w \in A /\ y.fs_fd
    BY <1>4 DEF Base
  <2>2. CASE ~ev.gone
    <3> DEFINE d == Stat!stat_timer_cb(y, w)
    <3>1. /\ Keeps(A, y, d, {w})
          /\ d.attr[w] = y.attr[w] \/ w \in d.pend
          /\ (\A F : Sees(A, d, w, F)) \/ (d = y /\ ~Stat!stat_differs(y, w))
      BY <2>1, TimerKeeps
    <3> HIDE DEF d
    <3>2. ASSUME d = y, ~Stat!stat_differs(y, w)
          PROVE  Sees(A, d, w, E)
      <4>1. \A i : Comes(y, {ev} \cup E, i, TRUE) => Comes(y, E, i, TRUE)
        BY <1>2, <2>2, Zenon
      <4> QED
        BY <3>2, <4>1, Zenon DEF Sees
    <3> QED
      BY <1>4, <2>2, <3>1, <3>2, Zenon DEF d
  <2>3. CASE ev.gone
    <3> DEFINE wd == [y.wd EXCEPT ![w] = -1]
               hash == y.hash \ {w}
               z == [y EXCEPT !.wd = wd, !.hash = hash]
               a == Stat!infy_add(z, w)
               d == Stat!stat_timer_cb(a, w)
    <3>1. Stat!stat_timer_cb(Stat!Do(Stat!infy_add, [y EXCEPT !.wd[w] = -1, !.hash = @ \ {w}], w), w) = d
      <4>1. [y EXCEPT !.wd[w] = -1, !.hash = @ \ {w}] = z
        BY DEF Fs
      <4> HIDE DEF z
      <4>2. Stat!Do(Stat!infy_add, z, w) = a
        BY Once, Zenon
      <4> QED
        BY <4>1, <4>2, Zenon
    <3>2. /\ wd \in [Two -> Int] /\ wd[w] = -1 /\ \A u \in Two \ {w} : wd[u] = y.wd[u]
          /\ hash \in SUBSET Two /\ w \notin hash /\ \A u \in Two \ {w} : u \in hash <=> u \in y.hash
          /\ hash \subseteq y.hash
      BY DEF Fs
    <3> HIDE DEF wd, hash
    <3>3. /\ z \in Fs /\ z.wd = wd /\ z.hash = hash
          /\ z.marks = y.marks /\ z.wds = y.wds /\ z.timer = y.timer
          /\ z.path = y.path /\ z.version = y.version /\ z.queue = y.queue
          /\ z.fs_fd = y.fs_fd /\ z.tried = y.tried /\ z.active = y.active /\ z.pend = y.pend
          /\ z.activecnt = y.activecnt /\ z.attr = y.attr
      BY <3>2 DEF Fs
    <3> HIDE DEF z
    <3>4. Base(A, z)
      <4>1. z.hash \subseteq A /\ (z.hash # {} => z.fs_fd)
        BY <2>1, <3>2, <3>3 DEF Base
      <4> QED
        BY <3>3, <4>1, Zenon DEF Base
    <3>5. Keeps(A, y, z, {w})
      <4>1. ASSUME NEW u \in Two \ {w}, NEW F, Sees(A, y, u, F)
            PROVE  Sees(A, z, u, F)
        <5>1. \A j, b : Comes(y, F, j, b) => Comes(z, F, j, b)
          BY <3>3, Zenon DEF Comes
        <5>2. Stat!stat_differs(z, u) => Stat!stat_differs(y, u)
          BY <3>3, Zenon DEF Stat!stat_differs, Stat!lstat
        <5> QED
          BY <3>2, <3>3, <4>1, <5>1, <5>2, Zenon DEF Sees
      <4>2. ~(z.wd[w] >= 0)
        BY <3>2, <3>3
      <4>3. \A u \in Two : Numbered(y, u) => Numbered(z, u)
        BY <3>2, <3>3, <4>2, Zenon DEF Numbered
      <4> QED
        BY <3>3, <3>4, <4>1, <4>3, Zenon DEF Keeps
    <3>6. w \notin z.hash /\ z.fs_fd
      BY <2>1, <3>2, <3>3
    <3>7. Keeps(A, z, a, {w}) /\ a.attr = z.attr /\ Follows(a, w) /\ Numbered(a, w)
      BY <2>1, <3>3, <3>4, <3>6, AddKeeps
    <3> HIDE DEF a
    <3>8. a \in Fs /\ Base(A, a) /\ a.fs_fd
      BY <3>6, <3>7, Zenon DEF Keeps
    <3>9. /\ Keeps(A, a, d, {w})
          /\ d.attr[w] = a.attr[w] \/ w \in d.pend
          /\ (\A F : Sees(A, d, w, F)) \/ (d = a /\ ~Stat!stat_differs(a, w))
      BY <2>1, <3>7, <3>8, TimerKeeps
    <3> HIDE DEF d
    <3>10. Sees(A, d, w, E)
      BY <3>7, <3>9, FollowsSees, Zenon DEF Stat!stat_differs
    <3>11. Keeps(A, y, d, {w})
      BY <3>5, <3>7, <3>9, KeepsOn, Zenon
    <3>12. d.attr[w] = y.attr[w] \/ w \in d.pend
      BY <3>3, <3>7, <3>9, Zenon
    <3> QED
      BY <1>4, <2>3, <3>1, <3>10, <3>11, <3>12, Zenon
  <2> QED
    BY <2>2, <2>3
<1> QED
  BY <1>3, <1>4

LEMMA FiniteTwo ==
    ASSUME NEW S, S \subseteq Two
    PROVE  /\ IsFiniteSet(S)
           /\ Stat!SetToSeq(S) \in Seq(Two)
           /\ \A e \in S : \E i \in 1 .. Len(Stat!SetToSeq(S)) : Stat!SetToSeq(S)[i] = e
           /\ \A i \in 1 .. Len(Stat!SetToSeq(S)) : Stat!SetToSeq(S)[i] \in S
<1>1. IsFiniteSet(S)
  <2>1. IsFiniteSet({w1}) /\ IsFiniteSet({w2})
    BY FS_Singleton
  <2>2. IsFiniteSet({w1} \cup {w2})
    BY <2>1, FS_Union
  <2>3. Two = {w1} \cup {w2}
    BY DEF Two
  <2>4. IsFiniteSet(Two)
    BY <2>2, <2>3
  <2> QED
    BY <2>4, FS_Subset
<1> DEFINE s == SetToSeq(S)
<1>2. s \in Seq(S) /\ \A e \in S : \E i \in 1 .. Len(s) : s[i] = e
  BY <1>1, SetToSeqOnto
<1> HIDE DEF s
<1>3. Len(s) \in Nat /\ s \in [1 .. Len(s) -> S] /\ \A i \in 1 .. Len(s) : s[i] \in S
  BY <1>2
<1>4. s \in [1 .. Len(s) -> Two]
  BY <1>3
<1>5. s \in Seq(Two)
  BY <1>3, <1>4
<1>6. Stat!SetToSeq(S) = s
  BY SameList, Zenon DEF s
<1> QED
  BY <1>1, <1>2, <1>3, <1>5, <1>6, Zenon

\* All watchers are given an event.
LEMMA WdGoes ==
    ASSUME NEW A, NEW y \in Fs, Base(A, y), \A w \in Two : Numbered(y, w), NEW ev \in Event,
           NEW E, InSight(A, y, {ev} \cup E)
    PROVE  LET d == Stat!infy_wd(y, ev) IN  Goes(A, y, d) /\ InSight(A, d, E)
<1> DEFINE s == Stat!SetToSeq(y.hash)
           L == Len(s)
           op(d, w) == IF ~(w \in d.hash /\ (d.wd[w] = ev.wd \/ ev.wd = -1)) THEN d
                       ELSE IF ev.gone
                            THEN Stat!stat_timer_cb(Stat!Do(Stat!infy_add, [d EXCEPT !.wd[w] = -1, !.hash = @ \ {w}], w), w)
                            ELSE Stat!stat_timer_cb(d, w)
           D(f) == [n \in 0 .. L |-> IF n = 0 THEN y
                        ELSE CHOOSE u \in {op(v, s[n]) : v \in {f[n - 1]}} : TRUE]
           after == CHOOSE f : f = D(f)
           S == [n \in 0 .. L |->
                    {d \in Fs :
                        /\ Goes(A, y, d) /\ InSight(A, d, {ev} \cup E)
                        /\ \A v \in Two : v \notin y.hash \/ (\E i \in 1 .. n : s[i] = v) => Sees(A, d, v, E)}]
           g == [p \in (1 .. L) \X Fs |-> op(p[2], s[p[1]])]
<1>1. Stat!infy_wd(y, ev) = after[L]
  BY Zenon DEF Stat!infy_wd, Stat!Steps
<1>0. s \in Seq(Two) /\ \A e \in y.hash : \E i \in 1 .. L : s[i] = e
  <2>1. y.hash \subseteq Two
    BY DEF Fs
  <2> QED
    BY <2>1, FiniteTwo
<1> HIDE DEF s
<1>2. /\ L \in Nat /\ L \in 0 .. L /\ \A n \in 0 .. L : n = 0 \/ n \in 1 .. L
      /\ \A n \in 1 .. L : n \in 0 .. L /\ n - 1 \in 0 .. L /\ s[n] \in Two
      /\ \A n \in 1 .. L : \A i \in 1 .. n : i = n \/ i \in 1 .. n - 1
  BY <1>0
<1>3. /\ y \in S[0] /\ \A n \in 0 .. L : S[n] \subseteq Fs
      /\ \A n \in 1 .. L : \A d \in S[n - 1] : op(d, s[n]) \in S[n]
  <2>1. y \in S[0]
    <3>1. \A v \in Two : v \notin y.hash => Sees(A, y, v, E)
      BY Zenon DEF InSight, Sees
    <3>2. ~\E i \in 1 .. 0 : TRUE
      OBVIOUS
    <3>3. Goes(A, y, y)
      BY GoesItself
    <3> HIDE DEF op, L
    <3> QED
      BY <1>2, <3>1, <3>2, <3>3
  <2>2. ASSUME NEW n \in 1 .. L, NEW d \in S[n - 1]
        PROVE  op(d, s[n]) \in S[n]
    <3> DEFINE w == s[n]
               f == op(d, w)
    <3>1. /\ d \in Fs /\ Goes(A, y, d) /\ InSight(A, d, {ev} \cup E)
          /\ \A v \in Two : v \notin y.hash \/ (\E i \in 1 .. n - 1 : s[i] = v) => Sees(A, d, v, E)
      BY <1>2
    <3>2. w \in Two
      BY <1>2
    <3>3. Base(A, d) /\ \A v \in Two : Numbered(d, v)
      BY <3>1, Zenon DEF Goes
    <3>4. Sees(A, d, w, {ev} \cup E)
      BY <3>1, <3>2, Zenon DEF InSight
    <3>5. Keeps(A, d, f, {w}) /\ (f.attr[w] = d.attr[w] \/ w \in f.pend) /\ Sees(A, f, w, E)
      <4> HIDE DEF w
      <4> QED
        BY <3>1, <3>2, <3>3, <3>4, EventKeeps
    <3> HIDE DEF op, L, f, w
    <3>6. f \in Fs /\ Goes(A, d, f)
      <4>1. \A v \in Two : f.attr[v] = d.attr[v] \/ v \in f.pend
        <5>1. \A v \in Two \ {w} : f.attr[v] = d.attr[v]
          BY <3>5, Zenon DEF Keeps
        <5> QED
          BY <3>5, <5>1
      <4> QED
        BY <3>5, <4>1, Zenon DEF Keeps, Goes
    <3>7. Goes(A, y, f)
      BY <3>1, <3>6, GoesOn
    <3>8. InSight(A, f, {ev} \cup E)
      <4>1. Sees(A, f, w, {ev} \cup E)
        BY <3>5, SeesMore
      <4> QED
        BY <3>1, <3>5, <4>1, Zenon DEF InSight, Keeps
    <3>9. ASSUME NEW v \in Two, v \notin y.hash \/ (\E i \in 1 .. n : s[i] = v)
          PROVE  Sees(A, f, v, E)
      <4>1. CASE v = w
        BY <3>5, <4>1
      <4>2. CASE v # w
        <5>1. v \notin y.hash \/ (\E i \in 1 .. n - 1 : s[i] = v)
          BY <1>2, <3>9, <4>2, Zenon DEF w
        <5>2. Sees(A, d, v, E)
          BY <3>1, <5>1, Zenon
        <5> QED
          BY <3>5, <4>2, <5>2, Zenon DEF Keeps
      <4> QED
        BY <4>1, <4>2
    <3>10. n \in 0 .. L
      BY <1>2
    <3> QED
      BY <3>6, <3>7, <3>8, <3>9, <3>10 DEF f, w
  <2> QED
    BY <2>1, <2>2
<1> HIDE DEF L, op
<1>s. S[L] = {d \in Fs :
                /\ Goes(A, y, d) /\ InSight(A, d, {ev} \cup E)
                /\ \A v \in Two : v \notin y.hash \/ (\E i \in 1 .. L : s[i] = v) => Sees(A, d, v, E)}
  BY <1>2
<1> HIDE DEF S
<1>4. \A n \in 1 .. L : \A v \in S[n - 1] : g[<<n, v>>] = op(v, s[n])
  BY <1>2, <1>3
<1> HIDE DEF g
<1>5. Stays(L, y, S, g)
  BY <1>2, <1>3, <1>4 DEF Stays
<1> HIDE DEF S
<1>6. PICK f : LoopRun(f, L, y, g) /\ \A n \in 0 .. L : f[n] \in S[n]
  BY <1>2, <1>5, LoopRuns DEF RunStays
<1>7. f = D(f)
  <2>1. \A n \in 1 .. L : f[n] = g[<<n, f[n - 1]>>] /\ f[n - 1] \in S[n - 1]
    BY <1>2, <1>6 DEF LoopRun
  <2>2. \A n \in 1 .. L : f[n] = op(f[n - 1], s[n])
    BY <1>4, <2>1
  <2>3. \A n \in 1 .. L : f[n] = CHOOSE u \in {op(v, s[n]) : v \in {f[n - 1]}} : TRUE
    BY <2>2
  <2>4. \A n \in 0 .. L : f[n] = D(f)[n]
    BY <1>2, <1>6, <2>3 DEF LoopRun
  <2> QED
    BY <1>6, <2>4 DEF LoopRun
<1>8. after = D(after)
  BY <1>7
<1> HIDE DEF after
<1>9. after[0] = y /\ \A n \in 1 .. L : after[n] = op(after[n - 1], s[n])
  BY <1>2, <1>8
<1>10. after[L] \in S[L]
  <2>1. \A n \in 1 .. L : after[n - 1] \in S[n - 1] => after[n] = g[<<n, after[n - 1]>>]
    BY <1>4, <1>9
  <2>2. L \in Nat /\ after[0] = y
    BY <1>2, <1>9
  <2> QED
    BY <1>5, <2>1, <2>2, LoopStays
<1>11. /\ Goes(A, y, after[L])
       /\ \A v \in Two : v \notin y.hash \/ (\E i \in 1 .. L : s[i] = v) => Sees(A, after[L], v, E)
  BY <1>10, <1>s
<1>12. InSight(A, after[L], E)
  BY <1>0, <1>11, Zenon DEF InSight
<1> QED
  BY <1>1, <1>11, <1>12, Zenon

\* The loop reads events: a watcher has seen what they tell, or the rest does.
LEMMA ReadGoes ==
    ASSUME NEW y \in Fs, NEW A, Base(A, y), \A w \in Two : Numbered(y, w), InSight(A, y, {}),
           NEW by \in Stat!Changes
    PROVE  LET rest == SubSeq(y.queue, Len(Stat!Read(y)) + 1, Len(y.queue))
               d == Stat!Steps(Stat!infy_wd, [y EXCEPT !.mid = by, !.queue = rest], Stat!Read(y))
           IN  Goes(A, y, d) /\ InSight(A, d, {})
<1> DEFINE q == y.queue
           rest == SubSeq(q, Len(Stat!Read(y)) + 1, Len(q))
           z == [y EXCEPT !.mid = by, !.queue = rest]
<1> DEFINE s == Stat!Read(y)
           L == Len(s)
           op(d, w) == Stat!infy_wd(d, w)
           D(f) == [n \in 0 .. L |-> IF n = 0 THEN z
                        ELSE CHOOSE u \in {op(v, s[n]) : v \in {f[n - 1]}} : TRUE]
           after == CHOOSE f : f = D(f)
           S == [n \in 0 .. L |->
                    {d \in Fs : Goes(A, z, d) /\ InSight(A, d, {s[i] : i \in n + 1 .. L})}]
           g == [p \in (1 .. L) \X Fs |-> op(p[2], s[p[1]])]
<1>1. Stat!Steps(Stat!infy_wd, z, s) = after[L]
  BY Zenon DEF Stat!Steps
<1>q. q \in Seq(Event) /\ Len(q) \in Nat
  BY DEF Fs
<1> HIDE DEF q
<1>0. /\ s \in Seq(Event) /\ Len(s) <= Len(q) /\ \A i \in 1 .. Len(s) : s[i] = q[i]
  <2>1. s = SubSeq(q, 1, IF Len(q) < 2 THEN Len(q) ELSE 2)
    BY DEF Stat!Read, q
  <2> DEFINE k == IF Len(q) < 2 THEN Len(q) ELSE 2
  <2>2. k \in Nat /\ k <= Len(q) /\ s = SubSeq(q, 1, k)
    BY <1>q, <2>1
  <2> HIDE DEF k, s
  <2>3. s \in Seq(Event) /\ Len(s) = k /\ \A i \in 1 .. k : s[i] = q[i]
    BY <1>q, <2>2
  <2> QED
    BY <2>2, <2>3
<1> HIDE DEF s
<1>2. /\ L \in Nat /\ L \in 0 .. L /\ \A n \in 0 .. L : n = 0 \/ n \in 1 .. L
      /\ \A n \in 1 .. L : n \in 0 .. L /\ n - 1 \in 0 .. L /\ s[n] \in Event
  BY <1>0
<1>r. /\ rest \in Seq(Event)
      /\ \A i \in DOMAIN q : (i \in 1 .. L /\ s[i] = q[i]) \/ (i - L \in DOMAIN rest /\ rest[i - L] = q[i])
  <2>1. L \in Nat /\ L <= Len(q) /\ rest = SubSeq(q, L + 1, Len(q))
    BY <1>0 DEF s
  <2> HIDE DEF rest, L
  <2>2. rest \in Seq(Event) /\ Len(rest) = Len(q) - L /\ \A i \in 1 .. Len(q) - L : rest[i] = q[L + i]
    BY <1>q, <2>1
  <2>3. \A i \in DOMAIN q : i \in 1 .. L \/ (i - L \in 1 .. Len(q) - L /\ L + (i - L) = i)
    BY <1>q, <2>1
  <2>4. DOMAIN rest = 1 .. Len(q) - L
    BY <2>2
  <2>5. \A i \in 1 .. L : s[i] = q[i]
    BY <1>0 DEF L
  <2> QED
    BY <2>2, <2>3, <2>4, <2>5
<1> HIDE DEF rest
<1>z. /\ z \in Fs /\ z.queue = rest
      /\ z.marks = y.marks /\ z.wds = y.wds /\ z.timer = y.timer /\ z.wd = y.wd /\ z.hash = y.hash
      /\ z.path = y.path /\ z.version = y.version
      /\ z.fs_fd = y.fs_fd /\ z.tried = y.tried /\ z.active = y.active /\ z.pend = y.pend
      /\ z.activecnt = y.activecnt /\ z.attr = y.attr
  BY <1>r DEF Fs
<1> HIDE DEF z
<1>b. /\ Base(A, z) /\ \A w \in Two : Numbered(z, w)
      /\ Goes(A, y, z)
  <2>1. Base(A, z) /\ \A w \in Two : Numbered(z, w)
    BY <1>z, Zenon DEF Base, Numbered
  <2> QED
    BY <1>z, <2>1, Zenon DEF Goes
<1>3. /\ z \in S[0] /\ \A n \in 0 .. L : S[n] \subseteq Fs
      /\ \A n \in 1 .. L : \A d \in S[n - 1] : op(d, s[n]) \in S[n]
  <2>1. z \in S[0]
    <3> DEFINE E == {s[i] : i \in 1 .. L}
    <3>1. Goes(A, z, z)
      BY <1>z, <1>b, GoesItself
    <3>2. InSight(A, z, E)
      <4>1. \A i, b : Comes(y, {}, i, b) => Comes(z, E, i, b)
        <5>1. \A j \in DOMAIN q : (\E e \in E : e = q[j]) \/ (\E k \in DOMAIN rest : rest[k] = q[j])
          BY <1>r
        <5> HIDE DEF E
        <5>2. ASSUME NEW i, NEW b, Comes(y, {}, i, b)
              PROVE  Comes(z, E, i, b)
          <6>1. PICK j \in DOMAIN q : q[j].wd = i /\ (b => q[j].gone)
            BY <5>2, Zenon DEF Comes, q
          <6>2. (\E e \in E : e = q[j]) \/ (\E k \in DOMAIN rest : rest[k] = q[j])
            BY <5>1
          <6> QED
            BY <1>z, <6>1, <6>2, Zenon DEF Comes
        <5> QED
          BY <5>2, Zenon
      <4>2. \A v : Stat!stat_differs(z, v) => Stat!stat_differs(y, v)
        BY <1>z, Zenon DEF Stat!stat_differs, Stat!lstat
      <4> HIDE DEF E
      <4> QED
        BY <1>z, <4>1, <4>2, Zenon DEF InSight, Sees
    <3>3. 0 + 1 = 1
      OBVIOUS
    <3> HIDE DEF op, L
    <3> QED
      BY <1>2, <1>z, <3>1, <3>2, <3>3
  <2>2. ASSUME NEW n \in 1 .. L, NEW d \in S[n - 1]
        PROVE  op(d, s[n]) \in S[n]
    <3> DEFINE E == {s[i] : i \in n + 1 .. L}
               f == op(d, s[n])
    <3>1. d \in Fs /\ Goes(A, z, d) /\ InSight(A, d, {s[i] : i \in (n - 1) + 1 .. L})
      BY <1>2
    <3>2. {s[i] : i \in (n - 1) + 1 .. L} = {s[n]} \cup E
      <4>1. \A i : i \in (n - 1) + 1 .. L <=> (i = n \/ i \in n + 1 .. L)
        BY <1>2
      <4> QED
        BY <4>1
    <3>3. InSight(A, d, {s[n]} \cup E) /\ s[n] \in Event /\ n \in 0 .. L
      BY <1>2, <3>1, <3>2
    <3> HIDE DEF op, E, L
    <3>4. Base(A, d) /\ \A w \in Two : Numbered(d, w)
      BY <1>b, <3>1, Zenon DEF Goes
    <3>5. Goes(A, d, f) /\ InSight(A, f, E)
      BY <3>1, <3>3, <3>4, WdGoes DEF op
    <3> HIDE DEF f
    <3>6. f \in Fs /\ Goes(A, z, f)
      BY <3>1, <3>5, GoesOn DEF Goes
    <3> QED
      BY <3>3, <3>5, <3>6 DEF f, E
  <2> QED
    BY <2>1, <2>2
<1> HIDE DEF L, op
<1>s. S[L] = {d \in Fs : Goes(A, z, d) /\ InSight(A, d, {s[i] : i \in L + 1 .. L})}
  BY <1>2
<1> HIDE DEF S
<1>4. \A n \in 1 .. L : \A v \in S[n - 1] : g[<<n, v>>] = op(v, s[n])
  BY <1>2, <1>3
<1> HIDE DEF g
<1>5. Stays(L, z, S, g)
  BY <1>2, <1>3, <1>4 DEF Stays
<1> HIDE DEF S
<1>6. PICK f : LoopRun(f, L, z, g) /\ \A n \in 0 .. L : f[n] \in S[n]
  BY <1>2, <1>5, LoopRuns DEF RunStays
<1>7. f = D(f)
  <2>1. \A n \in 1 .. L : f[n] = g[<<n, f[n - 1]>>] /\ f[n - 1] \in S[n - 1]
    BY <1>2, <1>6 DEF LoopRun
  <2>2. \A n \in 1 .. L : f[n] = op(f[n - 1], s[n])
    BY <1>4, <2>1
  <2>3. \A n \in 1 .. L : f[n] = CHOOSE u \in {op(v, s[n]) : v \in {f[n - 1]}} : TRUE
    BY <2>2
  <2>4. \A n \in 0 .. L : f[n] = D(f)[n]
    BY <1>2, <1>6, <2>3 DEF LoopRun
  <2> QED
    BY <1>6, <2>4 DEF LoopRun
<1>8. after = D(after)
  BY <1>7
<1> HIDE DEF after
<1>9. after[0] = z /\ \A n \in 1 .. L : after[n] = op(after[n - 1], s[n])
  BY <1>2, <1>8
<1>10. after[L] \in S[L]
  <2>1. \A n \in 1 .. L : after[n - 1] \in S[n - 1] => after[n] = g[<<n, after[n - 1]>>]
    BY <1>4, <1>9
  <2>2. L \in Nat /\ after[0] = z
    BY <1>2, <1>9
  <2> QED
    BY <1>5, <2>1, <2>2, LoopStays
<1>11. Goes(A, z, after[L]) /\ InSight(A, after[L], {})
  <2>1. {s[i] : i \in L + 1 .. L} = {}
    BY <1>2
  <2> QED
    BY <1>10, <1>s, <2>1
<1>12. Goes(A, y, after[L])
  BY <1>11, <1>b, GoesOn
<1> QED
  BY <1>1, <1>11, <1>12, Zenon DEF z, rest, s, q

\* In the child of a fork the watch of w is added anew, or it gets a timer.
Anew(A, y, d, w) ==
    /\ Keeps(A, y, d, {w})
    /\ d.attr = y.attr /\ d.pend = y.pend /\ d.mid = y.mid
    /\ d.path = y.path /\ d.version = y.version
    /\ Follows(d, w) /\ Numbered(d, w)
    /\ \A u \in Two \ {w} : u \in d.hash <=> u \in y.hash

LEMMA AnewKeeps ==
    ASSUME NEW A, NEW y \in Fs, Base(A, y), NEW w \in Two, w \in A, w \notin y.hash,
           NEW opens \in BOOLEAN, y.fs_fd = opens
    PROVE  Anew(A, y, IF opens THEN Stat!infy_add([y EXCEPT !.wd[w] = -1], w)
                      ELSE Stat!timer_rearm([y EXCEPT !.wd[w] = -1], w, TRUE), w)
<1> DEFINE wd == [y.wd EXCEPT ![w] = -1]
           z == [y EXCEPT !.wd = wd]
           a == Stat!infy_add(z, w)
           timer == z.timer \cup {w}
           t == [z EXCEPT !.timer = timer]
<1>1. [y EXCEPT !.wd[w] = -1] = z
  BY DEF Fs
<1>2. wd \in [Two -> Int] /\ wd[w] = -1 /\ \A u \in Two \ {w} : wd[u] = y.wd[u]
  BY DEF Fs
<1> HIDE DEF wd
<1>3. /\ z \in Fs /\ z.wd = wd /\ z.hash = y.hash
      /\ z.marks = y.marks /\ z.wds = y.wds /\ z.timer = y.timer
      /\ z.path = y.path /\ z.version = y.version /\ z.queue = y.queue /\ z.mid = y.mid
      /\ z.fs_fd = y.fs_fd /\ z.tried = y.tried /\ z.active = y.active /\ z.pend = y.pend
      /\ z.activecnt = y.activecnt /\ z.attr = y.attr
  BY <1>2 DEF Fs
<1> HIDE DEF z
<1>4. Base(A, z)
  BY <1>3, Zenon DEF Base
<1>5. ~(z.wd[w] >= 0)
  BY <1>2, <1>3
<1>6. Keeps(A, y, z, {w})
  <2>1. ASSUME NEW u \in Two \ {w}, NEW F, Sees(A, y, u, F)
        PROVE  Sees(A, z, u, F)
    <3>1. \A j, b : Comes(y, F, j, b) => Comes(z, F, j, b)
      BY <1>3, Zenon DEF Comes
    <3>2. Stat!stat_differs(z, u) => Stat!stat_differs(y, u)
      BY <1>3, Zenon DEF Stat!stat_differs, Stat!lstat
    <3> QED
      BY <1>2, <1>3, <2>1, <3>1, <3>2, Zenon DEF Sees
  <2>2. \A u \in Two : Numbered(y, u) => Numbered(z, u)
    BY <1>2, <1>3, <1>5, Zenon DEF Numbered
  <2> QED
    BY <1>3, <1>4, <2>1, <2>2, Zenon DEF Keeps
<1>7. CASE opens
  <2>1. w \notin z.hash /\ z.fs_fd
    BY <1>3, <1>7
  <2>2. /\ Keeps(A, z, a, {w}) /\ Follows(a, w) /\ Numbered(a, w)
        /\ a.attr = z.attr /\ a.pend = z.pend /\ a.mid = z.mid /\ a.path = z.path /\ a.version = z.version
        /\ \A u \in Two \ {w} : u \in a.hash <=> u \in z.hash
    BY <1>3, <1>4, <2>1, AddKeeps
  <2> HIDE DEF a
  <2>3. Keeps(A, y, a, {w})
    BY <1>6, <2>2, KeepsOn, Zenon
  <2> QED
    BY <1>1, <1>3, <1>7, <2>2, <2>3, Zenon DEF a, Anew
<1>8. CASE ~opens
  <2>1. Stat!timer_rearm(z, w, TRUE) = t /\ t \in Fs
    BY <1>3, Rearms
  <2>2. w \in timer /\ timer \subseteq A /\ \A u \in Two \ {w} : u \in timer <=> u \in z.timer
    BY <1>4 DEF Base
  <2> HIDE DEF timer
  <2>3. /\ t.wd = z.wd /\ t.hash = z.hash /\ t.timer = timer
        /\ t.marks = z.marks /\ t.wds = z.wds
        /\ t.path = z.path /\ t.version = z.version /\ t.queue = z.queue /\ t.mid = z.mid
        /\ t.fs_fd = z.fs_fd /\ t.tried = z.tried /\ t.active = z.active /\ t.pend = z.pend
        /\ t.activecnt = z.activecnt /\ t.attr = z.attr
    BY <1>3 DEF Fs
  <2> HIDE DEF t
  <2>4. Base(A, t)
    BY <1>4, <2>2, <2>3, Zenon DEF Base
  <2>5. ASSUME NEW u \in Two \ {w}, NEW F, Sees(A, z, u, F)
        PROVE  Sees(A, t, u, F)
    <3>1. \A j, b : Comes(z, F, j, b) => Comes(t, F, j, b)
      BY <2>3, Zenon DEF Comes
    <3>2. Stat!stat_differs(t, u) => Stat!stat_differs(z, u)
      BY <2>3, Zenon DEF Stat!stat_differs, Stat!lstat
    <3> QED
      BY <2>2, <2>3, <2>5, <3>1, <3>2, Zenon DEF Sees
  <2>6. \A u \in Two : Numbered(z, u) => Numbered(t, u)
    BY <2>3, Zenon DEF Numbered
  <2>7. Keeps(A, z, t, {w})
    BY <2>1, <2>3, <2>4, <2>5, <2>6, Zenon DEF Keeps
  <2>8. Keeps(A, y, t, {w})
    BY <1>6, <2>7, KeepsOn, Zenon
  <2>9. Follows(t, w) /\ Numbered(t, w)
    <3>1. w \notin t.hash /\ t.wd[w] = z.wd[w]
      BY <1>3, <2>3
    <3> QED
      BY <1>5, <2>2, <2>3, <3>1, Zenon DEF Follows, Numbered
  <2> QED
    BY <1>1, <1>3, <1>8, <2>1, <2>3, <2>8, <2>9, Zenon DEF Anew
<1> QED
  BY <1>7, <1>8

\* Nothing is to be told: the child of a fork has all watchers in sight again.
LEMMA ForkGoes ==
    ASSUME NEW y \in Fs, NEW A, Base(A, y), \A w \in Two : Numbered(y, w), InSight(A, y, {}),
           \A w \in A : ~Stat!stat_differs(y, w), NEW opens \in BOOLEAN
    PROVE  LET one(z, w) == IF opens THEN Stat!infy_add([z EXCEPT !.wd[w] = -1], w)
                            ELSE Stat!timer_rearm([z EXCEPT !.wd[w] = -1], w, TRUE)
               d == Stat!Steps(one, [y EXCEPT !.marks = <<>>, !.queue = <<>>, !.fs_fd = opens, !.hash = {}],
                               Stat!SetToSeq(y.hash))
           IN  /\ d \in Fs /\ Base(A, d) /\ (\A w \in Two : Numbered(d, w)) /\ InSight(A, d, {})
               /\ d.active = y.active /\ d.activecnt = y.activecnt /\ d.pend = y.pend
               /\ d.attr = y.attr /\ d.mid = y.mid /\ d.fs_fd = opens /\ d.tried = y.tried
<1> DEFINE m == <<>>
           q == <<>>
           e == {}
           z == [y EXCEPT !.marks = m, !.queue = q, !.fs_fd = opens, !.hash = e]
           Same(f) == /\ f \in Fs /\ Base(A, f) /\ f.fs_fd = opens /\ f.tried = y.tried
                      /\ f.active = y.active /\ f.activecnt = y.activecnt /\ f.pend = y.pend
                      /\ f.attr = y.attr /\ f.mid = y.mid /\ f.path = y.path /\ f.version = y.version
           Ready(f, v) == Numbered(f, v) /\ Sees(A, f, v, {})
<1> DEFINE s == Stat!SetToSeq(y.hash)
           L == Len(s)
           op(d, w) == IF opens THEN Stat!infy_add([d EXCEPT !.wd[w] = -1], w)
                       ELSE Stat!timer_rearm([d EXCEPT !.wd[w] = -1], w, TRUE)
           D(f) == [n \in 0 .. L |-> IF n = 0 THEN z
                        ELSE CHOOSE u \in {op(v, s[n]) : v \in {f[n - 1]}} : TRUE]
           after == CHOOSE f : f = D(f)
           S == [n \in 0 .. L |->
                    {f \in Fs :
                        /\ Same(f)
                        /\ \A i \in n + 1 .. L : s[i] \notin f.hash
                        /\ \A v \in Two : v \notin y.hash \/ (\E i \in 1 .. n : s[i] = v) => Ready(f, v)}]
           g == [p \in (1 .. L) \X Fs |-> op(p[2], s[p[1]])]
<1>1. Stat!Steps(op, z, s) = after[L]
  BY Zenon DEF Stat!Steps
<1>0. /\ s \in Seq(Two) /\ \A c \in y.hash : \E i \in 1 .. L : s[i] = c
      /\ \A i \in 1 .. L : s[i] \in y.hash
      /\ \A i, j \in 1 .. L : s[i] = s[j] => i = j
  <2>1. y.hash \subseteq Two
    BY DEF Fs
  <2>2. IsFiniteSet(y.hash) /\ s = SetToSeq(y.hash)
    BY <2>1, FiniteTwo, SameList
  <2>3. \A i, j \in 1 .. Len(SetToSeq(y.hash)) : SetToSeq(y.hash)[i] = SetToSeq(y.hash)[j] => i = j
    BY <2>2, SetToSeqOnce
  <2>4. /\ s \in Seq(Two) /\ \A c \in y.hash : \E i \in 1 .. L : s[i] = c
        /\ \A i \in 1 .. L : s[i] \in y.hash
    BY <2>1, FiniteTwo
  <2> HIDE DEF s
  <2> QED
    BY <2>2, <2>3, <2>4, Zenon DEF L
<1> HIDE DEF s
<1>2. /\ L \in Nat /\ L \in 0 .. L /\ \A n \in 0 .. L : n = 0 \/ n \in 1 .. L
      /\ \A n \in 1 .. L : n \in 0 .. L /\ n - 1 \in 0 .. L /\ s[n] \in Two
      /\ \A n \in 1 .. L : \A i \in 1 .. n : i = n \/ i \in 1 .. n - 1
      /\ \A n \in 1 .. L : n \in (n - 1) + 1 .. L
      /\ \A n \in 1 .. L : \A i \in n + 1 .. L : i \in (n - 1) + 1 .. L /\ i \in 1 .. L /\ i # n
  <2>1. L \in Nat /\ \A n \in 1 .. L : s[n] \in Two
    BY <1>0
  <2> HIDE DEF L
  <2> QED
    BY <2>1
<1>m. m \in Marks /\ q \in Seq(Event) /\ e \in SUBSET Two /\ DOMAIN m = {} /\ DOMAIN q = {} /\ e = {}
  <2> DEFINE T == Paths \cup {Stat!Dir}
  <2>1. m \in Seq(T) /\ Len(m) = 0 /\ q \in Seq(Event) /\ Len(q) = 0
    OBVIOUS
  <2> HIDE DEF T, m, q
  <2>2. DOMAIN m = {} /\ m \in [DOMAIN m -> T] /\ DOMAIN q = {}
    BY <2>1
  <2>3. m \in Marks
    BY <2>2, MarksIs DEF T
  <2> QED
    BY <2>1, <2>2, <2>3
<1> HIDE DEF m, q, e
<1>z. /\ z \in Fs /\ z.fs_fd = opens /\ z.queue = q /\ z.marks = m /\ z.hash = e
      /\ z.wds = y.wds /\ z.timer = y.timer /\ z.wd = y.wd /\ z.tried = y.tried
      /\ z.path = y.path /\ z.version = y.version /\ z.mid = y.mid
      /\ z.active = y.active /\ z.pend = y.pend
      /\ z.activecnt = y.activecnt /\ z.attr = y.attr
  BY <1>m DEF Fs
<1> HIDE DEF z
<1>b. Base(A, z)
  <2>1. z.hash \subseteq A /\ z.hash = {}
    BY <1>m, <1>z
  <2>2. \A i \in DOMAIN z.marks : FALSE
    BY <1>m, <1>z
  <2> QED
    BY <1>z, <2>1, <2>2, Zenon DEF Base
<1>3. /\ z \in S[0] /\ \A n \in 0 .. L : S[n] \subseteq Fs
      /\ \A n \in 1 .. L : \A f \in S[n - 1] : op(f, s[n]) \in S[n]
  <2>1. z \in S[0]
    <3>1. Same(z)
      BY <1>z, <1>b, Zenon
    <3>2. ASSUME NEW v \in Two, v \notin y.hash
          PROVE  Ready(z, v)
      <4>1. v \notin z.hash /\ z.wd[v] = y.wd[v]
        BY <1>m, <1>z
      <4>2. Numbered(z, v)
        BY <3>2, <4>1, Zenon DEF Numbered
      <4>3. v \in A => v \in z.timer
        BY <1>z, <3>2, Zenon DEF InSight, Sees
      <4> QED
        BY <4>2, <4>3, Zenon DEF Sees
    <3>3. ~\E i \in 1 .. 0 : TRUE
      OBVIOUS
    <3>4. \A i \in 0 + 1 .. L : s[i] \notin z.hash
      BY <1>m, <1>z
    <3> HIDE DEF op, L, Ready, Same
    <3> QED
      BY <1>2, <1>z, <3>1, <3>2, <3>3, <3>4
  <2>2. ASSUME NEW n \in 1 .. L, NEW f \in S[n - 1]
        PROVE  op(f, s[n]) \in S[n]
    <3> DEFINE w == s[n]
               g1 == op(f, w)
    <3> HIDE DEF Same, Ready, op
    <3>1. /\ f \in Fs /\ Same(f)
          /\ \A i \in (n - 1) + 1 .. L : s[i] \notin f.hash
          /\ \A v \in Two : v \notin y.hash \/ (\E i \in 1 .. n - 1 : s[i] = v) => Ready(f, v)
      BY <1>2
    <3> HIDE DEF S
    <3>2. w \in Two /\ w \in y.hash /\ w \in A /\ w \notin f.hash
      <4>1. w \notin f.hash
        BY <1>2, <3>1
      <4> QED
        BY <1>0, <1>2, <4>1 DEF Base
    <3>3. Base(A, f) /\ f.fs_fd = opens /\ f.tried = y.tried
      BY <3>1, Zenon DEF Same
    <3> HIDE DEF w
    <3>4. /\ Keeps(A, f, g1, {w})
          /\ g1.attr = f.attr /\ g1.pend = f.pend /\ g1.mid = f.mid
          /\ g1.path = f.path /\ g1.version = f.version
          /\ Follows(g1, w) /\ Numbered(g1, w)
          /\ \A u \in Two \ {w} : u \in g1.hash <=> u \in f.hash
      <4>1. Anew(A, f, g1, w)
        BY <3>1, <3>2, <3>3, AnewKeeps, Zenon DEF op
      <4> QED
        BY <4>1, Zenon DEF Anew
    <3> HIDE DEF g1, L
    <3>5. Same(g1)
      BY <3>1, <3>4, Zenon DEF Same, Keeps
    <3>6. Ready(g1, w)
      <4>1. g1.attr[w] = Stat!lstat(g1)
        <5>1. ~Stat!stat_differs(y, w)
          BY <3>2
        <5> QED
          BY <3>5, <5>1, Zenon DEF Same, Stat!stat_differs, Stat!lstat
      <4> QED
        BY <3>4, <4>1, FollowsSees, Zenon DEF Ready
    <3>7. ASSUME NEW i \in n + 1 .. L
          PROVE  s[i] \notin g1.hash
      <4>1. i \in (n - 1) + 1 .. L /\ i \in 1 .. L /\ i # n /\ n \in 1 .. L
        BY <1>2
      <4>2. s[i] # w /\ s[i] \in Two
        BY <1>0, <1>2, <4>1, Zenon DEF w, L
      <4>3. s[i] \notin f.hash
        BY <3>1, <4>1
      <4> QED
        BY <3>4, <4>2, <4>3
    <3>8. ASSUME NEW v \in Two, v \notin y.hash \/ (\E i \in 1 .. n : s[i] = v)
          PROVE  Ready(g1, v)
      <4>1. CASE v = w
        BY <3>6, <4>1
      <4>2. CASE v # w
        <5>1. v \notin y.hash \/ (\E i \in 1 .. n - 1 : s[i] = v)
          BY <1>2, <3>8, <4>2, Zenon DEF w
        <5>2. Ready(f, v)
          BY <3>1, <5>1, Zenon
        <5> QED
          BY <3>4, <4>2, <5>2, Zenon DEF Keeps, Ready
      <4> QED
        BY <4>1, <4>2
    <3>9. n \in 0 .. L /\ g1 \in Fs
      BY <1>2, <3>4, Zenon DEF Keeps
    <3> QED
      BY <3>5, <3>7, <3>8, <3>9 DEF g1, w, S
  <2> QED
    BY <2>1, <2>2
<1> HIDE DEF L, op, Same, Ready
<1>s. S[L] = {f \in Fs :
                /\ Same(f)
                /\ \A i \in L + 1 .. L : s[i] \notin f.hash
                /\ \A v \in Two : v \notin y.hash \/ (\E i \in 1 .. L : s[i] = v) => Ready(f, v)}
  BY <1>2
<1> HIDE DEF S
<1>4. \A n \in 1 .. L : \A f \in S[n - 1] : g[<<n, f>>] = op(f, s[n])
  BY <1>2, <1>3
<1> HIDE DEF g
<1>5. Stays(L, z, S, g)
  BY <1>2, <1>3, <1>4 DEF Stays
<1> HIDE DEF S
<1>6. PICK f : LoopRun(f, L, z, g) /\ \A n \in 0 .. L : f[n] \in S[n]
  BY <1>2, <1>5, LoopRuns DEF RunStays
<1>7. f = D(f)
  <2>1. \A n \in 1 .. L : f[n] = g[<<n, f[n - 1]>>] /\ f[n - 1] \in S[n - 1]
    BY <1>2, <1>6 DEF LoopRun
  <2>2. \A n \in 1 .. L : f[n] = op(f[n - 1], s[n])
    BY <1>4, <2>1
  <2>3. \A n \in 1 .. L : f[n] = CHOOSE c \in {op(v, s[n]) : v \in {f[n - 1]}} : TRUE
    BY <2>2
  <2>4. \A n \in 0 .. L : f[n] = D(f)[n]
    BY <1>2, <1>6, <2>3 DEF LoopRun
  <2> QED
    BY <1>6, <2>4 DEF LoopRun
<1>8. after = D(after)
  BY <1>7
<1> HIDE DEF after
<1>9. after[0] = z /\ \A n \in 1 .. L : after[n] = op(after[n - 1], s[n])
  BY <1>2, <1>8
<1>10. after[L] \in S[L]
  <2>1. \A n \in 1 .. L : after[n - 1] \in S[n - 1] => after[n] = g[<<n, after[n - 1]>>]
    BY <1>4, <1>9
  <2>2. L \in Nat /\ after[0] = z
    BY <1>2, <1>9
  <2> QED
    BY <1>5, <2>1, <2>2, LoopStays
<1>11. /\ Same(after[L])
       /\ \A v \in Two : v \notin y.hash \/ (\E i \in 1 .. L : s[i] = v) => Ready(after[L], v)
  BY <1>10, <1>s
<1>12. \A v \in Two : Ready(after[L], v)
  BY <1>0, <1>11, Zenon DEF L
<1>13. (\A w \in Two : Numbered(after[L], w)) /\ InSight(A, after[L], {})
  BY <1>12, Zenon DEF Ready, InSight
<1> QED
  <2> DEFINE d == after[L]
  <2>1. /\ d \in Fs /\ Base(A, d) /\ (\A w \in Two : Numbered(d, w)) /\ InSight(A, d, {})
        /\ d.active = y.active /\ d.activecnt = y.activecnt /\ d.pend = y.pend
        /\ d.attr = y.attr /\ d.mid = y.mid /\ d.fs_fd = opens /\ d.tried = y.tried
    BY <1>11, <1>13, Zenon DEF Same
  <2> HIDE DEF d
  <2>2. d = Stat!Steps(op, z, s)
    BY <1>1 DEF d
  <2> QED
    BY <2>1, <2>2, Zenon DEF op, z, s, m, q, e

-------------------------------------------------------------------------------
(* The invariant of stat watchers *)

StatInv ==
    /\ x \in Fs /\ told \in [Two -> Attr]
    /\ Base(x.active, x)
    /\ \A w \in Two : Numbered(x, w)
    /\ x.fs_fd => x.tried
    /\ x.activecnt = Cardinality(x.active)
    /\ x.mid = Stat!Quiet
    /\ InSight(x.active, x, {})
    /\ \A w \in Two : w \in x.active /\ x.attr[w] # told[w] => w \in x.pend

LEMMA StatInit == Stat!Init => StatInv
<1> SUFFICES ASSUME Stat!Init
             PROVE  StatInv
  OBVIOUS
<1> DEFINE attr == [w \in Two |-> [file |-> Missing, version |-> 0]]
           wd == [w \in Two |-> -2]
           version == [f \in File |-> 0]
           m == <<>>
           q == <<>>
           e == {}
           mid == Stat!Quiet
<1>1. PICK local \in BOOLEAN, path \in Paths :
          x = [path |-> path, version |-> version, clock |-> 1, local |-> local, mid |-> mid,
               marks |-> m, wds |-> 1, queue |-> q, fs_fd |-> FALSE, tried |-> FALSE, hash |-> e,
               active |-> e, pend |-> e, timer |-> e, activecnt |-> 0, attr |-> attr, wd |-> wd]
          /\ told = x.attr
  BY Zenon DEF Stat!Init, Paths
<1>2. /\ attr \in [Two -> Attr] /\ wd \in [Two -> Int] /\ version \in [File -> Nat]
      /\ \A w \in Two : wd[w] = -2
  BY DEF Attr, Paths
<1>3. m \in Marks /\ q \in Seq(Event) /\ e \in SUBSET Two /\ e = {} /\ DOMAIN m = {} /\ DOMAIN q = {}
  <2> DEFINE T == Paths \cup {Stat!Dir}
  <2>1. m \in Seq(T) /\ Len(m) = 0 /\ q \in Seq(Event) /\ Len(q) = 0
    OBVIOUS
  <2> HIDE DEF T, m, q
  <2>2. DOMAIN m = {} /\ m \in [DOMAIN m -> T] /\ DOMAIN q = {}
    BY <2>1
  <2>3. m \in Marks
    BY <2>2, MarksIs DEF T
  <2> QED
    BY <2>1, <2>2, <2>3
<1>4. mid \in Stat!Changes
  BY DEF Stat!Changes
<1> HIDE DEF attr, wd, version, m, q, e, mid
<1>5. /\ x \in Fs /\ told = attr
      /\ x.marks = m /\ x.hash = e /\ x.active = e /\ x.pend = e /\ x.timer = e /\ x.wd = wd
      /\ x.fs_fd = FALSE /\ x.activecnt = 0 /\ x.attr = attr /\ x.mid = mid
  BY <1>1, <1>2, <1>3, <1>4 DEF Fs
<1>6. Base(x.active, x)
  <2>1. \A i \in DOMAIN x.marks : FALSE
    BY <1>3, <1>5
  <2>2. x.hash = {} /\ x.hash \subseteq x.active /\ x.timer \subseteq x.active /\ x.pend \subseteq x.active
    BY <1>3, <1>5
  <2> QED
    BY <2>1, <2>2, Zenon DEF Base
<1>7. \A w \in Two : Numbered(x, w) /\ w \notin x.active
  <2>1. \A w \in Two : ~(x.wd[w] >= 0) /\ w \notin x.hash /\ w \notin x.active
    BY <1>2, <1>3, <1>5
  <2> QED
    BY <2>1, Zenon DEF Numbered
<1>8. x.activecnt = Cardinality(x.active)
  BY <1>3, <1>5, FS_EmptySet
<1>9. InSight(x.active, x, {})
  BY <1>7, Zenon DEF InSight, Sees
<1> QED
  BY <1>2, <1>5, <1>6, <1>7, <1>8, <1>9, Zenon DEF StatInv, mid

\* What libev does by itself.
LEMMA GoesInv ==
    ASSUME StatInv, Goes(x.active, x, x'), InSight(x.active, x', {}), x'.mid = x.mid, told' = told
    PROVE  StatInv'
<1>1. /\ x' \in Fs /\ x'.active = x.active /\ x'.activecnt = x.activecnt
      /\ x'.fs_fd = x.fs_fd /\ x'.tried = x.tried
      /\ Base(x.active, x') /\ \A w \in Two : Numbered(x', w)
  BY Zenon DEF StatInv, Goes
<1>2. \A w \in Two : w \in x'.active /\ x'.attr[w] # told[w] => w \in x'.pend
  <2>1. \A w \in Two : x'.attr[w] = x.attr[w] \/ w \in x'.pend
    BY Zenon DEF Goes
  <2>2. x.pend \subseteq x'.pend
    BY DEF Goes
  <2>3. \A w \in Two : w \in x.active /\ x.attr[w] # told[w] => w \in x.pend
    BY Zenon DEF StatInv
  <2> QED
    BY <1>1, <2>1, <2>2, <2>3
<1>3. told \in [Two -> Attr] /\ x.activecnt = Cardinality(x.active) /\ x.mid = Stat!Quiet /\ (x.fs_fd => x.tried)
  BY Zenon DEF StatInv
<1> QED
  BY <1>1, <1>2, <1>3, Zenon DEF StatInv

\* An active watcher more does not concern the others.
LEMMA SeesOthers ==
    ASSUME NEW A, NEW B, NEW y, NEW v, NEW E, v \in A <=> v \in B
    PROVE  Sees(A, y, v, E) <=> Sees(B, y, v, E)
BY Zenon DEF Sees

\* A watcher that is not active is started.
LEMMA StatStart ==
    ASSUME StatInv, NEW w \in Two, NEW opens \in BOOLEAN, NEW by \in Stat!Meanwhile("start" \in {}),
           Stat!ev_stat_start(w, opens, by)
    PROVE  StatInv'
<1> DEFINE A == x.active \cup {w}
           e == Stat!ev_stat_stat(x, w)
           e1 == [e EXCEPT !.mid = by]
           b == Stat!meanwhile(e1)
           y == Stat!infy_init(b, opens)
           timer == y.timer \cup {w}
           t == [y EXCEPT !.timer = timer]
           z == IF y.fs_fd THEN Stat!infy_add(y, w)
                ELSE [Stat!timer_again(y, w, TRUE) EXCEPT !.activecnt = @ - 1]
<1>1. /\ x' = [z EXCEPT !.active = @ \cup {w}, !.activecnt = @ + 1]
      /\ told' = [told EXCEPT ![w] = Stat!lstat(x)] /\ w \notin x.active
  BY DEF Stat!ev_stat_start, Stat!active
<1>2. /\ x \in Fs /\ told \in [Two -> Attr] /\ Base(x.active, x)
      /\ x.activecnt = Cardinality(x.active) /\ x.mid = Stat!Quiet
      /\ \A v \in Two : Numbered(x, v)
      /\ x.fs_fd => x.tried
      /\ InSight(x.active, x, {})
      /\ \A v \in Two : v \in x.active /\ x.attr[v] # told[v] => v \in x.pend
  BY Zenon DEF StatInv
<1>3. Base(A, x)
  <2>1. x.hash \subseteq A /\ x.timer \subseteq A /\ x.pend \subseteq A
    BY <1>2 DEF Base
  <2> HIDE DEF A
  <2> QED
    BY <1>2, <2>1, Zenon DEF Base
<1>4. \A v \in Two \ {w} : Sees(A, x, v, {})
  <2>1. \A v \in Two \ {w} : v \in A <=> v \in x.active
    OBVIOUS
  <2> HIDE DEF A
  <2> QED
    BY <1>2, <2>1, SeesOthers, Zenon DEF InSight
<1>5. /\ Keeps(A, x, e, {w}) /\ e.attr[w] = Stat!lstat(e) /\ e.pend = x.pend
      /\ e.mid = x.mid /\ e.timer = x.timer /\ e.hash = x.hash
      /\ e.path = x.path /\ e.version = x.version
  BY <1>2, <1>3, StatKeeps
<1> HIDE DEF e
<1>6. b = e
  <2>1. by = Stat!Quiet
    BY DEF Stat!Meanwhile
  <2>2. e1 = e
    BY <1>2, <1>5, <2>1 DEF Keeps, Fs
  <2>3. Stat!change(e1, e1.mid) = e
    <3>1. e1.mid.do = "none"
      <4>1. e1.mid = Stat!Quiet
        BY <1>2, <1>5, <2>2, Zenon
      <4> HIDE DEF e1
      <4> QED
        BY <4>1 DEF Stat!Quiet
    <3> QED
      BY <2>2, <3>1 DEF Stat!change
  <2>4. Stat!Do(Stat!change, e1, e1.mid) = e
    BY <2>3, Once
  <2>5. b = [Stat!Do(Stat!change, e1, e1.mid) EXCEPT !.mid = Stat!Quiet]
    BY Zenon DEF Stat!meanwhile
  <2> HIDE DEF b, e1
  <2> QED
    BY <1>2, <1>5, <2>4, <2>5 DEF Keeps, Fs
<1> HIDE DEF b
<1>7. e \in Fs /\ Base(A, e) /\ e.fs_fd = x.fs_fd /\ e.tried = x.tried /\ e.active = x.active /\ e.activecnt = x.activecnt
  BY <1>5, Zenon DEF Keeps
<1>8. /\ y \in Fs /\ y.timer = e.timer /\ y.hash = e.hash /\ y.wd = e.wd
      /\ y.marks = e.marks /\ y.wds = e.wds /\ y.queue = e.queue /\ y.attr = e.attr
      /\ y.path = e.path /\ y.version = e.version /\ y.mid = e.mid
      /\ y.active = e.active /\ y.activecnt = e.activecnt /\ y.pend = e.pend
      /\ y.tried /\ (e.fs_fd => y.fs_fd)
  BY <1>2, <1>6, <1>7 DEF Fs, Stat!infy_init
<1> HIDE DEF y
<1>9. Stat!lstat(y) = Stat!lstat(x) /\ y.attr[w] = Stat!lstat(y) /\ y.pend = x.pend /\ y.mid = Stat!Quiet
  BY <1>2, <1>5, <1>8, Zenon DEF Stat!lstat
<1>10. Base(A, y)
  BY <1>7, <1>8, Zenon DEF Base
<1>11. \A v \in Two : Numbered(y, v)
  BY <1>2, <1>5, <1>8, Zenon DEF Numbered, Keeps
<1>12. ASSUME NEW v \in Two \ {w}
       PROVE  Sees(A, y, v, {})
  <2>1. Sees(A, e, v, {})
    BY <1>4, <1>5, Zenon DEF Keeps
  <2>2. \A j, c : Comes(e, {}, j, c) => Comes(y, {}, j, c)
    BY <1>8, Zenon DEF Comes
  <2>3. Stat!stat_differs(y, v) => Stat!stat_differs(e, v)
    BY <1>8, Zenon DEF Stat!stat_differs, Stat!lstat
  <2> QED
    BY <1>8, <2>1, <2>2, <2>3, Zenon DEF Sees
<1>13. w \notin y.hash /\ w \notin y.timer /\ y.active = x.active /\ y.activecnt = x.activecnt
       /\ y.activecnt \in Int /\ w \in A
  BY <1>1, <1>2, <1>5, <1>7, <1>8 DEF Base, Fs
<1>14. /\ Keeps(A, y, z, {w}) /\ Follows(z, w) /\ Numbered(z, w)
       /\ z.attr = y.attr /\ z.pend = y.pend /\ z.mid = y.mid /\ z.path = y.path /\ z.version = y.version
  <2>1. CASE y.fs_fd
    <3> DEFINE a == Stat!infy_add(y, w)
    <3>1. z = a
      BY <2>1
    <3>2. /\ Keeps(A, y, a, {w}) /\ Follows(a, w) /\ Numbered(a, w)
          /\ a.attr = y.attr /\ a.pend = y.pend /\ a.mid = y.mid /\ a.path = y.path /\ a.version = y.version
      BY <1>8, <1>10, <1>13, <2>1, AddKeeps
    <3> HIDE DEF a, z, A
    <3> QED
      BY <3>1, <3>2
  <2>2. CASE ~y.fs_fd
    <3>1. z = t
      <4>1. z = [Stat!timer_again(y, w, TRUE) EXCEPT !.activecnt = @ - 1]
        BY <2>2
      <4>2. Stat!timer_again(y, w, TRUE) = [y EXCEPT !.timer = timer, !.activecnt = y.activecnt + 1]
        <5>1. Stat!timer_again(y, w, TRUE) = [y EXCEPT !.timer = timer, !.activecnt = y.activecnt + 1 - 0]
          BY <1>8, <1>13 DEF Stat!timer_again, Fs
        <5>2. y.activecnt + 1 - 0 = y.activecnt + 1
          BY <1>13
        <5> QED
          BY <5>1, <5>2, Zenon
      <4> DEFINE c == y.activecnt + 1
                 r == Stat!timer_again(y, w, TRUE)
      <4>3. c - 1 = y.activecnt /\ r = [y EXCEPT !.timer = timer, !.activecnt = c]
        <5>1. c - 1 = y.activecnt
          BY <1>13
        <5> QED
          BY <4>2, <5>1, Zenon
      <4> HIDE DEF c, r, timer, z
      <4>4. r.activecnt = c /\ z = [r EXCEPT !.activecnt = r.activecnt - 1]
        BY <1>8, <4>1, <4>3 DEF Fs, r
      <4>5. z = [r EXCEPT !.activecnt = y.activecnt]
        BY <4>3, <4>4
      <4> QED
        BY <1>8, <4>3, <4>5 DEF Fs
    <3>2. /\ w \in timer /\ timer \subseteq A /\ \A u \in Two \ {w} : u \in timer <=> u \in y.timer
          /\ timer \in SUBSET Two
      BY <1>8, <1>10 DEF Base, Fs
    <3> HIDE DEF timer, A, z
    <3>3. /\ t \in Fs /\ t.wd = y.wd /\ t.hash = y.hash /\ t.timer = timer
          /\ t.marks = y.marks /\ t.wds = y.wds
          /\ t.path = y.path /\ t.version = y.version /\ t.queue = y.queue /\ t.mid = y.mid
          /\ t.fs_fd = y.fs_fd /\ t.tried = y.tried /\ t.active = y.active /\ t.pend = y.pend
          /\ t.activecnt = y.activecnt /\ t.attr = y.attr
      BY <1>8, <3>2 DEF Fs
    <3> HIDE DEF t
    <3>4. Base(A, t)
      BY <1>10, <3>2, <3>3, Zenon DEF Base
    <3>5. ASSUME NEW u \in Two \ {w}, NEW F, Sees(A, y, u, F)
          PROVE  Sees(A, t, u, F)
      <4>1. \A j, c : Comes(y, F, j, c) => Comes(t, F, j, c)
        BY <3>3, Zenon DEF Comes
      <4>2. Stat!stat_differs(t, u) => Stat!stat_differs(y, u)
        BY <3>3, Zenon DEF Stat!stat_differs, Stat!lstat
      <4> QED
        BY <3>2, <3>3, <3>5, <4>1, <4>2, Zenon DEF Sees
    <3>6. \A u \in Two : Numbered(t, u)
      BY <1>11, <3>3, Zenon DEF Numbered
    <3>7. Keeps(A, y, t, {w})
      BY <3>3, <3>4, <3>5, <3>6, Zenon DEF Keeps
    <3>8. Follows(t, w)
      BY <3>2, <3>3, Zenon DEF Follows
    <3> QED
      BY <3>1, <3>3, <3>6, <3>7, <3>8
  <2> QED
    BY <2>1, <2>2
<1> HIDE DEF z
<1>15. /\ z \in Fs /\ Base(A, z) /\ z.active = x.active /\ z.activecnt = x.activecnt
       /\ (\A v \in Two : Numbered(z, v)) /\ z.tried
       /\ \A v \in Two \ {w} : z.attr[v] = x.attr[v] /\ Sees(A, z, v, {})
  <2>1. \A v \in Two \ {w} : e.attr[v] = x.attr[v]
    BY <1>5, Zenon DEF Keeps
  <2>2. \A v \in Two \ {w} : z.attr[v] = y.attr[v] /\ (Sees(A, y, v, {}) => Sees(A, z, v, {}))
    BY <1>14, Zenon DEF Keeps
  <2>3. \A v \in Two \ {w} : z.attr[v] = x.attr[v] /\ Sees(A, z, v, {})
    BY <1>8, <1>12, <2>1, <2>2, Zenon
  <2>4. z \in Fs /\ Base(A, z) /\ z.active = y.active /\ z.activecnt = y.activecnt /\ z.tried = y.tried
    BY <1>14, Zenon DEF Keeps
  <2>5. \A v \in Two : Numbered(z, v)
    BY <1>11, <1>14, Zenon DEF Keeps
  <2> QED
    BY <1>8, <1>13, <2>3, <2>4, <2>5, Zenon
<1>16. Sees(A, z, w, {})
  <2>1. z.attr[w] = Stat!lstat(z)
    BY <1>9, <1>14, Zenon DEF Stat!lstat
  <2> QED
    BY <1>14, <2>1, FollowsSees, Zenon
<1>17. /\ x' \in Fs /\ x'.active = A /\ x'.activecnt = x.activecnt + 1
       /\ x'.wd = z.wd /\ x'.hash = z.hash /\ x'.timer = z.timer
       /\ x'.marks = z.marks /\ x'.wds = z.wds
       /\ x'.path = z.path /\ x'.version = z.version /\ x'.queue = z.queue /\ x'.mid = z.mid
       /\ x'.fs_fd = z.fs_fd /\ x'.tried = z.tried /\ x'.pend = z.pend /\ x'.attr = z.attr
  <2> DEFINE c == x.activecnt + 1
  <2>1. c \in Int /\ A \in SUBSET Two
    BY <1>2 DEF Fs
  <2>2. x' = [z EXCEPT !.active = A, !.activecnt = c]
    BY <1>1, <1>15 DEF Fs
  <2> HIDE DEF A, c
  <2>3. /\ x' \in Fs /\ x'.active = A /\ x'.activecnt = c
        /\ x'.wd = z.wd /\ x'.hash = z.hash /\ x'.timer = z.timer
        /\ x'.marks = z.marks /\ x'.wds = z.wds
        /\ x'.path = z.path /\ x'.version = z.version /\ x'.queue = z.queue /\ x'.mid = z.mid
        /\ x'.fs_fd = z.fs_fd /\ x'.tried = z.tried /\ x'.pend = z.pend /\ x'.attr = z.attr
    BY <1>15, <2>1, <2>2 DEF Fs
  <2> QED
    BY <2>3 DEF c
<1>18. x'.activecnt = Cardinality(x'.active)
  <2>1. x.active \subseteq Two
    BY <1>2 DEF Fs
  <2>2. IsFiniteSet(x.active)
    BY <2>1, FiniteTwo
  <2>3. Cardinality(x.active \cup {w}) = Cardinality(x.active) + 1
    BY <1>1, <2>2, FS_AddElement
  <2> QED
    BY <1>2, <1>17, <2>3
<1>19. /\ told' \in [Two -> Attr] /\ told'[w] = Stat!lstat(x)
       /\ \A v \in Two \ {w} : told'[v] = told[v]
  <2>1. Stat!lstat(x) \in Attr
    BY <1>2 DEF Fs, Attr, Paths, Stat!lstat
  <2> QED
    BY <1>1, <1>2, <2>1
<1>20. \A v \in Two : v \in x'.active /\ x'.attr[v] # told'[v] => v \in x'.pend
  <2>1. x'.attr[w] = told'[w]
    BY <1>9, <1>14, <1>17, <1>19
  <2>2. \A v \in Two \ {w} : v \in x'.active /\ x'.attr[v] # told'[v] => v \in x'.pend
    <3>1. \A v \in Two \ {w} : v \in A <=> v \in x.active
      OBVIOUS
    <3> HIDE DEF A
    <3> QED
      BY <1>2, <1>9, <1>14, <1>15, <1>17, <1>19, <3>1
  <2> QED
    BY <2>1, <2>2
<1> HIDE DEF A
<1>21. Base(A, x') /\ \A v \in Two : Numbered(x', v)
  BY <1>15, <1>17, Zenon DEF Base, Numbered
<1>22. InSight(A, x', {})
  <2>1. \A v \in Two : Sees(A, z, v, {})
    BY <1>15, <1>16
  <2>2. \A j, c : Comes(z, {}, j, c) => Comes(x', {}, j, c)
    BY <1>17, Zenon DEF Comes
  <2>3. \A v : Stat!stat_differs(x', v) => Stat!stat_differs(z, v)
    BY <1>17, Zenon DEF Stat!stat_differs, Stat!lstat
  <2> QED
    BY <1>17, <2>1, <2>2, <2>3, Zenon DEF InSight, Sees
<1>23. x'.mid = Stat!Quiet /\ x'.tried
  BY <1>9, <1>14, <1>15, <1>17
<1> QED
  BY <1>17, <1>18, <1>19, <1>20, <1>21, <1>22, <1>23, Zenon DEF StatInv

\* A watcher is stopped, and its mark removed.
LEMMA StatStop ==
    ASSUME StatInv, NEW w \in Two, Stat!ev_stat_stop(w)
    PROVE  StatInv'
<1> DEFINE A == x.active
           B == x.active \ {w}
           rest == x.pend \ {w}
           y == [x EXCEPT !.pend = rest]
           d == Stat!infy_del(y, w)
           timer == d.timer \ {w}
           ref == [d EXCEPT !.activecnt = IF w \in y.timer THEN @ + 1 ELSE @]
           z == Stat!timer_again(ref, w, FALSE)
<1>1. /\ x \in Fs /\ told \in [Two -> Attr] /\ Base(A, x)
      /\ x.activecnt = Cardinality(A) /\ x.mid = Stat!Quiet
      /\ \A v \in Two : Numbered(x, v)
      /\ x.fs_fd => x.tried
      /\ InSight(A, x, {})
      /\ \A v \in Two : v \in A /\ x.attr[v] # told[v] => v \in x.pend
  BY Zenon DEF StatInv
<1>2. w \in A
  BY <1>1 DEF Stat!ev_stat_stop, Stat!active, Base
<1>3. x' = [z EXCEPT !.active = @ \ {w}, !.activecnt = @ - 1] /\ told' = told
  BY <1>2 DEF Stat!ev_stat_stop, Stat!active
<1>4. rest \in SUBSET Two /\ rest \subseteq A /\ w \notin rest /\ \A v \in Two \ {w} : v \in rest <=> v \in x.pend
  BY <1>1 DEF Base, Fs
<1> HIDE DEF rest
<1>5. /\ y \in Fs /\ y.pend = rest /\ y.wd = x.wd /\ y.hash = x.hash /\ y.timer = x.timer
      /\ y.marks = x.marks /\ y.wds = x.wds
      /\ y.path = x.path /\ y.version = x.version /\ y.queue = x.queue /\ y.mid = x.mid
      /\ y.fs_fd = x.fs_fd /\ y.tried = x.tried /\ y.active = A
      /\ y.activecnt = x.activecnt /\ y.attr = x.attr
  BY <1>1, <1>4 DEF Fs
<1> HIDE DEF y, A
<1>6. Base(A, y) /\ \A v \in Two : Numbered(y, v)
  BY <1>1, <1>4, <1>5, Zenon DEF Base, Numbered
<1>7. ASSUME NEW v \in Two
      PROVE  Sees(A, y, v, {})
  <2>1. \A j, c : Comes(x, {}, j, c) => Comes(y, {}, j, c)
    BY <1>5, Zenon DEF Comes
  <2>2. Stat!stat_differs(y, v) => Stat!stat_differs(x, v)
    BY <1>5, Zenon DEF Stat!stat_differs, Stat!lstat
  <2> QED
    BY <1>1, <1>5, <2>1, <2>2, Zenon DEF Sees, InSight
<1>8. /\ Keeps(A, y, d, {w}) /\ w \notin d.hash /\ d.timer = y.timer
      /\ d.attr = y.attr /\ d.pend = y.pend /\ d.mid = y.mid /\ d.path = y.path /\ d.version = y.version
  BY <1>5, <1>6, DelKeeps
<1> HIDE DEF d
<1>9. /\ d \in Fs /\ Base(A, d) /\ d.active = A /\ d.activecnt = x.activecnt
      /\ d.fs_fd = x.fs_fd /\ d.tried = x.tried /\ d.attr = x.attr /\ d.mid = Stat!Quiet
      /\ d.pend = rest /\ d.timer = x.timer
      /\ \A v \in Two : Numbered(d, v)
      /\ \A v \in Two \ {w} : Sees(A, d, v, {})
  BY <1>1, <1>5, <1>6, <1>7, <1>8, Zenon DEF Keeps
<1>10. x' = [d EXCEPT !.timer = timer, !.active = B, !.activecnt = x.activecnt - 1]
  <2> DEFINE c == IF w \in d.timer THEN d.activecnt + 1 ELSE d.activecnt
             c1 == c + 0 - (IF w \in d.timer THEN 1 ELSE 0)
  <2>1. d.activecnt \in Int
    BY <1>9 DEF Fs
  <2>2. c1 = d.activecnt
    BY <2>1
  <2>3. ref = [d EXCEPT !.activecnt = c]
    BY <1>8, <1>9 DEF Fs
  <2>4. ref.timer = d.timer /\ ref.activecnt = c
    BY <1>9, <2>3 DEF Fs
  <2>5. z = [ref EXCEPT !.timer = timer, !.activecnt = c1]
    <3> HIDE DEF ref, c
    <3> QED
      BY <2>4 DEF Stat!timer_again
  <2> HIDE DEF c1, c, ref, z
  <2>6. z = [d EXCEPT !.timer = timer, !.activecnt = d.activecnt]
    BY <2>2, <2>3, <2>5 DEF Fs
  <2>7. z.active = A /\ z.activecnt = x.activecnt
    BY <1>9, <2>6 DEF Fs
  <2>8. x' = [z EXCEPT !.active = B, !.activecnt = x.activecnt - 1]
    BY <1>3, <2>7 DEF A
  <2> HIDE DEF timer, B
  <2> QED
    BY <2>6, <2>8 DEF Fs
<1>11. /\ x' \in Fs /\ x'.active = B /\ x'.activecnt = x.activecnt - 1 /\ x'.timer = timer
       /\ x'.wd = d.wd /\ x'.hash = d.hash /\ x'.marks = d.marks /\ x'.wds = d.wds
       /\ x'.path = d.path /\ x'.version = d.version /\ x'.queue = d.queue /\ x'.mid = d.mid
       /\ x'.fs_fd = d.fs_fd /\ x'.tried = d.tried /\ x'.pend = d.pend /\ x'.attr = d.attr
  <2> DEFINE c == x.activecnt - 1
  <2>1. c \in Int /\ B \in SUBSET Two /\ timer \in SUBSET Two
    BY <1>1, <1>9 DEF Fs
  <2>2. x' = [d EXCEPT !.timer = timer, !.active = B, !.activecnt = c]
    BY <1>10
  <2> HIDE DEF B, c, timer
  <2>3. /\ x' \in Fs /\ x'.active = B /\ x'.activecnt = c /\ x'.timer = timer
        /\ x'.wd = d.wd /\ x'.hash = d.hash /\ x'.marks = d.marks /\ x'.wds = d.wds
        /\ x'.path = d.path /\ x'.version = d.version /\ x'.queue = d.queue /\ x'.mid = d.mid
        /\ x'.fs_fd = d.fs_fd /\ x'.tried = d.tried /\ x'.pend = d.pend /\ x'.attr = d.attr
    BY <1>9, <2>1, <2>2 DEF Fs
  <2> QED
    BY <2>3 DEF c
<1>12. x'.activecnt = Cardinality(x'.active)
  <2>1. A \subseteq Two
    BY <1>1 DEF Fs, A
  <2>2. IsFiniteSet(A)
    BY <2>1, FiniteTwo
  <2>3. Cardinality(A \ {w}) = Cardinality(A) - 1
    BY <1>2, <2>2, FS_RemoveElement
  <2> QED
    BY <1>1, <1>11, <2>3 DEF A
<1>13. /\ w \notin B /\ \A v \in Two \ {w} : v \in B <=> v \in A
       /\ \A v \in Two \ {w} : v \in timer <=> v \in d.timer
  BY DEF A
<1>14. d.hash \subseteq B /\ timer \subseteq B /\ d.pend \subseteq B
  BY <1>4, <1>8, <1>9 DEF Base, A
<1> HIDE DEF B, timer
<1>15. Base(B, x') /\ \A v \in Two : Numbered(x', v)
  BY <1>9, <1>11, <1>14, Zenon DEF Base, Numbered
<1>16. InSight(B, x', {})
  <2>1. Sees(B, x', w, {})
    BY <1>13, Zenon DEF Sees
  <2>2. ASSUME NEW v \in Two \ {w}
        PROVE  Sees(B, x', v, {})
    <3>1. Sees(A, d, v, {})
      BY <1>9
    <3>2. \A j, c : Comes(d, {}, j, c) => Comes(x', {}, j, c)
      BY <1>11, Zenon DEF Comes
    <3>3. Stat!stat_differs(x', v) => Stat!stat_differs(d, v)
      BY <1>11, Zenon DEF Stat!stat_differs, Stat!lstat
    <3> QED
      BY <1>11, <1>13, <3>1, <3>2, <3>3, Zenon DEF Sees
  <2> QED
    BY <2>1, <2>2, Zenon DEF InSight
<1>17. \A v \in Two : v \in x'.active /\ x'.attr[v] # told'[v] => v \in x'.pend
  <2>1. ASSUME NEW v \in Two, v \in x'.active, x'.attr[v] # told'[v]
        PROVE  v \in x'.pend
    <3>1. v # w /\ v \in B /\ x.attr[v] # told[v]
      BY <1>3, <1>9, <1>11, <1>13, <2>1, Zenon
    <3>2. v \in Two \ {w}
      BY <3>1
    <3>3. v \in A /\ v \in x.pend
      BY <1>1, <1>13, <3>1, <3>2, Zenon
    <3> QED
      BY <1>4, <1>9, <1>11, <3>2, <3>3, Zenon
  <2> QED
    BY <2>1, Zenon
<1> QED
  BY <1>1, <1>3, <1>9, <1>11, <1>12, <1>15, <1>16, <1>17, Zenon DEF StatInv

\* The file changes.
LEMMA StatChanges ==
    ASSUME StatInv, NEW by \in Stat!Changes, Stat!changes(by)
    PROVE  StatInv'
<1>1. x \in Fs /\ Base(x.active, x) /\ InSight(x.active, x, {})
  BY Zenon DEF StatInv
<1>2. x' = Stat!change(x, by) /\ told' = told
  BY DEF Stat!changes
<1>3. Tells(x, x')
  BY <1>1, <1>2, Change DEF Base, OnePerFile
<1>4. Keeps(x.active, x, x', {}) /\ x'.mid = x.mid
  BY <1>1, <1>3, TellsKeeps DEF Tells, Shifts
<1>5. Goes(x.active, x, x') /\ InSight(x.active, x', {})
  <2>1. \A v \in Two \ {} : x'.attr[v] = x.attr[v]
    BY <1>4, Zenon DEF Keeps
  <2>2. \A v \in Two : x'.attr[v] = x.attr[v]
    BY <2>1
  <2>3. \A v \in Two : Sees(x.active, x', v, {})
    <3>1. \A v \in Two \ {} : Sees(x.active, x, v, {}) => Sees(x.active, x', v, {})
      BY <1>4, Zenon DEF Keeps
    <3>2. \A v \in Two : Sees(x.active, x, v, {})
      BY <1>1, Zenon DEF InSight
    <3> QED
      BY <3>1, <3>2
  <2> QED
    BY <1>4, <2>2, <2>3, Zenon DEF Goes, Keeps, InSight
<1> QED
  BY <1>2, <1>4, <1>5, GoesInv

\* The child of a fork.
LEMMA StatFork ==
    ASSUME StatInv, NEW opens \in BOOLEAN, Stat!infy_fork(opens)
    PROVE  StatInv'
<1>1. /\ x \in Fs /\ told \in [Two -> Attr] /\ Base(x.active, x)
      /\ x.activecnt = Cardinality(x.active) /\ x.mid = Stat!Quiet
      /\ \A v \in Two : Numbered(x, v)
      /\ x.fs_fd => x.tried
      /\ InSight(x.active, x, {})
      /\ \A v \in Two : v \in x.active /\ x.attr[v] # told[v] => v \in x.pend
  BY Zenon DEF StatInv
<1>2. x.fs_fd /\ told' = told /\ \A w \in x.active : ~Stat!stat_differs(x, w)
  BY DEF Stat!infy_fork, Stat!Untold
<1>3. /\ x' \in Fs /\ Base(x.active, x') /\ (\A w \in Two : Numbered(x', w)) /\ InSight(x.active, x', {})
      /\ x'.active = x.active /\ x'.activecnt = x.activecnt /\ x'.pend = x.pend
      /\ x'.attr = x.attr /\ x'.mid = x.mid /\ x'.fs_fd = opens /\ x'.tried = x.tried
  <2> DEFINE one(z, w) == IF opens THEN Stat!infy_add([z EXCEPT !.wd[w] = -1], w)
                          ELSE Stat!timer_rearm([z EXCEPT !.wd[w] = -1], w, TRUE)
             d == Stat!Steps(one, [x EXCEPT !.marks = <<>>, !.queue = <<>>, !.fs_fd = opens, !.hash = {}],
                             Stat!SetToSeq(x.hash))
  <2>1. x' = d
    BY Zenon DEF Stat!infy_fork
  <2>2. /\ d \in Fs /\ Base(x.active, d) /\ (\A w \in Two : Numbered(d, w)) /\ InSight(x.active, d, {})
        /\ d.active = x.active /\ d.activecnt = x.activecnt /\ d.pend = x.pend
        /\ d.attr = x.attr /\ d.mid = x.mid /\ d.fs_fd = opens /\ d.tried = x.tried
    BY <1>1, <1>2, ForkGoes, Zenon
  <2> HIDE DEF d
  <2> QED
    BY <2>1, <2>2, Zenon
<1> QED
  BY <1>1, <1>2, <1>3, Zenon DEF StatInv

\* The loop reads events.
LEMMA StatRead ==
    ASSUME StatInv, NEW by \in Stat!Changes, Stat!infy_cb(by)
    PROVE  StatInv'
<1>1. x \in Fs /\ Base(x.active, x) /\ InSight(x.active, x, {}) /\ \A w \in Two : Numbered(x, w)
  BY Zenon DEF StatInv
<1> DEFINE rest == SubSeq(x.queue, Len(Stat!Read(x)) + 1, Len(x.queue))
           d == Stat!Steps(Stat!infy_wd, [x EXCEPT !.mid = by, !.queue = rest], Stat!Read(x))
<1>2. x' = d /\ told' = told /\ x'.mid = x.mid
  BY Zenon DEF Stat!infy_cb
<1>3. Goes(x.active, x, d) /\ InSight(x.active, d, {})
  BY <1>1, ReadGoes, Zenon
<1> HIDE DEF d
<1> QED
  BY <1>2, <1>3, GoesInv

\* The timer of a watcher expires.
LEMMA StatTimer ==
    ASSUME StatInv, NEW w \in Two, NEW by \in Stat!Changes, Stat!timer(w, by)
    PROVE  StatInv'
<1>1. x \in Fs /\ Base(x.active, x) /\ InSight(x.active, x, {}) /\ \A v \in Two : Numbered(x, v)
  BY Zenon DEF StatInv
<1> DEFINE A == x.active
           z == [x EXCEPT !.mid = by]
           d == Stat!stat_timer_cb(z, w)
<1>2. x' = d /\ told' = told /\ x'.mid = x.mid /\ w \in x.timer
  BY Zenon DEF Stat!timer
<1>3. /\ z \in Fs /\ z.wd = x.wd /\ z.hash = x.hash /\ z.timer = x.timer
      /\ z.marks = x.marks /\ z.wds = x.wds /\ z.queue = x.queue
      /\ z.path = x.path /\ z.version = x.version /\ z.attr = x.attr
      /\ z.fs_fd = x.fs_fd /\ z.tried = x.tried /\ z.active = A /\ z.pend = x.pend
      /\ z.activecnt = x.activecnt
  BY <1>1 DEF Fs
<1>w. w \in A
  BY <1>1, <1>2 DEF Base
<1> HIDE DEF z, A
<1>4. Base(A, z) /\ \A v \in Two : Numbered(z, v)
  BY <1>1, <1>3, Zenon DEF Base, Numbered, A
<1>5. ASSUME NEW v \in Two
      PROVE  Sees(A, z, v, {})
  <2>1. \A j, c : Comes(x, {}, j, c) => Comes(z, {}, j, c)
    BY <1>3, Zenon DEF Comes
  <2>2. Stat!stat_differs(z, v) => Stat!stat_differs(x, v)
    BY <1>3, Zenon DEF Stat!stat_differs, Stat!lstat
  <2>3. Sees(A, x, v, {})
    BY <1>1, Zenon DEF InSight, A
  <2> QED
    BY <1>3, <2>1, <2>2, <2>3, Zenon DEF Sees
<1>6. /\ Keeps(A, z, d, {w})
      /\ d.attr[w] = z.attr[w] \/ w \in d.pend
      /\ (\A E : Sees(A, d, w, E)) \/ (d = z /\ ~Stat!stat_differs(z, w))
  BY <1>2, <1>3, <1>4, <1>w, TimerKeeps
<1> HIDE DEF d
<1>7. Sees(A, d, w, {})
  BY <1>5, <1>6, Zenon
<1>8. InSight(A, d, {})
  <2>1. \A v \in Two \ {w} : Sees(A, d, v, {})
    <3>1. \A v \in Two \ {w} : Sees(A, z, v, {}) => Sees(A, d, v, {})
      BY <1>6, Zenon DEF Keeps
    <3>2. \A v \in Two : Sees(A, z, v, {})
      BY <1>5, Zenon
    <3> QED
      BY <3>1, <3>2
  <2>2. \A v \in Two : v = w \/ v \in Two \ {w}
    OBVIOUS
  <2> QED
    BY <1>7, <2>1, <2>2, Zenon DEF InSight
<1>9. Goes(A, x, d)
  <2>1. \A v \in Two : d.attr[v] = x.attr[v] \/ v \in d.pend
    <3>1. \A v \in Two \ {w} : d.attr[v] = z.attr[v]
      BY <1>6, Zenon DEF Keeps
    <3> QED
      BY <1>3, <1>6, <3>1
  <2>2. \A v \in Two : Numbered(d, v)
    BY <1>4, <1>6, Zenon DEF Keeps
  <2> QED
    BY <1>3, <1>6, <2>1, <2>2, Zenon DEF Keeps, Goes, A
<1> QED
  BY <1>2, <1>8, <1>9, GoesInv DEF A

\* A watcher is told.
LEMMA StatCallback ==
    ASSUME StatInv, NEW w \in Two, Stat!callback(w)
    PROVE  StatInv'
<1> DEFINE rest == x.pend \ {w}
<1>1. /\ x \in Fs /\ told \in [Two -> Attr] /\ Base(x.active, x)
      /\ x.activecnt = Cardinality(x.active) /\ x.mid = Stat!Quiet
      /\ \A v \in Two : Numbered(x, v)
      /\ x.fs_fd => x.tried
      /\ InSight(x.active, x, {})
      /\ \A v \in Two : v \in x.active /\ x.attr[v] # told[v] => v \in x.pend
  BY Zenon DEF StatInv
<1>2. x' = [x EXCEPT !.pend = rest] /\ told' = [told EXCEPT ![w] = x.attr[w]]
  BY <1>1 DEF Stat!callback, Fs
<1>3. /\ rest \in SUBSET Two /\ rest \subseteq x.active
      /\ \A v \in Two \ {w} : v \in rest <=> v \in x.pend
  BY <1>1 DEF Base, Fs
<1> HIDE DEF rest
<1>4. /\ x' \in Fs /\ x'.wd = x.wd /\ x'.hash = x.hash /\ x'.timer = x.timer /\ x'.mid = x.mid
      /\ x'.marks = x.marks /\ x'.wds = x.wds /\ x'.queue = x.queue
      /\ x'.path = x.path /\ x'.version = x.version /\ x'.attr = x.attr
      /\ x'.fs_fd = x.fs_fd /\ x'.tried = x.tried /\ x'.active = x.active /\ x'.pend = rest
      /\ x'.activecnt = x.activecnt
  BY <1>1, <1>2, <1>3 DEF Fs
<1>5. Base(x.active, x') /\ \A v \in Two : Numbered(x', v)
  BY <1>1, <1>3, <1>4, Zenon DEF Base, Numbered
<1>6. ASSUME NEW v \in Two
      PROVE  Sees(x.active, x', v, {})
  <2>1. \A j, c : Comes(x, {}, j, c) => Comes(x', {}, j, c)
    BY <1>4, Zenon DEF Comes
  <2>2. Stat!stat_differs(x', v) => Stat!stat_differs(x, v)
    BY <1>4, Zenon DEF Stat!stat_differs, Stat!lstat
  <2>3. Sees(x.active, x, v, {})
    BY <1>1, Zenon DEF InSight
  <2> QED
    BY <1>4, <2>1, <2>2, <2>3, Zenon DEF Sees
<1>7. /\ told' \in [Two -> Attr] /\ told'[w] = x.attr[w]
      /\ \A v \in Two \ {w} : told'[v] = told[v]
  <2>1. x.attr[w] \in Attr
    BY <1>1 DEF Fs
  <2> QED
    BY <1>1, <1>2, <2>1
<1>8. \A v \in Two : v \in x'.active /\ x'.attr[v] # told'[v] => v \in x'.pend
  BY <1>1, <1>3, <1>4, <1>7
<1> QED
  BY <1>1, <1>4, <1>5, <1>6, <1>7, <1>8, Zenon DEF StatInv, InSight

LEMMA StatNext ==
    ASSUME StatInv, Stat!Next
    PROVE  StatInv'
<1>1. CASE Stat!program
  <2>1. ASSUME NEW w \in Two, NEW opens \in BOOLEAN, NEW by \in Stat!Meanwhile("start" \in {}),
               Stat!ev_stat_start(w, opens, by)
        PROVE  StatInv'
    BY <2>1, StatStart
  <2>2. ASSUME NEW w \in Two, Stat!ev_stat_stop(w)
        PROVE  StatInv'
    BY <2>2, StatStop
  <2>3. ASSUME NEW by \in Stat!Changes, Stat!changes(by)
        PROVE  StatInv'
    BY <2>3, StatChanges
  <2>4. ASSUME NEW opens \in BOOLEAN, Stat!infy_fork(opens)
        PROVE  StatInv'
    BY <2>4, StatFork
  <2> QED
    BY <1>1, <2>1, <2>2, <2>3, <2>4, Zenon DEF Stat!program
<1>2. CASE Stat!loop
  <2>1. ASSUME NEW by \in Stat!Changes, Stat!infy_cb(by)
        PROVE  StatInv'
    BY <2>1, StatRead
  <2>2. ASSUME NEW w \in Two, NEW by \in Stat!Changes, Stat!timer(w, by)
        PROVE  StatInv'
    BY <2>2, StatTimer
  <2>3. ASSUME NEW w \in Two, Stat!callback(w)
        PROVE  StatInv'
    BY <2>3, StatCallback
  <2> QED
    BY <1>2, <2>1, <2>2, <2>3, Zenon DEF Stat!loop
<1> QED
  BY <1>1, <1>2, Zenon DEF Stat!Next

LEMMA StatSame ==
    ASSUME StatInv, UNCHANGED statvars
    PROVE  StatInv'
BY Zenon DEF StatInv, statvars

\* The properties that the runs check.
LEMMA StatTypes ==
    ASSUME StatInv
    PROVE  Stat!TypeOK /\ Stat!ActiveCounted /\ Stat!ChangeOnItsWay
<1>1. /\ x \in Fs /\ Base(x.active, x)
      /\ x.activecnt = Cardinality(x.active) /\ x.mid = Stat!Quiet
      /\ \A v \in Two : Numbered(x, v)
      /\ InSight(x.active, x, {})
      /\ \A v \in Two : v \in x.active /\ x.attr[v] # told[v] => v \in x.pend
  BY Zenon DEF StatInv
<1>2. Stat!TypeOK
  <2>1. x.path \in File \cup {Missing} /\ x.active \subseteq Two
    BY <1>1 DEF Fs, Paths
  <2>2. x.hash \subseteq x.active /\ x.timer \subseteq x.active /\ x.pend \subseteq x.active
    BY <1>1 DEF Base
  <2>3. \A w \in Two : x.wd[w] >= 0 <=> w \in x.hash
    BY <1>1, Zenon DEF Numbered
  <2>4. x.mid.do = "none"
    BY <1>1 DEF Stat!Quiet
  <2> QED
    BY <2>1, <2>2, <2>3, <2>4, Zenon DEF Stat!TypeOK
<1>3. Stat!ActiveCounted
  <2>1. Stat!Cardinality(x.active) = Cardinality(x.active)
    BY Zenon DEF Stat!Cardinality, Cardinality
  <2> QED
    BY <1>1, <2>1, Zenon DEF Stat!ActiveCounted
<1>4. Stat!ChangeOnItsWay
  <2>1. ASSUME NEW w \in x.active
        PROVE  /\ x.attr[w] # told[w] => w \in x.pend
               /\ Stat!stat_differs(x, w) =>
                    w \in x.timer \/ \E i \in DOMAIN x.queue : x.queue[i].wd \in {x.wd[w], -1}
    <3>1. w \in Two
      BY <1>1 DEF Fs
    <3>2. Sees(x.active, x, w, {})
      BY <1>1, <3>1, Zenon DEF InSight
    <3>3. \A c : Comes(x, {}, x.wd[w], c) => \E i \in DOMAIN x.queue : x.queue[i].wd = x.wd[w]
      BY Zenon DEF Comes
    <3>4. ASSUME Stat!stat_differs(x, w), w \notin x.timer
          PROVE  \E i \in DOMAIN x.queue : x.queue[i].wd \in {x.wd[w], -1}
      <4>1. \E i \in DOMAIN x.queue : x.queue[i].wd = x.wd[w]
        BY <3>2, <3>3, <3>4, Zenon DEF Sees
      <4> QED
        BY <4>1
    <3> QED
      BY <1>1, <3>1, <3>4, Zenon
  <2> QED
    BY <2>1, Zenon DEF Stat!ChangeOnItsWay
<1> QED
  BY <1>2, <1>3, <1>4

-------------------------------------------------------------------------------
(* Signals and iterations *)

HandlerFacts == INSTANCE EvSignalProofs WITH
    Watcher <- Two, use_signalfd <- FALSE, Forks <- FALSE, MaxOps <- SignalOps
ForkingFacts == INSTANCE EvSignalProofs WITH
    Watcher <- Two, Thread <- {CHOOSE t \in Thread : TRUE},
    use_signalfd <- FALSE, Forks <- TRUE, MaxOps <- SignalOps
SignalfdFacts == INSTANCE EvSignalProofs WITH
    Watcher <- Two, Thread <- {}, use_signalfd <- TRUE, Forks <- FALSE, MaxOps <- SignalfdOps
RunFacts == INSTANCE EvRunProofs WITH
    Kinds <- {"io", "idle", "check", "prepare"}, LateFork <- FALSE, MaxOps <- RunOps
ForkFacts == INSTANCE EvRunProofs WITH
    Kinds <- {"fork", "cleanup", "prepare"}, NUMPRI <- 1, LateFork <- FALSE, MaxOps <- RunOps

\* EvSignal with handlers is the same in both modules.
LEMMA SameHandler ==
    /\ Handler!SignalAssumption => HandlerFacts!SignalAssumption
    /\ Handler!Init => HandlerFacts!Init
    /\ Handler!Next => HandlerFacts!Next
<1>1. Handler!SignalAssumption => HandlerFacts!SignalAssumption
  BY DEF Handler!SignalAssumption, HandlerFacts!SignalAssumption
<1>2. Handler!Init => HandlerFacts!Init
  BY Zenon DEF Handler!Init, HandlerFacts!Init, Handler!Signal, HandlerFacts!Signal, Handler!Idle, HandlerFacts!Idle
<1>3. Handler!Next => HandlerFacts!Next
  BY Zenon
  DEF Handler!Next, HandlerFacts!Next, Handler!program, HandlerFacts!program,
      Handler!poll_other, HandlerFacts!poll_other, Handler!loop, HandlerFacts!loop,
      Handler!writer, HandlerFacts!writer, Handler!raise, HandlerFacts!raise,
      Handler!ev_async_send, HandlerFacts!ev_async_send, Handler!ev_signal_stop,
      HandlerFacts!ev_signal_stop, Handler!ev_signal_start,
      HandlerFacts!ev_signal_start, Handler!fork, HandlerFacts!fork, Handler!looping,
      HandlerFacts!looping, Handler!loop_fork, HandlerFacts!loop_fork, Handler!want,
      HandlerFacts!want, Handler!check, HandlerFacts!check, Handler!Readable,
      HandlerFacts!Readable, Handler!poll, HandlerFacts!poll, Handler!unwant,
      HandlerFacts!unwant, Handler!skipped, HandlerFacts!skipped, Handler!sigfdcb,
      HandlerFacts!sigfdcb, Handler!invoke, HandlerFacts!invoke, Handler!pipecb_read,
      HandlerFacts!pipecb_read, Handler!pipecb_unskip, HandlerFacts!pipecb_unskip,
      Handler!pipecb_signals, HandlerFacts!pipecb_signals, Handler!pipecb_scan,
      HandlerFacts!pipecb_scan, Handler!ev_feed_signal_event,
      HandlerFacts!ev_feed_signal_event, Handler!pipecb_asyncs,
      HandlerFacts!pipecb_asyncs, Handler!pipecb_sent, HandlerFacts!pipecb_sent,
      Handler!goes, HandlerFacts!goes, Handler!writing, HandlerFacts!writing,
      Handler!ev_feed_signal, HandlerFacts!ev_feed_signal, Handler!Flag, HandlerFacts!Flag,
      Handler!evpipe_write_flag, HandlerFacts!evpipe_write_flag,
      Handler!evpipe_write_skip, HandlerFacts!evpipe_write_skip,
      Handler!evpipe_write_wanted, HandlerFacts!evpipe_write_wanted,
      Handler!evpipe_write_unskip, HandlerFacts!evpipe_write_unskip,
      Handler!evpipe_write, HandlerFacts!evpipe_write, Handler!Idle,
      HandlerFacts!Idle, Handler!Active, HandlerFacts!Active, Handler!signum,
      HandlerFacts!signum, Handler!Signal, HandlerFacts!Signal, Handler!Op,
      HandlerFacts!Op, Handler!Max, HandlerFacts!Max
<1> QED
  BY <1>1, <1>2, <1>3

\* It has the inductive invariant, and with it no signal is forgotten.
LEMMA HandlerInv ==
    /\ Handler!Init => HandlerFacts!IInv
    /\ HandlerFacts!IInv /\ Handler!Next => HandlerFacts!IInv'
    /\ HandlerFacts!IInv /\ UNCHANGED <<signalvars, pend, postfork, ops>> => HandlerFacts!IInv'
    /\ HandlerFacts!IInv => Handler!NoLostWakeup /\ Handler!SignalOnItsWay
<1>0. HandlerFacts!SignalAssumption
  BY HandlerAssumption, SameHandler
<1>1. Handler!Init => HandlerFacts!IInv
  BY <1>0, SameHandler, HandlerFacts!SignalInit
<1>2. HandlerFacts!IInv /\ Handler!Next => HandlerFacts!IInv'
  BY <1>0, SameHandler, HandlerFacts!SignalStep
<1>3. HandlerFacts!IInv /\ UNCHANGED <<signalvars, pend, postfork, ops>> => HandlerFacts!IInv'
  <2>1. UNCHANGED <<signalvars, pend, postfork, ops>> => UNCHANGED HandlerFacts!vars
    BY DEF signalvars, HandlerFacts!vars
  <2> QED
    BY <1>0, <2>1, HandlerFacts!SignalStep
<1>4. HandlerFacts!IInv => Handler!NoLostWakeup /\ Handler!SignalOnItsWay
  <2>1. HandlerFacts!IInv => HandlerFacts!NoLostWakeup /\ HandlerFacts!SignalOnItsWay
    BY <1>0, HandlerFacts!SignalSafe
  <2>2. HandlerFacts!NoLostWakeup => Handler!NoLostWakeup
    BY Zenon DEF Handler!NoLostWakeup, HandlerFacts!NoLostWakeup, Handler!Busy,
                 HandlerFacts!Busy, Handler!Idle, HandlerFacts!Idle
  <2>3. HandlerFacts!SignalOnItsWay => Handler!SignalOnItsWay
    BY Zenon DEF Handler!SignalOnItsWay, HandlerFacts!SignalOnItsWay, Handler!signum,
                 HandlerFacts!signum, Handler!Signal, HandlerFacts!Signal
  <2> QED
    BY <2>1, <2>2, <2>3
<1> QED
  BY <1>1, <1>2, <1>3, <1>4

\* EvSignal with a callback that forks is the same in both modules.
LEMMA SameForking ==
    /\ Forking!SignalAssumption => ForkingFacts!SignalAssumption
    /\ Forking!Init => ForkingFacts!Init
    /\ Forking!Next => ForkingFacts!Next
<1>1. Forking!SignalAssumption => ForkingFacts!SignalAssumption
  BY DEF Forking!SignalAssumption, ForkingFacts!SignalAssumption
<1>2. Forking!Init => ForkingFacts!Init
  BY Zenon DEF Forking!Init, ForkingFacts!Init, Forking!Signal, ForkingFacts!Signal, Forking!Idle, ForkingFacts!Idle
<1>3. Forking!Next => ForkingFacts!Next
  BY Zenon
  DEF Forking!Next, ForkingFacts!Next, Forking!program, ForkingFacts!program,
      Forking!poll_other, ForkingFacts!poll_other, Forking!loop, ForkingFacts!loop,
      Forking!writer, ForkingFacts!writer, Forking!raise, ForkingFacts!raise,
      Forking!ev_async_send, ForkingFacts!ev_async_send, Forking!ev_signal_stop,
      ForkingFacts!ev_signal_stop, Forking!ev_signal_start,
      ForkingFacts!ev_signal_start, Forking!fork, ForkingFacts!fork, Forking!looping,
      ForkingFacts!looping, Forking!loop_fork, ForkingFacts!loop_fork, Forking!want,
      ForkingFacts!want, Forking!check, ForkingFacts!check, Forking!Readable,
      ForkingFacts!Readable, Forking!poll, ForkingFacts!poll, Forking!unwant,
      ForkingFacts!unwant, Forking!skipped, ForkingFacts!skipped, Forking!sigfdcb,
      ForkingFacts!sigfdcb, Forking!invoke, ForkingFacts!invoke, Forking!pipecb_read,
      ForkingFacts!pipecb_read, Forking!pipecb_unskip, ForkingFacts!pipecb_unskip,
      Forking!pipecb_signals, ForkingFacts!pipecb_signals, Forking!pipecb_scan,
      ForkingFacts!pipecb_scan, Forking!ev_feed_signal_event,
      ForkingFacts!ev_feed_signal_event, Forking!pipecb_asyncs,
      ForkingFacts!pipecb_asyncs, Forking!pipecb_sent, ForkingFacts!pipecb_sent,
      Forking!goes, ForkingFacts!goes, Forking!writing, ForkingFacts!writing,
      Forking!ev_feed_signal, ForkingFacts!ev_feed_signal, Forking!Flag, ForkingFacts!Flag,
      Forking!evpipe_write_flag, ForkingFacts!evpipe_write_flag,
      Forking!evpipe_write_skip, ForkingFacts!evpipe_write_skip,
      Forking!evpipe_write_wanted, ForkingFacts!evpipe_write_wanted,
      Forking!evpipe_write_unskip, ForkingFacts!evpipe_write_unskip,
      Forking!evpipe_write, ForkingFacts!evpipe_write, Forking!Idle,
      ForkingFacts!Idle, Forking!Active, ForkingFacts!Active, Forking!signum,
      ForkingFacts!signum, Forking!Signal, ForkingFacts!Signal, Forking!Op,
      ForkingFacts!Op, Forking!Max, ForkingFacts!Max
<1> QED
  BY <1>1, <1>2, <1>3

\* It has the inductive invariant, and with it no signal is forgotten.
LEMMA ForkingInv ==
    /\ Forking!Init => ForkingFacts!IInv
    /\ ForkingFacts!IInv /\ Forking!Next => ForkingFacts!IInv'
    /\ ForkingFacts!IInv /\ UNCHANGED <<signalvars, pend, postfork, ops>> => ForkingFacts!IInv'
    /\ ForkingFacts!IInv => Forking!NoLostWakeup /\ Forking!SignalOnItsWay
<1>0. ForkingFacts!SignalAssumption
  BY ForkingAssumption, SameForking
<1>1. Forking!Init => ForkingFacts!IInv
  BY <1>0, SameForking, ForkingFacts!SignalInit
<1>2. ForkingFacts!IInv /\ Forking!Next => ForkingFacts!IInv'
  BY <1>0, SameForking, ForkingFacts!SignalStep
<1>3. ForkingFacts!IInv /\ UNCHANGED <<signalvars, pend, postfork, ops>> => ForkingFacts!IInv'
  <2>1. UNCHANGED <<signalvars, pend, postfork, ops>> => UNCHANGED ForkingFacts!vars
    BY DEF signalvars, ForkingFacts!vars
  <2> QED
    BY <1>0, <2>1, ForkingFacts!SignalStep
<1>4. ForkingFacts!IInv => Forking!NoLostWakeup /\ Forking!SignalOnItsWay
  <2>1. ForkingFacts!IInv => ForkingFacts!NoLostWakeup /\ ForkingFacts!SignalOnItsWay
    BY <1>0, ForkingFacts!SignalSafe
  <2>2. ForkingFacts!NoLostWakeup => Forking!NoLostWakeup
    BY Zenon DEF Forking!NoLostWakeup, ForkingFacts!NoLostWakeup, Forking!Busy,
                 ForkingFacts!Busy, Forking!Idle, ForkingFacts!Idle
  <2>3. ForkingFacts!SignalOnItsWay => Forking!SignalOnItsWay
    BY Zenon DEF Forking!SignalOnItsWay, ForkingFacts!SignalOnItsWay, Forking!signum,
                 ForkingFacts!signum, Forking!Signal, ForkingFacts!Signal
  <2> QED
    BY <2>1, <2>2, <2>3
<1> QED
  BY <1>1, <1>2, <1>3, <1>4

\* EvSignal with a signalfd is the same in both modules.
LEMMA SameSignalfd ==
    /\ Signalfd!SignalAssumption => SignalfdFacts!SignalAssumption
    /\ Signalfd!Init => SignalfdFacts!Init
    /\ Signalfd!Next => SignalfdFacts!Next
<1>1. Signalfd!SignalAssumption => SignalfdFacts!SignalAssumption
  BY DEF Signalfd!SignalAssumption, SignalfdFacts!SignalAssumption
<1>2. Signalfd!Init => SignalfdFacts!Init
  BY Zenon DEF Signalfd!Init, SignalfdFacts!Init, Signalfd!Signal, SignalfdFacts!Signal, Signalfd!Idle, SignalfdFacts!Idle
<1>3. Signalfd!Next => SignalfdFacts!Next
  BY Zenon
  DEF Signalfd!Next, SignalfdFacts!Next, Signalfd!program, SignalfdFacts!program,
      Signalfd!poll_other, SignalfdFacts!poll_other, Signalfd!loop,
      SignalfdFacts!loop, Signalfd!writer, SignalfdFacts!writer, Signalfd!raise,
      SignalfdFacts!raise, Signalfd!ev_async_send, SignalfdFacts!ev_async_send,
      Signalfd!ev_signal_stop, SignalfdFacts!ev_signal_stop, Signalfd!ev_signal_start,
      SignalfdFacts!ev_signal_start, Signalfd!fork, SignalfdFacts!fork,
      Signalfd!looping, SignalfdFacts!looping, Signalfd!loop_fork,
      SignalfdFacts!loop_fork, Signalfd!want, SignalfdFacts!want, Signalfd!check,
      SignalfdFacts!check, Signalfd!Readable, SignalfdFacts!Readable, Signalfd!poll,
      SignalfdFacts!poll, Signalfd!unwant, SignalfdFacts!unwant, Signalfd!skipped,
      SignalfdFacts!skipped, Signalfd!sigfdcb, SignalfdFacts!sigfdcb, Signalfd!invoke,
      SignalfdFacts!invoke, Signalfd!pipecb_read, SignalfdFacts!pipecb_read,
      Signalfd!pipecb_unskip, SignalfdFacts!pipecb_unskip, Signalfd!pipecb_signals,
      SignalfdFacts!pipecb_signals, Signalfd!pipecb_scan, SignalfdFacts!pipecb_scan,
      Signalfd!ev_feed_signal_event, SignalfdFacts!ev_feed_signal_event,
      Signalfd!pipecb_asyncs, SignalfdFacts!pipecb_asyncs, Signalfd!pipecb_sent,
      SignalfdFacts!pipecb_sent, Signalfd!goes, SignalfdFacts!goes, Signalfd!writing,
      SignalfdFacts!writing, Signalfd!ev_feed_signal, SignalfdFacts!ev_feed_signal,
      Signalfd!Flag,
      SignalfdFacts!Flag, Signalfd!evpipe_write_flag, SignalfdFacts!evpipe_write_flag,
      Signalfd!evpipe_write_skip, SignalfdFacts!evpipe_write_skip,
      Signalfd!evpipe_write_wanted, SignalfdFacts!evpipe_write_wanted,
      Signalfd!evpipe_write_unskip, SignalfdFacts!evpipe_write_unskip,
      Signalfd!evpipe_write, SignalfdFacts!evpipe_write, Signalfd!Idle,
      SignalfdFacts!Idle, Signalfd!Active, SignalfdFacts!Active, Signalfd!signum,
      SignalfdFacts!signum, Signalfd!Signal, SignalfdFacts!Signal, Signalfd!Op,
      SignalfdFacts!Op, Signalfd!Max, SignalfdFacts!Max
<1> QED
  BY <1>1, <1>2, <1>3

\* It has the inductive invariant, and with it no signal is forgotten.
LEMMA SignalfdInv ==
    /\ Signalfd!Init => SignalfdFacts!IInv
    /\ SignalfdFacts!IInv /\ Signalfd!Next => SignalfdFacts!IInv'
    /\ SignalfdFacts!IInv /\ UNCHANGED <<signalvars, pend, postfork, ops>> => SignalfdFacts!IInv'
    /\ SignalfdFacts!IInv => Signalfd!NoLostWakeup /\ Signalfd!SignalOnItsWay
<1>0. SignalfdFacts!SignalAssumption
  BY SignalfdAssumption, SameSignalfd
<1>1. Signalfd!Init => SignalfdFacts!IInv
  BY <1>0, SameSignalfd, SignalfdFacts!SignalInit
<1>2. SignalfdFacts!IInv /\ Signalfd!Next => SignalfdFacts!IInv'
  BY <1>0, SameSignalfd, SignalfdFacts!SignalStep
<1>3. SignalfdFacts!IInv /\ UNCHANGED <<signalvars, pend, postfork, ops>> => SignalfdFacts!IInv'
  <2>1. UNCHANGED <<signalvars, pend, postfork, ops>> => UNCHANGED SignalfdFacts!vars
    BY DEF signalvars, SignalfdFacts!vars
  <2> QED
    BY <1>0, <2>1, SignalfdFacts!SignalStep
<1>4. SignalfdFacts!IInv => Signalfd!NoLostWakeup /\ Signalfd!SignalOnItsWay
  <2>1. SignalfdFacts!IInv => SignalfdFacts!NoLostWakeup /\ SignalfdFacts!SignalOnItsWay
    BY <1>0, SignalfdFacts!SignalSafe
  <2>2. SignalfdFacts!NoLostWakeup => Signalfd!NoLostWakeup
    BY Zenon DEF Signalfd!NoLostWakeup, SignalfdFacts!NoLostWakeup, Signalfd!Busy,
                 SignalfdFacts!Busy, Signalfd!Idle, SignalfdFacts!Idle
  <2>3. SignalfdFacts!SignalOnItsWay => Signalfd!SignalOnItsWay
    BY Zenon DEF Signalfd!SignalOnItsWay, SignalfdFacts!SignalOnItsWay, Signalfd!signum,
                 SignalfdFacts!signum, Signalfd!Signal,
                 SignalfdFacts!Signal
  <2> QED
    BY <2>1, <2>2, <2>3
<1> QED
  BY <1>1, <1>2, <1>3, <1>4

\* EvRun with idle watchers is the same in both modules.
LEMMA SameRun ==
    /\ Run!RunAssumption => RunFacts!RunAssumption
    /\ Run!Init => RunFacts!Init
    /\ Run!Next => RunFacts!Next
<1>1. Run!RunAssumption => RunFacts!RunAssumption
  BY Zenon DEF Run!RunAssumption, RunFacts!RunAssumption, Run!IsFiniteSet,
               RunFacts!IsFiniteSet
<1>2. Run!Init => RunFacts!Init
  BY Zenon DEF Run!Init, RunFacts!Init, Run!Pri, RunFacts!Pri, Run!Arrays,
               RunFacts!Arrays
<1>3. ASSUME NEW w, Run!stop(w)
      PROVE  RunFacts!stop(w)
  BY <1>3, Zenon
  DEF Run!stop, RunFacts!stop, Run!stop_active, RunFacts!stop_active, Run!clear_pending,
      RunFacts!clear_pending, Run!Op, RunFacts!Op, Run!Program, RunFacts!Program,
      Run!Pending, RunFacts!Pending, Run!Active, RunFacts!Active, Run!Array,
      RunFacts!Array, Run!Pri, RunFacts!Pri, Run!Contains, RunFacts!Contains, Run!Last,
      RunFacts!Last
<1>4. ASSUME NEW w, NEW kind, NEW pri, Run!start(w, kind, pri)
      PROVE  RunFacts!start(w, kind, pri)
  BY <1>4, Zenon
  DEF Run!start, RunFacts!start, Run!Op, RunFacts!Op, Run!Program, RunFacts!Program,
      Run!Pending, RunFacts!Pending, Run!Active, RunFacts!Active, Run!Pri, RunFacts!Pri,
      Run!Contains, RunFacts!Contains, Run!Last, RunFacts!Last
<1>5. ASSUME NEW w, Run!ev_feed_event(w)
      PROVE  RunFacts!ev_feed_event(w)
  BY <1>5, Zenon
  DEF Run!ev_feed_event, RunFacts!ev_feed_event, Run!feed, RunFacts!feed, Run!Op,
      RunFacts!Op, Run!Program, RunFacts!Program, Run!Contains, RunFacts!Contains,
      Run!Last, RunFacts!Last
<1>6. ASSUME NEW w, Run!ev_clear_pending(w)
      PROVE  RunFacts!ev_clear_pending(w)
  BY <1>6, Zenon
  DEF Run!ev_clear_pending, RunFacts!ev_clear_pending, Run!clear_pending,
      RunFacts!clear_pending, Run!Op, RunFacts!Op, Run!Program, RunFacts!Program,
      Run!Pending, RunFacts!Pending, Run!Pri, RunFacts!Pri, Run!Contains,
      RunFacts!Contains, Run!Last, RunFacts!Last
<1>7. ASSUME NEW n, Run!ev_ref(n)
      PROVE  RunFacts!ev_ref(n)
  BY <1>7, Zenon
  DEF Run!ev_ref, RunFacts!ev_ref, Run!Op, RunFacts!Op, Run!Program, RunFacts!Program,
      Run!Last, RunFacts!Last
<1>8. ASSUME NEW how, Run!ev_break(how)
      PROVE  RunFacts!ev_break(how)
  BY <1>8, Zenon
  DEF Run!ev_break, RunFacts!ev_break, Run!Op, RunFacts!Op, Run!Program,
      RunFacts!Program, Run!Last, RunFacts!Last
<1>9. ASSUME NEW flag, Run!ev_run(flag)
      PROVE  RunFacts!ev_run(flag)
  BY <1>9, Zenon
  DEF Run!ev_run, RunFacts!ev_run, Run!Op, RunFacts!Op, Run!Program, RunFacts!Program,
      Run!Last, RunFacts!Last
<1>10. Run!ev_loop_fork => RunFacts!ev_loop_fork
  BY Zenon
  DEF Run!ev_loop_fork, RunFacts!ev_loop_fork, Run!ToSet, RunFacts!ToSet, Run!Op,
      RunFacts!Op, Run!Program, RunFacts!Program, Run!Last, RunFacts!Last
<1>11. Run!ev_invoke_pending => RunFacts!ev_invoke_pending
  BY Zenon
  DEF Run!ev_invoke_pending, RunFacts!ev_invoke_pending, Run!AtInvoke,
      RunFacts!AtInvoke, Run!Lower, RunFacts!Lower, Run!Highest, RunFacts!Highest,
      Run!Front, RunFacts!Front, Run!Last, RunFacts!Last, Run!Pri, RunFacts!Pri,
      Run!top, RunFacts!top, Run!Invokes, RunFacts!Invokes
<1>12. Run!callback_returns => RunFacts!callback_returns
  BY Zenon
  DEF Run!callback_returns, RunFacts!callback_returns, Run!top, RunFacts!top, Run!Last,
      RunFacts!Last
<1>13. Run!invoked => RunFacts!invoked
  BY Zenon
  DEF Run!invoked, RunFacts!invoked, Run!AtInvoke, RunFacts!AtInvoke, Run!Lower,
      RunFacts!Lower, Run!becomes, RunFacts!becomes, Run!Invokes, RunFacts!Invokes,
      Run!top, RunFacts!top, Run!Last, RunFacts!Last, Run!Pri, RunFacts!Pri
<1>14. Run!run_fork => RunFacts!run_fork
  BY Zenon
  DEF Run!run_fork, RunFacts!run_fork, Run!At, RunFacts!At, Run!top, RunFacts!top,
      Run!Last, RunFacts!Last, Run!invokes, RunFacts!invokes, Run!rest, RunFacts!rest,
      Run!queue_events, RunFacts!queue_events, Run!feed, RunFacts!feed, Run!Contains,
      RunFacts!Contains
<1>15. Run!run_prepare => RunFacts!run_prepare
  BY Zenon
  DEF Run!run_prepare, RunFacts!run_prepare, Run!At, RunFacts!At, Run!top, RunFacts!top,
      Run!Last, RunFacts!Last, Run!invokes, RunFacts!invokes, Run!rest, RunFacts!rest,
      Run!queue_events, RunFacts!queue_events, Run!feed, RunFacts!feed, Run!Contains,
      RunFacts!Contains
<1>16. Run!run_poll => RunFacts!run_poll
  BY Zenon
  DEF Run!run_poll, RunFacts!run_poll, Run!At, RunFacts!At, Run!top, RunFacts!top,
      Run!Last, RunFacts!Last, Run!becomes, RunFacts!becomes, Run!invokes,
      RunFacts!invokes, Run!rest, RunFacts!rest, Run!queue_events,
      RunFacts!queue_events, Run!feed, RunFacts!feed, Run!Contains, RunFacts!Contains,
      Run!idle_reify, RunFacts!idle_reify, Run!Pri, RunFacts!Pri, Run!ToSet,
      RunFacts!ToSet, Run!SetToSeq, RunFacts!SetToSeq, Run!IsInjective,
      RunFacts!IsInjective, Run!Cardinality, RunFacts!Cardinality
<1>17. Run!run_while => RunFacts!run_while
  BY Zenon
  DEF Run!run_while, RunFacts!run_while, Run!At, RunFacts!At, Run!top, RunFacts!top,
      Run!Last, RunFacts!Last, Run!becomes, RunFacts!becomes, Run!rest, RunFacts!rest
<1>18. Run!run_end => RunFacts!run_end
  BY Zenon
  DEF Run!run_end, RunFacts!run_end, Run!At, RunFacts!At, Run!top, RunFacts!top,
      Run!Last, RunFacts!Last, Run!Front, RunFacts!Front
<1>19. Run!Next => RunFacts!Next
  BY <1>3, <1>4, <1>5, <1>6, <1>7, <1>8, <1>9, <1>10, <1>11, <1>12, <1>13, <1>14, <1>15, <1>16, <1>17, <1>18, Zenon
  DEF Run!Next, RunFacts!Next, Run!program, RunFacts!program, Run!loop, RunFacts!loop,
      Run!Active, RunFacts!Active, Run!Pri, RunFacts!Pri
<1> QED
  BY <1>1, <1>2, <1>19

\* It has the inductive invariant, and with it the order of callbacks.
LEMMA RunOrder ==
    /\ Run!Init => RunFacts!IInv
    /\ RunFacts!IInv /\ Run!Next => RunFacts!IInv'
    /\ RunFacts!IInv /\ UNCHANGED <<runvars, pend, postfork, ops>> => RunFacts!IInv'
    /\ RunFacts!IInv => Run!HighestFirst /\ Run!IdleWhenIdle /\ Run!PollsWhenDone
<1>0. RunFacts!RunAssumption
  BY IterationAssumption, SameRun
<1>1. Run!Init => RunFacts!IInv
  BY <1>0, SameRun, RunFacts!RunInit
<1>2. RunFacts!IInv /\ Run!Next => RunFacts!IInv'
  BY <1>0, SameRun, RunFacts!RunStep
<1>3. RunFacts!IInv /\ UNCHANGED <<runvars, pend, postfork, ops>> => RunFacts!IInv'
  <2>1. UNCHANGED <<runvars, pend, postfork, ops>> => UNCHANGED RunFacts!vars
    BY DEF runvars, RunFacts!vars
  <2> QED
    BY <1>0, <2>1, RunFacts!RunStep
<1>4. RunFacts!IInv => RunFacts!HighestFirst /\ RunFacts!IdleWhenIdle /\ RunFacts!PollsWhenDone
  BY <1>0, RunFacts!OrderStep
<1>5. RunFacts!HighestFirst => Run!HighestFirst
  BY Zenon
  DEF Run!HighestFirst, RunFacts!HighestFirst, Run!ev_invoke_pending,
      RunFacts!ev_invoke_pending, Run!AtInvoke, RunFacts!AtInvoke, Run!Lower,
      RunFacts!Lower, Run!Highest, RunFacts!Highest, Run!Front, RunFacts!Front,
      Run!Last, RunFacts!Last, Run!Pri, RunFacts!Pri, Run!top, RunFacts!top,
      Run!Invokes, RunFacts!Invokes
<1>6. RunFacts!IdleWhenIdle => Run!IdleWhenIdle
  BY Zenon
  DEF Run!IdleWhenIdle, RunFacts!IdleWhenIdle, Run!run_poll, RunFacts!run_poll, Run!At,
      RunFacts!At, Run!top, RunFacts!top, Run!Last, RunFacts!Last, Run!becomes,
      RunFacts!becomes, Run!invokes, RunFacts!invokes, Run!rest, RunFacts!rest,
      Run!queue_events, RunFacts!queue_events, Run!feed, RunFacts!feed, Run!Contains,
      RunFacts!Contains, Run!idle_reify, RunFacts!idle_reify, Run!Pri, RunFacts!Pri,
      Run!ToSet, RunFacts!ToSet, Run!SetToSeq, RunFacts!SetToSeq, Run!IsInjective,
      RunFacts!IsInjective, Run!Cardinality, RunFacts!Cardinality, Run!Pending,
      RunFacts!Pending
<1>7. RunFacts!PollsWhenDone => Run!PollsWhenDone
  BY Zenon
  DEF Run!PollsWhenDone, RunFacts!PollsWhenDone, Run!run_poll, RunFacts!run_poll,
      Run!At, RunFacts!At, Run!top, RunFacts!top, Run!Last, RunFacts!Last, Run!becomes,
      RunFacts!becomes, Run!invokes, RunFacts!invokes, Run!rest, RunFacts!rest,
      Run!queue_events, RunFacts!queue_events, Run!feed, RunFacts!feed, Run!Contains,
      RunFacts!Contains, Run!idle_reify, RunFacts!idle_reify, Run!Pri, RunFacts!Pri,
      Run!ToSet, RunFacts!ToSet, Run!SetToSeq, RunFacts!SetToSeq, Run!IsInjective,
      RunFacts!IsInjective, Run!Cardinality, RunFacts!Cardinality
<1> QED
  BY <1>1, <1>2, <1>3, <1>4, <1>5, <1>6, <1>7

\* EvRun with fork watchers is the same in both modules.
LEMMA SameFork ==
    /\ Fork!RunAssumption => ForkFacts!RunAssumption
    /\ Fork!Init => ForkFacts!Init
    /\ Fork!Next => ForkFacts!Next
<1>1. Fork!RunAssumption => ForkFacts!RunAssumption
  BY Zenon DEF Fork!RunAssumption, ForkFacts!RunAssumption, Fork!IsFiniteSet,
               ForkFacts!IsFiniteSet
<1>2. Fork!Init => ForkFacts!Init
  BY Zenon DEF Fork!Init, ForkFacts!Init, Fork!Pri, ForkFacts!Pri, Fork!Arrays,
               ForkFacts!Arrays
<1>3. ASSUME NEW w, Fork!stop(w)
      PROVE  ForkFacts!stop(w)
  BY <1>3, Zenon
  DEF Fork!stop, ForkFacts!stop, Fork!stop_active, ForkFacts!stop_active,
      Fork!clear_pending, ForkFacts!clear_pending, Fork!Op, ForkFacts!Op, Fork!Program,
      ForkFacts!Program, Fork!Pending, ForkFacts!Pending, Fork!Active, ForkFacts!Active,
      Fork!Array, ForkFacts!Array, Fork!Pri, ForkFacts!Pri, Fork!Contains,
      ForkFacts!Contains, Fork!Last, ForkFacts!Last
<1>4. ASSUME NEW w, NEW kind, NEW pri, Fork!start(w, kind, pri)
      PROVE  ForkFacts!start(w, kind, pri)
  BY <1>4, Zenon
  DEF Fork!start, ForkFacts!start, Fork!Op, ForkFacts!Op, Fork!Program,
      ForkFacts!Program, Fork!Pending, ForkFacts!Pending, Fork!Active, ForkFacts!Active,
      Fork!Pri, ForkFacts!Pri, Fork!Contains, ForkFacts!Contains, Fork!Last,
      ForkFacts!Last
<1>5. ASSUME NEW w, Fork!ev_feed_event(w)
      PROVE  ForkFacts!ev_feed_event(w)
  BY <1>5, Zenon
  DEF Fork!ev_feed_event, ForkFacts!ev_feed_event, Fork!feed, ForkFacts!feed, Fork!Op,
      ForkFacts!Op, Fork!Program, ForkFacts!Program, Fork!Contains, ForkFacts!Contains,
      Fork!Last, ForkFacts!Last
<1>6. ASSUME NEW w, Fork!ev_clear_pending(w)
      PROVE  ForkFacts!ev_clear_pending(w)
  BY <1>6, Zenon
  DEF Fork!ev_clear_pending, ForkFacts!ev_clear_pending, Fork!clear_pending,
      ForkFacts!clear_pending, Fork!Op, ForkFacts!Op, Fork!Program, ForkFacts!Program,
      Fork!Pending, ForkFacts!Pending, Fork!Pri, ForkFacts!Pri, Fork!Contains,
      ForkFacts!Contains, Fork!Last, ForkFacts!Last
<1>7. ASSUME NEW n, Fork!ev_ref(n)
      PROVE  ForkFacts!ev_ref(n)
  BY <1>7, Zenon
  DEF Fork!ev_ref, ForkFacts!ev_ref, Fork!Op, ForkFacts!Op, Fork!Program,
      ForkFacts!Program, Fork!Last, ForkFacts!Last
<1>8. ASSUME NEW how, Fork!ev_break(how)
      PROVE  ForkFacts!ev_break(how)
  BY <1>8, Zenon
  DEF Fork!ev_break, ForkFacts!ev_break, Fork!Op, ForkFacts!Op, Fork!Program,
      ForkFacts!Program, Fork!Last, ForkFacts!Last
<1>9. ASSUME NEW flag, Fork!ev_run(flag)
      PROVE  ForkFacts!ev_run(flag)
  BY <1>9, Zenon
  DEF Fork!ev_run, ForkFacts!ev_run, Fork!Op, ForkFacts!Op, Fork!Program,
      ForkFacts!Program, Fork!Last, ForkFacts!Last
<1>10. Fork!ev_loop_fork => ForkFacts!ev_loop_fork
  BY Zenon
  DEF Fork!ev_loop_fork, ForkFacts!ev_loop_fork, Fork!ToSet, ForkFacts!ToSet, Fork!Op,
      ForkFacts!Op, Fork!Program, ForkFacts!Program, Fork!Last, ForkFacts!Last
<1>11. Fork!ev_invoke_pending => ForkFacts!ev_invoke_pending
  BY Zenon
  DEF Fork!ev_invoke_pending, ForkFacts!ev_invoke_pending, Fork!AtInvoke,
      ForkFacts!AtInvoke, Fork!Lower, ForkFacts!Lower, Fork!Highest, ForkFacts!Highest,
      Fork!Front, ForkFacts!Front, Fork!Last, ForkFacts!Last, Fork!Pri, ForkFacts!Pri,
      Fork!top, ForkFacts!top, Fork!Invokes, ForkFacts!Invokes
<1>12. Fork!callback_returns => ForkFacts!callback_returns
  BY Zenon
  DEF Fork!callback_returns, ForkFacts!callback_returns, Fork!top, ForkFacts!top,
      Fork!Last, ForkFacts!Last
<1>13. Fork!invoked => ForkFacts!invoked
  BY Zenon
  DEF Fork!invoked, ForkFacts!invoked, Fork!AtInvoke, ForkFacts!AtInvoke, Fork!Lower,
      ForkFacts!Lower, Fork!becomes, ForkFacts!becomes, Fork!Invokes, ForkFacts!Invokes,
      Fork!top, ForkFacts!top, Fork!Last, ForkFacts!Last, Fork!Pri, ForkFacts!Pri
<1>14. Fork!run_fork => ForkFacts!run_fork
  BY Zenon
  DEF Fork!run_fork, ForkFacts!run_fork, Fork!At, ForkFacts!At, Fork!top, ForkFacts!top,
      Fork!Last, ForkFacts!Last, Fork!invokes, ForkFacts!invokes, Fork!rest,
      ForkFacts!rest, Fork!queue_events, ForkFacts!queue_events, Fork!feed,
      ForkFacts!feed, Fork!Contains, ForkFacts!Contains
<1>15. Fork!run_prepare => ForkFacts!run_prepare
  BY Zenon
  DEF Fork!run_prepare, ForkFacts!run_prepare, Fork!At, ForkFacts!At, Fork!top,
      ForkFacts!top, Fork!Last, ForkFacts!Last, Fork!invokes, ForkFacts!invokes,
      Fork!rest, ForkFacts!rest, Fork!queue_events, ForkFacts!queue_events, Fork!feed,
      ForkFacts!feed, Fork!Contains, ForkFacts!Contains
<1>16. Fork!run_poll => ForkFacts!run_poll
  BY Zenon
  DEF Fork!run_poll, ForkFacts!run_poll, Fork!At, ForkFacts!At, Fork!top, ForkFacts!top,
      Fork!Last, ForkFacts!Last, Fork!becomes, ForkFacts!becomes, Fork!invokes,
      ForkFacts!invokes, Fork!rest, ForkFacts!rest, Fork!queue_events,
      ForkFacts!queue_events, Fork!feed, ForkFacts!feed, Fork!Contains,
      ForkFacts!Contains, Fork!idle_reify, ForkFacts!idle_reify, Fork!Pri,
      ForkFacts!Pri, Fork!ToSet, ForkFacts!ToSet, Fork!SetToSeq, ForkFacts!SetToSeq,
      Fork!IsInjective, ForkFacts!IsInjective, Fork!Cardinality, ForkFacts!Cardinality
<1>17. Fork!run_while => ForkFacts!run_while
  BY Zenon
  DEF Fork!run_while, ForkFacts!run_while, Fork!At, ForkFacts!At, Fork!top,
      ForkFacts!top, Fork!Last, ForkFacts!Last, Fork!becomes, ForkFacts!becomes,
      Fork!rest, ForkFacts!rest
<1>18. Fork!run_end => ForkFacts!run_end
  BY Zenon
  DEF Fork!run_end, ForkFacts!run_end, Fork!At, ForkFacts!At, Fork!top, ForkFacts!top,
      Fork!Last, ForkFacts!Last, Fork!Front, ForkFacts!Front
<1>19. Fork!Next => ForkFacts!Next
  BY <1>3, <1>4, <1>5, <1>6, <1>7, <1>8, <1>9, <1>10, <1>11, <1>12, <1>13, <1>14, <1>15, <1>16, <1>17, <1>18, Zenon
  DEF Fork!Next, ForkFacts!Next, Fork!program, ForkFacts!program, Fork!loop,
      ForkFacts!loop, Fork!Active, ForkFacts!Active, Fork!Pri, ForkFacts!Pri
<1> QED
  BY <1>1, <1>2, <1>19

\* It has the inductive invariant, and with it the order of callbacks.
LEMMA ForkOrder ==
    /\ Fork!Init => ForkFacts!IInv
    /\ ForkFacts!IInv /\ Fork!Next => ForkFacts!IInv'
    /\ ForkFacts!IInv /\ UNCHANGED <<runvars, pend, postfork, ops>> => ForkFacts!IInv'
    /\ ForkFacts!IInv => Fork!HighestFirst /\ Fork!PollsWhenDone /\ Fork!ForkBeforePoll
<1>0. ForkFacts!RunAssumption
  BY ForkAssumption, SameFork
<1>1. Fork!Init => ForkFacts!IInv
  BY <1>0, SameFork, ForkFacts!RunInit
<1>2. ForkFacts!IInv /\ Fork!Next => ForkFacts!IInv'
  BY <1>0, SameFork, ForkFacts!RunStep
<1>3. ForkFacts!IInv /\ UNCHANGED <<runvars, pend, postfork, ops>> => ForkFacts!IInv'
  <2>1. UNCHANGED <<runvars, pend, postfork, ops>> => UNCHANGED ForkFacts!vars
    BY DEF runvars, ForkFacts!vars
  <2> QED
    BY <1>0, <2>1, ForkFacts!RunStep
<1>4. ForkFacts!IInv => ForkFacts!HighestFirst /\ ForkFacts!PollsWhenDone /\ ForkFacts!ForkBeforePoll
  BY <1>0, ForkFacts!OrderStep, ForkFacts!ForkOrder
<1>5. ForkFacts!HighestFirst => Fork!HighestFirst
  BY Zenon
  DEF Fork!HighestFirst, ForkFacts!HighestFirst, Fork!ev_invoke_pending,
      ForkFacts!ev_invoke_pending, Fork!AtInvoke, ForkFacts!AtInvoke, Fork!Lower,
      ForkFacts!Lower, Fork!Highest, ForkFacts!Highest, Fork!Front, ForkFacts!Front,
      Fork!Last, ForkFacts!Last, Fork!Pri, ForkFacts!Pri, Fork!top, ForkFacts!top,
      Fork!Invokes, ForkFacts!Invokes
<1>6. ForkFacts!PollsWhenDone => Fork!PollsWhenDone
  BY Zenon
  DEF Fork!PollsWhenDone, ForkFacts!PollsWhenDone, Fork!run_poll, ForkFacts!run_poll,
      Fork!At, ForkFacts!At, Fork!top, ForkFacts!top, Fork!Last, ForkFacts!Last,
      Fork!becomes, ForkFacts!becomes, Fork!invokes, ForkFacts!invokes, Fork!rest,
      ForkFacts!rest, Fork!queue_events, ForkFacts!queue_events, Fork!feed,
      ForkFacts!feed, Fork!Contains, ForkFacts!Contains, Fork!idle_reify,
      ForkFacts!idle_reify, Fork!Pri, ForkFacts!Pri, Fork!ToSet, ForkFacts!ToSet,
      Fork!SetToSeq, ForkFacts!SetToSeq, Fork!IsInjective, ForkFacts!IsInjective,
      Fork!Cardinality, ForkFacts!Cardinality
<1>7. ForkFacts!ForkBeforePoll => Fork!ForkBeforePoll
  BY Zenon
  DEF Fork!ForkBeforePoll, ForkFacts!ForkBeforePoll, Fork!run_poll, ForkFacts!run_poll,
      Fork!At, ForkFacts!At, Fork!top, ForkFacts!top, Fork!Last, ForkFacts!Last,
      Fork!becomes, ForkFacts!becomes, Fork!invokes, ForkFacts!invokes, Fork!rest,
      ForkFacts!rest, Fork!queue_events, ForkFacts!queue_events, Fork!feed,
      ForkFacts!feed, Fork!Contains, ForkFacts!Contains, Fork!idle_reify,
      ForkFacts!idle_reify, Fork!Pri, ForkFacts!Pri, Fork!ToSet, ForkFacts!ToSet,
      Fork!SetToSeq, ForkFacts!SetToSeq, Fork!IsInjective, ForkFacts!IsInjective,
      Fork!Cardinality, ForkFacts!Cardinality
<1> QED
  BY <1>1, <1>2, <1>3, <1>4, <1>5, <1>6, <1>7

\* The parts that other modules are about have the types that the runs check.
LEMMA HandlerTypes == HandlerFacts!IInv => Handler!TypeOK
<1>1. HandlerFacts!IInv => HandlerFacts!TypeOK
  BY HandlerAssumption, SameHandler, HandlerFacts!SignalSafe
<1>2. HandlerFacts!TypeOK => Handler!TypeOK
  BY Zenon DEF Handler!TypeOK, HandlerFacts!TypeOK, Handler!Signal, HandlerFacts!Signal
<1> QED
  BY <1>1, <1>2

LEMMA ForkingTypes == ForkingFacts!IInv => Forking!TypeOK
<1>1. ForkingFacts!IInv => ForkingFacts!TypeOK
  BY ForkingAssumption, SameForking, ForkingFacts!SignalSafe
<1>2. ForkingFacts!TypeOK => Forking!TypeOK
  BY Zenon DEF Forking!TypeOK, ForkingFacts!TypeOK, Forking!Signal, ForkingFacts!Signal
<1> QED
  BY <1>1, <1>2

LEMMA SignalfdTypes == SignalfdFacts!IInv => Signalfd!TypeOK
<1>1. SignalfdFacts!IInv => SignalfdFacts!TypeOK
  BY SignalfdAssumption, SameSignalfd, SignalfdFacts!SignalSafe
<1>2. SignalfdFacts!TypeOK => Signalfd!TypeOK
  BY Zenon DEF Signalfd!TypeOK, SignalfdFacts!TypeOK, Signalfd!Signal, SignalfdFacts!Signal
<1> QED
  BY <1>1, <1>2

LEMMA RunTypes == RunFacts!IInv => Run!TypeOK /\ Run!ActiveCounted
<1>1. RunFacts!IInv => RunFacts!TypeOK /\ RunFacts!ActiveCounted
  BY RunFacts!RightTypes DEF RunFacts!IInv
<1>2. RunFacts!TypeOK => Run!TypeOK
  BY Zenon DEF Run!TypeOK, RunFacts!TypeOK, Run!Arrays, RunFacts!Arrays, Run!Array, RunFacts!Array,
               Run!Active, RunFacts!Active, Run!Contains, RunFacts!Contains, Run!Pri, RunFacts!Pri,
               Run!ToSet, RunFacts!ToSet
<1>3. RunFacts!ActiveCounted => Run!ActiveCounted
  BY Zenon DEF Run!ActiveCounted, RunFacts!ActiveCounted, Run!Active, RunFacts!Active,
               Run!Cardinality, RunFacts!Cardinality
<1> QED
  BY <1>1, <1>2, <1>3

LEMMA ForkTypes == ForkFacts!IInv => Fork!TypeOK /\ Fork!ActiveCounted
<1>1. ForkFacts!IInv => ForkFacts!TypeOK /\ ForkFacts!ActiveCounted
  BY ForkFacts!RightTypes DEF ForkFacts!IInv
<1>2. ForkFacts!TypeOK => Fork!TypeOK
  BY Zenon DEF Fork!TypeOK, ForkFacts!TypeOK, Fork!Arrays, ForkFacts!Arrays, Fork!Array, ForkFacts!Array,
               Fork!Active, ForkFacts!Active, Fork!Contains, ForkFacts!Contains, Fork!Pri, ForkFacts!Pri,
               Fork!ToSet, ForkFacts!ToSet
<1>3. ForkFacts!ActiveCounted => Fork!ActiveCounted
  BY Zenon DEF Fork!ActiveCounted, ForkFacts!ActiveCounted, Fork!Active, ForkFacts!Active,
               Fork!Cardinality, ForkFacts!Cardinality
<1> QED
  BY <1>1, <1>2, <1>3

-------------------------------------------------------------------------------
(* The parts together *)

\* The inductive invariant, part by part.
IInv ==
    /\ part = "handler" => HandlerFacts!IInv
    /\ part = "forking" => ForkingFacts!IInv
    /\ part = "signalfd" => SignalfdFacts!IInv
    /\ part = "run" => RunFacts!IInv
    /\ part = "fork" => ForkFacts!IInv
    /\ part = "stat" => StatInv

\* Every part starts in its invariant.
LEMMA PartsInit == Init => IInv
BY HandlerInv, ForkingInv, SignalfdInv, RunOrder, ForkOrder, StatInit DEF Init, IInv

\* A step is one of the part, which no step changes.
LEMMA PartsStep == IInv /\ [Next]_vars => IInv'
<1> SUFFICES ASSUME IInv, [Next]_vars
             PROVE  IInv'
  OBVIOUS
<1>1. UNCHANGED part
  BY DEF Next, vars, notsignals, notrun, notstat
<1>2. CASE part = "handler"
  <2>1. Handler!Next \/ UNCHANGED <<signalvars, pend, postfork, ops>>
    BY <1>2 DEF Next, vars
  <2> QED
    BY <1>1, <1>2, <2>1, HandlerInv DEF IInv
<1>3. CASE part = "forking"
  <2>1. Forking!Next \/ UNCHANGED <<signalvars, pend, postfork, ops>>
    BY <1>3 DEF Next, vars
  <2> QED
    BY <1>1, <1>3, <2>1, ForkingInv DEF IInv
<1>4. CASE part = "signalfd"
  <2>1. Signalfd!Next \/ UNCHANGED <<signalvars, pend, postfork, ops>>
    BY <1>4 DEF Next, vars
  <2> QED
    BY <1>1, <1>4, <2>1, SignalfdInv DEF IInv
<1>5. CASE part = "run"
  <2>1. Run!Next \/ UNCHANGED <<runvars, pend, postfork, ops>>
    BY <1>5 DEF Next, vars
  <2> QED
    BY <1>1, <1>5, <2>1, RunOrder DEF IInv
<1>6. CASE part = "fork"
  <2>1. Fork!Next \/ UNCHANGED <<runvars, pend, postfork, ops>>
    BY <1>6 DEF Next, vars
  <2> QED
    BY <1>1, <1>6, <2>1, ForkOrder DEF IInv
<1>7. CASE part = "stat"
  <2>1. Stat!Next \/ UNCHANGED statvars
    BY <1>7 DEF Next, vars
  <2>2. StatInv
    BY <1>7 DEF IInv
  <2>3. CASE Stat!Next
    BY <1>1, <1>7, <2>2, <2>3, StatNext DEF IInv
  <2>4. CASE UNCHANGED statvars
    BY <1>1, <1>7, <2>2, <2>4, StatSame DEF IInv
  <2> QED
    BY <2>1, <2>3, <2>4
<1>8. CASE part \notin {"handler", "forking", "signalfd", "run", "fork", "stat"}
  BY <1>1, <1>8 DEF IInv
<1> QED
  BY <1>2, <1>3, <1>4, <1>5, <1>6, <1>7, <1>8

\* evpipe_write and pipecb lose no wake-up, and ev_sighandler and pipecb no
\* signal, with handlers, with a signalfd and in the child of a fork, for any
\* number of signals, watchers, threads and operations.
THEOREM Nothing_Forgotten == Spec => []NothingForgotten
<1>1. IInv => NothingForgotten
  BY HandlerInv, ForkingInv, SignalfdInv DEF IInv, NothingForgotten
<1> QED
  BY <1>1, PartsInit, PartsStep, PTL DEF Spec

\* Callbacks run in the order of their priorities, idle watchers when nothing
\* else is to be done, fork watchers before the poll after a fork, and the loop
\* polls with nothing left to run, for any number of priorities, nested calls
\* of ev_run and operations.
THEOREM Runs_In_Order == Spec => RunsInOrder
<1>1. ASSUME IInv, [Next]_vars
      PROVE  [/\ part = "run" => Run!HighestFirst /\ Run!IdleWhenIdle /\ Run!PollsWhenDone
              /\ part = "fork" => Fork!HighestFirst /\ Fork!PollsWhenDone /\ Fork!ForkBeforePoll]_vars
  BY <1>1, RunOrder, ForkOrder DEF IInv
<1> QED
  BY <1>1, PartsInit, PartsStep, PTL DEF Spec, RunsInOrder

\* The parts keep their types: each watcher is where its fields say, in its
\* array or hash, and what keeps the loop alive is counted right, for any number
\* of watchers of an array, signals, files and operations.
THEOREM Types == Spec => []TypeOK
<1>1. IInv => TypeOK
  BY HandlerTypes, ForkingTypes, SignalfdTypes, RunTypes, ForkTypes, StatTypes DEF IInv, TypeOK
<1> QED
  BY <1>1, PartsInit, PartsStep, PTL DEF Spec

\* No change of a file is missed between inotify, the timers and the loop: the
\* events of the queue, in any order of reads, forks and callbacks, or the timer
\* of the watcher lead it to what it has not seen.
THEOREM None_Missed == Spec => []NoneMissed
<1>1. IInv => NoneMissed
  BY StatTypes DEF IInv, NoneMissed
<1> QED
  BY <1>1, PartsInit, PartsStep, PTL DEF Spec
===============================================================================
