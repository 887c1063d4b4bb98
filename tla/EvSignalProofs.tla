---------------------------- MODULE EvSignalProofs ----------------------------
(***************************************************************************)
(* Theorems about EvSignal, for any number of signals, watchers, threads   *)
(* and operations, with handlers or a signalfd, and with a callback that   *)
(* forks: no wake-up and no signal is lost between the memory accesses of  *)
(* the loop and those of the handlers.                                     *)
(***************************************************************************)
EXTENDS EvSignal, ListLemmas

-------------------------------------------------------------------------------
(* The inductive invariant *)

SigRecord == [pending : BOOLEAN, head : SUBSET Watcher,
              handler : BOOLEAN, masked : BOOLEAN]
Channel == [sig_pending : BOOLEAN, async_pending : BOOLEAN, sent : BOOLEAN, skipped : BOOLEAN,
            wanted : BOOLEAN, readable : BOOLEAN, got : BOOLEAN]
Place == [at : {"idle", "pending", "flag", "skip", "wanted", "unskip", "write"},
          sig : 0 .. NSig]

\* The flags of the channel, where each thread is, and what is pending.
TypeInv ==
    /\ sig \in [Signal -> SigRecord]
    /\ ch \in Channel
    /\ pc \in [Thread -> Place]
    /\ pend \in SUBSET (Watcher \cup {"pipe", "sigfd", "async"})
    /\ todo \in SUBSET Signal /\ kernel \in SUBSET Signal
    /\ owed \in SUBSET Watcher /\ postfork \in BOOLEAN /\ ops \in Nat

\* Where the loop is says what it has announced and what it has left to do.
LoopInv ==
    /\ lp \in {"check", "look", "poll", "unwant"} => ch.wanted
    /\ postfork => lp \in {"user", "read", "unskip", "signals", "scan", "feed", "asyncs", "sent"}
    /\ lp = "feed" => todo # {}
    /\ todo # {} => lp \in {"scan", "feed"}

\* A handler has a signal while it feeds it.
HandlerInv == \A t \in Thread : pc[t].at \in {"pending"} => pc[t].sig \in Signal

\* A watcher has one signal, and whoever is owed a signal waits for it.
HeadInv ==
    /\ \A r, s \in Signal : r # s => sig[r].head \cap sig[s].head = {}
    /\ \A w \in owed : Active(w)

At(where) == \E t \in Thread : pc[t].at \in where

\* Somebody will tell the loop to look at the flags: pipecb is pending, or will
\* be when the loop polls or looks at skipped; or a thread has still to say so;
\* or there was a fork.
Covered == "pipe" \in pend \/ ch.readable \/ ch.skipped \/ postfork \/ At({"skip", "unskip", "write"})

\* No flag is up without that, unless pipecb is on the way to it.
FlagInv ==
    /\ ch.sig_pending => Covered \/ lp \in {"read", "unskip", "signals"}
    /\ ch.async_pending => Covered \/ lp \in {"read", "unskip", "signals", "scan", "feed", "asyncs"}

\* While the loop polls the thread that was told to skip will find this out.
SkipInv == ch.skipped /\ lp = "poll" => At({"wanted", "unskip"})

\* A signal that came is on its way to the watcher.
Carried(s, where) == \E t \in Thread : pc[t].sig = s /\ pc[t].at \in where
Flagged(s) == sig[s].pending /\ (ch.sig_pending \/ s \in todo \/ Carried(s, {"flag"}))
WayInv ==
    \A s \in Signal : \A w \in owed \cap sig[s].head :
        w \in pend \/ s \in kernel \/ Carried(s, {"pending"}) \/ Flagged(s)

IInv ==
    /\ TypeInv /\ LoopInv /\ HandlerInv /\ HeadInv /\ FlagInv /\ SkipInv /\ WayInv

-------------------------------------------------------------------------------
(* Facts about the operators of the model *)

\* pipecb goes through the signals from the highest down.
LEMMA MaxSignal ==
    ASSUME SignalAssumption, NEW S \in SUBSET Signal, S # {}
    PROVE  Max(S) \in S
<1>1. NSig \in Nat
  BY DEF SignalAssumption
<1> DEFINE far == {NSig - s : s \in S}
<1>2. far \in SUBSET Nat /\ far # {}
  BY <1>1 DEF Signal
<1>3. PICK m \in far : \A n \in far : m <= n
  BY <1>2, LeastNat
<1>4. PICK s \in S : m = NSig - s
  BY <1>3
<1>5. \A r \in S : s >= r
  BY <1>1, <1>3, <1>4 DEF Signal
<1> QED
  BY <1>4, <1>5, Zenon DEF Max

\* Setting a flag of a channel gives a channel and leaves the other flags.
LEMMA SetFlag ==
    ASSUME NEW c \in Channel, NEW b \in BOOLEAN
    PROVE  /\ [c EXCEPT !.sig_pending = b] \in Channel
           /\ [c EXCEPT !.async_pending = b] \in Channel
           /\ [c EXCEPT !.sent = b] \in Channel
           /\ [c EXCEPT !.skipped = b] \in Channel
           /\ [c EXCEPT !.wanted = b] \in Channel
           /\ [c EXCEPT !.readable = b] \in Channel
           /\ [c EXCEPT !.got = b] \in Channel
BY Zenon DEF Channel
\* g is f after ev_signal_start or ev_signal_stop on signal s.
Changed(f, g, s, h) ==
    /\ g \in [Signal -> SigRecord]
    /\ g[s].head = h /\ g[s].pending = f[s].pending
    /\ \A r \in Signal \ {s} : g[r] = f[r]

\* ev_signal_start and ev_signal_stop set three fields of one signal.
LEMMA SetSignal ==
    ASSUME NEW f \in [Signal -> SigRecord], NEW s \in Signal,
           NEW h \in SUBSET Watcher, NEW b \in BOOLEAN, NEW m \in BOOLEAN
    PROVE  Changed(f, [f EXCEPT ![s].head = h, ![s].handler = b, ![s].masked = m], s, h)
<1> DEFINE p == [f[s] EXCEPT !.head = h, !.handler = b, !.masked = m]
<1>1. f[s] \in SigRecord
  OBVIOUS
<1>2. p \in SigRecord
  BY <1>1, Zenon DEF SigRecord
<1>3. p.head = h /\ p.pending = f[s].pending
  BY <1>1 DEF SigRecord
<1>4. [f EXCEPT ![s].head = h, ![s].handler = b, ![s].masked = m] = [f EXCEPT ![s] = p]
  OBVIOUS
<1> HIDE DEF p
<1>5. Changed(f, [f EXCEPT ![s] = p], s, h)
  BY <1>2, <1>3 DEF Changed
<1> QED
  BY <1>4, <1>5, Zenon

\* ev_signal_start adds a watcher to its signal.
LEMMA StartEffect ==
    ASSUME sig \in [Signal -> SigRecord], NEW s \in Signal, NEW w \in Watcher, SignalAssumption, ev_signal_start(w, s)
    PROVE  Changed(sig, sig', s, sig[s].head \cup {w})
<1>1. sig[s].head \cup {w} \in SUBSET Watcher /\ (sig[s].handler \/ ~use_signalfd) \in BOOLEAN
      /\ use_signalfd \in BOOLEAN
  BY DEF SigRecord, SignalAssumption
<1> QED
  BY <1>1, SetSignal, Zenon DEF ev_signal_start

\* ev_signal_stop takes it away.
LEMMA StopEffect ==
    ASSUME sig \in [Signal -> SigRecord], NEW w \in Watcher, ev_signal_stop(w)
    PROVE  /\ signum(w) \in Signal /\ w \in sig[signum(w)].head
           /\ Changed(sig, sig', signum(w), sig[signum(w)].head \ {w})
<1> DEFINE s == signum(w)  none == sig[s].head = {w}
<1>1. s \in Signal /\ w \in sig[s].head
  BY DEF ev_signal_stop, signum, Active
<1>2. sig[s].head \ {w} \in SUBSET Watcher
      /\ (sig[s].handler /\ ~none) \in BOOLEAN /\ (sig[s].masked /\ ~none) \in BOOLEAN
  BY <1>1 DEF SigRecord
<1>3. sig' = [sig EXCEPT ![s].head = @ \ {w},
                                 ![s].handler = @ /\ ~none, ![s].masked = @ /\ ~none]
  BY Zenon DEF ev_signal_stop
<1> QED
  BY <1>1, <1>2, <1>3, SetSignal, Zenon

\* ev_feed_signal and pipecb set the pending flag of one signal.
LEMMA SetPending ==
    ASSUME NEW f \in [Signal -> SigRecord], NEW s \in Signal, NEW b \in BOOLEAN
    PROVE  LET g == [f EXCEPT ![s].pending = b]
           IN  /\ g \in [Signal -> SigRecord]
               /\ \A r \in Signal : g[r].head = f[r].head
               /\ g[s].pending = b /\ \A r \in Signal \ {s} : g[r] = f[r]
<1> DEFINE p == [f[s] EXCEPT !.pending = b]
<1>1. f[s] \in SigRecord
  OBVIOUS
<1>2. p \in SigRecord /\ p.pending = b /\ p.head = f[s].head
  BY <1>1 DEF SigRecord
<1>3. [f EXCEPT ![s].pending = b] = [f EXCEPT ![s] = p]
  OBVIOUS
<1> HIDE DEF p
<1> QED
  BY <1>2, <1>3

\* Thread t is at a place now, with signal s, and the others are where they were.
Moves(t, at, s) ==
    /\ pc' \in [Thread -> Place]
    /\ pc'[t].at = at /\ pc'[t].sig = s
    /\ \A u \in Thread \ {t} : pc'[u] = pc[u]

\* A thread goes on, begins to handle a signal, or returns.
LEMMA MovesOn ==
    ASSUME SignalAssumption, pc \in [Thread -> Place], NEW t \in Thread
    PROVE  /\ \A at \in {"idle", "pending", "flag", "skip", "wanted", "unskip", "write"} :
                goes(t, at) => Moves(t, at, pc[t].sig)
           /\ pc' = [pc EXCEPT ![t] = Idle] => Moves(t, "idle", 0)
           /\ \A s \in Signal : pc' = [pc EXCEPT ![t] = [at |-> "pending", sig |-> s]] => Moves(t, "pending", s)
<1>1. Idle \in Place /\ Idle.at = "idle" /\ Idle.sig = 0
  BY DEF SignalAssumption, Idle, Place
<1>2. \A s \in Signal : [at |-> "pending", sig |-> s] \in Place
  BY DEF Signal, Place
<1>3. ASSUME NEW at \in {"idle", "pending", "flag", "skip", "wanted", "unskip", "write"}, goes(t, at)
      PROVE  Moves(t, at, pc[t].sig)
  BY <1>3 DEF goes, Moves, Place
<1>4. ASSUME pc' = [pc EXCEPT ![t] = Idle]
      PROVE  Moves(t, "idle", 0)
  BY <1>1, <1>4 DEF Moves
<1>5. ASSUME NEW s \in Signal, pc' = [pc EXCEPT ![t] = [at |-> "pending", sig |-> s]]
      PROVE  Moves(t, "pending", s)
  BY <1>2, <1>5 DEF Moves
<1> QED
  BY <1>3, <1>4, <1>5, Zenon

\* Every step keeps the types.
LEMMA TypeStep ==
    ASSUME SignalAssumption, TypeInv, LoopInv, HandlerInv, Next
    PROVE  TypeInv'
<1>0. /\ sig \in [Signal -> SigRecord] /\ ch \in Channel /\ pc \in [Thread -> Place]
      /\ pend \in SUBSET (Watcher \cup {"pipe", "sigfd", "async"})
      /\ todo \in SUBSET Signal /\ kernel \in SUBSET Signal
      /\ owed \in SUBSET Watcher /\ postfork \in BOOLEAN /\ ops \in Nat
  BY DEF TypeInv
<1>1. /\ Idle \in Place /\ Signal \subseteq 0 .. NSig /\ Signal \subseteq Int
      /\ \A s \in Signal : sig[s].head \subseteq Watcher
  BY <1>0 DEF SignalAssumption, Idle, Place, Signal, SigRecord
<1>2. \A t \in Thread : \A at \in {"idle", "pending", "flag", "skip", "wanted", "unskip", "write"} :
        goes(t, at) => pc' \in [Thread -> Place]
  BY <1>0, MovesOn DEF Moves
<1>3. ch.sig_pending \in BOOLEAN /\ ch.async_pending \in BOOLEAN /\ ch.sent \in BOOLEAN
      /\ ch.skipped \in BOOLEAN /\ ch.wanted \in BOOLEAN /\ ch.readable \in BOOLEAN /\ ch.got \in BOOLEAN
  BY <1>0 DEF Channel
<1> DEFINE Types == /\ sig' \in [Signal -> SigRecord] /\ ch' \in Channel /\ pc' \in [Thread -> Place]
                    /\ pend' \in SUBSET (Watcher \cup {"pipe", "sigfd", "async"})
                    /\ todo' \in SUBSET Signal /\ kernel' \in SUBSET Signal
                    /\ owed' \in SUBSET Watcher /\ postfork' \in BOOLEAN /\ ops' \in Nat
<1> SUFFICES Types
  BY DEF TypeInv
<1>8. Op => ops' \in Nat
  BY <1>0 DEF Op
<1>4. CASE program
  <2>1. ASSUME NEW s \in Signal, NEW t \in Thread, raise(s, t)
        PROVE  Types
    <3>1. [at |-> "pending", sig |-> s] \in Place
      BY <1>1 DEF Place
    <3> QED
      BY <1>0, <1>1, <1>8, <2>1, <3>1, Zenon DEF raise
  <2>2. ASSUME NEW t \in Thread, ev_async_send(t)
        PROVE  Types
    BY <1>0, <1>2, <1>8, <2>2, SetFlag DEF ev_async_send
  <2>3. ASSUME NEW w \in Watcher, ev_signal_stop(w)
        PROVE  Types
    <3>2. sig' \in [Signal -> SigRecord]
      BY <1>0, <2>3, StopEffect DEF Changed
    <3> QED
      BY <1>0, <1>8, <2>3, <3>2 DEF ev_signal_stop
  <2>4. ASSUME NEW w \in Watcher, NEW s \in Signal, ev_signal_start(w, s)
        PROVE  Types
    <3>1. sig' \in [Signal -> SigRecord]
      BY <1>0, <2>4, StartEffect DEF Changed
    <3> QED
      BY <1>0, <1>8, <2>4, <3>1 DEF ev_signal_start
  <2>5. CASE fork
    BY <1>0, <1>1, <1>8, <2>5 DEF fork
  <2> QED
    BY <1>4, <2>1, <2>2, <2>3, <2>4, <2>5 DEF program
<1>5. ASSUME NEW t \in Thread, writer(t)
      PROVE  Types
  <2>0. pc[t].at # "idle" /\ pc[t].sig \in 0 .. NSig
    BY <1>0, <1>5 DEF Place, writer, ev_feed_signal, evpipe_write_flag, evpipe_write_skip,
                      evpipe_write_wanted, evpipe_write_unskip, evpipe_write
  <2>2. CASE ev_feed_signal(t)
    <3>1. pc[t].sig \in Signal
      BY <2>2 DEF ev_feed_signal, HandlerInv
    <3>2. sig' = [sig EXCEPT ![pc[t].sig].pending = TRUE]
      BY <2>2 DEF ev_feed_signal
    <3>3. sig' \in [Signal -> SigRecord]
      <4>1. sig \in [Signal -> SigRecord] /\ TRUE \in BOOLEAN
        BY <1>0
      <4> QED
        BY <3>1, <3>2, <4>1, SetPending, Zenon
    <3> QED
      BY <1>0, <1>2, <2>2, <3>3 DEF ev_feed_signal
  <2>3. CASE evpipe_write_flag(t)
    <3>1. ch' \in Channel
      BY <1>0, <2>3, SetFlag DEF evpipe_write_flag, Flag
    <3> QED
      BY <1>0, <1>1, <1>2, <2>3, <3>1 DEF evpipe_write_flag, writing
  <2>4. CASE evpipe_write_skip(t)
    BY <1>0, <1>2, <2>4, SetFlag DEF evpipe_write_skip, writing
  <2>5. CASE evpipe_write_wanted(t)
    BY <1>0, <1>1, <1>2, <2>5 DEF evpipe_write_wanted, writing
  <2>6. CASE evpipe_write_unskip(t)
    BY <1>0, <1>2, <2>6, SetFlag DEF evpipe_write_unskip, writing
  <2>7. CASE evpipe_write(t)
    BY <1>0, <1>1, <2>7, SetFlag DEF evpipe_write, writing
  <2> QED
    BY <1>5, <2>2, <2>3, <2>4, <2>5, <2>6, <2>7 DEF writer
<1>6. CASE loop
  <2>1. CASE want
    BY <1>0, <2>1, SetFlag DEF want, loop_fork, looping
  <2>2. CASE check \/ poll_other \/ skipped \/ pipecb_scan
    BY <1>0, <2>2 DEF check, poll_other, skipped, pipecb_scan, looping
  <2>3. CASE poll
    BY <1>0, <1>3, <2>3, SetFlag DEF poll, Readable, looping
  <2>4. CASE unwant \/ pipecb_unskip \/ pipecb_asyncs
    BY <1>0, <2>4, SetFlag DEF unwant, pipecb_unskip, pipecb_asyncs, looping
  <2>5. ASSUME NEW w \in pend, invoke(w)
        PROVE  Types
    <3>1. sigfdcb \subseteq Watcher
      BY <1>0, <1>1 DEF sigfdcb
    <3> QED
      BY <1>0, <2>5, <3>1 DEF invoke
  <2>6. CASE pipecb_read
    <3>1. ch' \in Channel
      BY <1>0, <1>3, <2>6, SetFlag DEF pipecb_read
    <3> QED
      BY <1>0, <2>6, <3>1 DEF pipecb_read, looping
  <2>7. CASE pipecb_signals
    BY <1>0, <2>7, SetFlag DEF pipecb_signals, looping
  <2>8. CASE ev_feed_signal_event
    <3>1. Max(todo) \in Signal
      BY <1>0, <2>8, MaxSignal DEF ev_feed_signal_event, LoopInv
    <3>2. sig' = sig \/ sig' = [sig EXCEPT ![Max(todo)].pending = FALSE]
      BY <2>8, Zenon DEF ev_feed_signal_event
    <3>3. sig' \in [Signal -> SigRecord]
      <4>1. \A s \in Signal : [sig EXCEPT ![s].pending = FALSE] \in [Signal -> SigRecord]
        BY <1>0, SetPending
      <4> QED
        BY <1>0, <3>1, <3>2, <4>1, Zenon
    <3> QED
      BY <1>0, <1>1, <2>8, <3>1, <3>3 DEF ev_feed_signal_event
  <2>9. CASE pipecb_sent
    BY <1>0, <2>9, SetFlag DEF pipecb_sent, looping
  <2> QED
    BY <1>6, <2>1, <2>2, <2>3, <2>4, <2>5, <2>6, <2>7, <2>8, <2>9 DEF loop
<1>7. CASE poll_other
  BY <1>0, <1>7 DEF poll_other, looping
<1> QED
  BY <1>4, <1>5, <1>6, <1>7 DEF Next
\* What a move does to the places where threads are.
LEMMA MovesAt ==
    ASSUME NEW t \in Thread, NEW at, NEW s, NEW W, Moves(t, at, s)
    PROVE  /\ At(W) => At(W)' \/ pc[t].at \in W
           /\ at \in W => At(W)'
BY Zenon DEF At, Moves

\* A thread that writes keeps to its course.
LEMMA WriterMoves ==
    ASSUME SignalAssumption, TypeInv, NEW t \in Thread, writer(t)
    PROVE  \/ /\ pc[t].at = "pending" /\ Moves(t, "flag", pc[t].sig) /\ UNCHANGED ch
              /\ sig' = [sig EXCEPT ![pc[t].sig].pending = TRUE]
           \/ /\ pc[t].at = "flag" /\ ch[Flag(t)] /\ Moves(t, "idle", 0) /\ UNCHANGED <<sig, ch>>
           \/ /\ pc[t].at = "flag" /\ ~ch[Flag(t)] /\ Moves(t, "skip", pc[t].sig)
              /\ ch' = [ch EXCEPT ![Flag(t)] = TRUE] /\ UNCHANGED sig
           \/ /\ pc[t].at = "skip" /\ Moves(t, "wanted", pc[t].sig)
              /\ ch' = [ch EXCEPT !.skipped = TRUE] /\ UNCHANGED sig
           \/ /\ pc[t].at = "wanted" /\ UNCHANGED <<sig, ch>>
              /\ \/ ch.wanted /\ Moves(t, "unskip", pc[t].sig)
                 \/ ~ch.wanted /\ Moves(t, "idle", 0)
           \/ /\ pc[t].at = "unskip" /\ Moves(t, "write", pc[t].sig)
              /\ ch' = [ch EXCEPT !.skipped = FALSE] /\ UNCHANGED sig
           \/ /\ pc[t].at = "write" /\ Moves(t, "idle", 0)
              /\ ch' = [ch EXCEPT !.readable = TRUE] /\ UNCHANGED sig
<1>0. pc \in [Thread -> Place]
  BY DEF TypeInv
<1>2. CASE ev_feed_signal(t)
  BY <1>0, <1>2, MovesOn DEF ev_feed_signal
<1>3. CASE evpipe_write_flag(t)
  BY <1>0, <1>3, MovesOn DEF evpipe_write_flag, writing
<1>4. CASE evpipe_write_skip(t)
  BY <1>0, <1>4, MovesOn DEF evpipe_write_skip, writing
<1>5. CASE evpipe_write_wanted(t)
  BY <1>0, <1>5, MovesOn DEF evpipe_write_wanted, writing
<1>6. CASE evpipe_write_unskip(t)
  BY <1>0, <1>6, MovesOn DEF evpipe_write_unskip, writing
<1>7. CASE evpipe_write(t)
  BY <1>0, <1>7, MovesOn DEF evpipe_write, writing
<1> QED
  BY <1>2, <1>3, <1>4, <1>5, <1>6, <1>7, Zenon DEF writer

\* What a thread that writes leaves alone.
LEMMA WriterFrame ==
    ASSUME NEW t \in Thread, writer(t)
    PROVE  UNCHANGED <<lp, todo, pend, kernel, owed, postfork, ops>>
BY DEF writer, writing, ev_feed_signal, evpipe_write_flag, evpipe_write_skip,
       evpipe_write_wanted, evpipe_write_unskip, evpipe_write

\* What the loop leaves alone.
LEMMA LoopFrame ==
    ASSUME loop \/ poll_other
    PROVE  UNCHANGED pc
BY DEF loop, looping, want, check, poll, poll_other, unwant, skipped, invoke, pipecb_read,
       pipecb_unskip, pipecb_signals, pipecb_scan, ev_feed_signal_event, pipecb_asyncs, pipecb_sent

\* No step forgets a flag, or lets the loop sleep on a write that was skipped.
LEMMA FlagStep ==
    ASSUME SignalAssumption, TypeInv, LoopInv, FlagInv, SkipInv, Next
    PROVE  FlagInv' /\ SkipInv'
<1> DEFINE Late == {"skip", "unskip", "write"}
<1>0. /\ pc \in [Thread -> Place] /\ ch \in Channel
      /\ ch.sig_pending => Covered \/ lp \in {"read", "unskip", "signals"}
      /\ ch.async_pending => Covered \/ lp \in {"read", "unskip", "signals", "scan", "feed", "asyncs"}
      /\ ch.skipped /\ lp = "poll" => At({"wanted", "unskip"})
      /\ lp \in {"check", "look", "poll", "unwant"} => ch.wanted
      /\ Covered <=> "pipe" \in pend \/ ch.readable \/ ch.skipped \/ postfork \/ At(Late)
  BY DEF TypeInv, FlagInv, SkipInv, LoopInv, Covered
<1> DEFINE Flags == /\ ch'.sig_pending => Covered' \/ lp' \in {"read", "unskip", "signals"}
                    /\ ch'.async_pending =>
                         Covered' \/ lp' \in {"read", "unskip", "signals", "scan", "feed", "asyncs"}
                    /\ ch'.skipped /\ lp' = "poll" => At({"wanted", "unskip"})'
<1> SUFFICES Flags
  BY DEF FlagInv, SkipInv
<1>c. Covered' <=> "pipe" \in pend' \/ ch'.readable \/ ch'.skipped \/ postfork' \/ At(Late)'
  BY Zenon DEF Covered
<1>p. pc' = pc => \A W : At(W)' <=> At(W)
  BY Zenon DEF At
<1>1. CASE program
  <2>1. ASSUME NEW s \in Signal, NEW t \in Thread, raise(s, t)
        PROVE  Flags
    <3>1. UNCHANGED <<ch, lp, pend, postfork>>
      BY <2>1 DEF raise
    <3>2. CASE UNCHANGED pc
      BY <1>0, <1>c, <1>p, <3>1, <3>2
    <3>3. CASE Moves(t, "pending", s) /\ pc[t] = Idle
      <4>1. pc[t].at \notin Late /\ pc[t].at \notin {"wanted", "unskip"}
        BY <3>3 DEF Idle
      <4>2. (At(Late) => At(Late)') /\ (At({"wanted", "unskip"}) => At({"wanted", "unskip"})')
        BY <3>3, <4>1, MovesAt
      <4> QED
        BY <1>0, <1>c, <3>1, <4>2
    <3> QED
      BY <1>0, <2>1, <3>2, <3>3, MovesOn DEF raise
  <2>2. ASSUME NEW t \in Thread, ev_async_send(t)
        PROVE  Flags
    <3>1. Moves(t, "flag", pc[t].sig) /\ pc[t].at = "idle" /\ UNCHANGED <<lp, pend, postfork>>
      BY <1>0, <2>2, MovesOn DEF ev_async_send, Idle
    <3>2. (At(Late) => At(Late)') /\ (At({"wanted", "unskip"}) => At({"wanted", "unskip"})')
      BY <3>1, MovesAt
    <3>3. /\ ch'.sig_pending = ch.sig_pending /\ ch'.async_pending = ch.async_pending
          /\ ch'.skipped = ch.skipped /\ ch'.readable = ch.readable
      BY <1>0, <2>2 DEF ev_async_send, Channel
    <3> QED
      BY <1>0, <1>c, <3>1, <3>2, <3>3
  <2>3. ASSUME NEW w \in Watcher, ev_signal_stop(w)
        PROVE  Flags
    <3>1. UNCHANGED <<ch, pc, lp, postfork>> /\ pend' = pend \ {w} /\ w # "pipe"
      BY <2>3 DEF ev_signal_stop, SignalAssumption
    <3> QED
      BY <1>0, <1>c, <1>p, <3>1
  <2>4. ASSUME NEW w \in Watcher, NEW s \in Signal, ev_signal_start(w, s)
        PROVE  Flags
    BY <1>0, <1>c, <1>p, <2>4 DEF ev_signal_start
  <2>5. CASE fork
    BY <1>c, <2>5 DEF fork
  <2> QED
    BY <1>1, <2>1, <2>2, <2>3, <2>4, <2>5 DEF program
<1>2. ASSUME NEW t \in Thread, writer(t)
      PROVE  Flags
  <2>0. UNCHANGED <<lp, pend, postfork>>
    BY <1>2, WriterFrame
  <2>1. ASSUME NEW at, NEW s, Moves(t, at, s), UNCHANGED ch, pc[t].at \in {"pending", "flag"}
        PROVE  Flags
    <3>1. (At(Late) => At(Late)') /\ (At({"wanted", "unskip"}) => At({"wanted", "unskip"})')
      BY <2>1, MovesAt
    <3> QED
      BY <1>0, <1>c, <2>0, <2>1, <3>1
  <2>2. CASE pc[t].at = "flag" /\ Moves(t, "skip", pc[t].sig) /\ ch' = [ch EXCEPT ![Flag(t)] = TRUE]
    <3>1. At(Late)' /\ (At({"wanted", "unskip"}) => At({"wanted", "unskip"})')
      BY <2>2, MovesAt
    <3>2. ch'.skipped = ch.skipped
      BY <1>0, <2>2 DEF Channel, Flag
    <3> QED
      BY <1>0, <1>c, <2>0, <3>1, <3>2
  <2>3. CASE pc[t].at = "skip" /\ Moves(t, "wanted", pc[t].sig) /\ ch' = [ch EXCEPT !.skipped = TRUE]
    <3>1. ch'.skipped /\ At({"wanted", "unskip"})'
      BY <1>0, <2>3, MovesAt DEF Channel
    <3> QED
      BY <1>c, <3>1
  <2>4. CASE pc[t].at = "wanted" /\ ch.wanted /\ Moves(t, "unskip", pc[t].sig) /\ UNCHANGED ch
    <3>1. At(Late)' /\ At({"wanted", "unskip"})'
      BY <2>4, MovesAt
    <3> QED
      BY <1>c, <3>1
  <2>5. CASE pc[t].at = "wanted" /\ ~ch.wanted /\ Moves(t, "idle", 0) /\ UNCHANGED ch
    <3>1. lp # "poll" /\ (At(Late) => At(Late)')
      BY <1>0, <2>5, MovesAt
    <3> QED
      BY <1>0, <1>c, <2>0, <2>5, <3>1
  <2>6. CASE pc[t].at = "unskip" /\ Moves(t, "write", pc[t].sig) /\ ch' = [ch EXCEPT !.skipped = FALSE]
    <3>1. At(Late)' /\ ~ch'.skipped
      BY <1>0, <2>6, MovesAt DEF Channel
    <3> QED
      BY <1>c, <3>1
  <2>7. CASE pc[t].at = "write" /\ Moves(t, "idle", 0) /\ ch' = [ch EXCEPT !.readable = TRUE]
    <3>1. ch'.readable /\ ch'.skipped = ch.skipped
      BY <1>0, <2>7 DEF Channel
    <3>2. At({"wanted", "unskip"}) => At({"wanted", "unskip"})'
      BY <2>7, MovesAt
    <3> QED
      BY <1>0, <1>c, <2>0, <3>1, <3>2
  <2> QED
    BY <1>2, <2>1, <2>2, <2>3, <2>4, <2>5, <2>6, <2>7, WriterMoves
<1>3. CASE loop \/ poll_other
  <2>0. (At(Late)' <=> At(Late)) /\ (At({"wanted", "unskip"})' <=> At({"wanted", "unskip"}))
    BY <1>3, <1>p, LoopFrame
  <2>1. CASE want
    <3>1. /\ ch'.sig_pending = ch.sig_pending /\ ch'.async_pending = ch.async_pending
          /\ ch'.skipped = ch.skipped
          /\ \/ postfork /\ "pipe" \in pend'
             \/ ~postfork /\ pend' = pend /\ ch'.readable = ch.readable
      <4>1. CASE postfork
        <5>1. /\ ch' = [ch EXCEPT !.readable = FALSE, !.wanted = TRUE]
              /\ "pipe" \in pend'
          BY <2>1, <4>1 DEF want, loop_fork
        <5>2. /\ ch'.sig_pending = ch.sig_pending /\ ch'.async_pending = ch.async_pending
              /\ ch'.skipped = ch.skipped
          BY <1>0, <5>1 DEF Channel
        <5> QED
          BY <4>1, <5>1, <5>2
      <4>2. CASE ~postfork
        BY <1>0, <2>1, <4>2 DEF want, Channel
      <4> QED
        BY <4>1, <4>2
    <3>2. lp = "user" /\ lp' = "check"
      BY <2>1 DEF want
    <3> QED
      BY <1>0, <1>c, <2>0, <3>1, <3>2
  <2>2. CASE check \/ poll_other \/ pipecb_scan
    BY <1>0, <1>c, <2>0, <2>2 DEF check, poll_other, pipecb_scan
  <2>3. CASE poll
    <3>1. /\ ch'.sig_pending = ch.sig_pending /\ ch'.async_pending = ch.async_pending
          /\ ch'.skipped = ch.skipped /\ ch'.readable = ch.readable
      BY <1>0, <2>3 DEF poll, Channel
    <3> QED
      BY <1>0, <1>c, <2>0, <2>3, <3>1 DEF poll
  <2>4. CASE unwant
    <3>1. /\ ch'.sig_pending = ch.sig_pending /\ ch'.async_pending = ch.async_pending
          /\ ch'.skipped = ch.skipped /\ ch'.readable = ch.readable
      BY <1>0, <2>4 DEF unwant, Channel
    <3> QED
      BY <1>0, <1>c, <2>0, <2>4, <3>1 DEF unwant
  <2>5. CASE skipped
    BY <1>0, <1>c, <2>0, <2>5 DEF skipped
  <2>6. ASSUME NEW w \in pend, invoke(w)
        PROVE  Flags
    <3>1. /\ UNCHANGED <<ch, postfork>> /\ lp = "user"
          /\ \/ w = "pipe" /\ lp' = "read"
             \/ w # "pipe" /\ ("pipe" \in pend => "pipe" \in pend') /\ lp' = "user"
      <4>1. CASE w = "pipe"
        <5>1. UNCHANGED <<ch, postfork>> /\ lp = "user"
          BY <2>6, Zenon DEF invoke
        <5>2. lp' = "read"
          BY <2>6, <4>1, Zenon DEF invoke
        <5> QED
          BY <4>1, <5>1, <5>2
      <4>2. CASE w # "pipe"
        BY <2>6, <4>2 DEF invoke
      <4> QED
        BY <4>1, <4>2
    <3> QED
      BY <1>0, <1>c, <2>0, <3>1
  <2>7. CASE pipecb_read
    BY <2>7 DEF pipecb_read
  <2>8. CASE pipecb_unskip
    BY <2>8 DEF pipecb_unskip
  <2>9. CASE pipecb_signals
    <3>1. ~ch'.sig_pending /\ lp' \in {"scan", "asyncs"}
      BY <1>0, <2>9 DEF pipecb_signals, Channel
    <3> QED
      BY <3>1
  <2>10. CASE ev_feed_signal_event
    <3>1. /\ UNCHANGED <<ch, postfork>> /\ lp = "feed" /\ lp' = "scan"
          /\ ("pipe" \in pend => "pipe" \in pend')
      BY <2>10 DEF ev_feed_signal_event
    <3> QED
      BY <1>0, <1>c, <2>0, <3>1
  <2>11. CASE pipecb_asyncs
    <3>1. /\ ch'.sig_pending = ch.sig_pending /\ ~ch'.async_pending
          /\ ch'.skipped = ch.skipped /\ ch'.readable = ch.readable
          /\ lp = "asyncs" /\ lp' \in {"sent", "user"} /\ UNCHANGED <<pend, postfork>>
      BY <1>0, <2>11 DEF pipecb_asyncs, Channel
    <3> QED
      BY <1>0, <1>c, <2>0, <3>1
  <2>12. CASE pipecb_sent
    <3>1. /\ ch'.sig_pending = ch.sig_pending /\ ch'.async_pending = ch.async_pending
          /\ ch'.skipped = ch.skipped /\ ch'.readable = ch.readable
          /\ lp = "sent" /\ lp' = "user" /\ UNCHANGED postfork
          /\ ("pipe" \in pend => "pipe" \in pend')
      BY <1>0, <2>12 DEF pipecb_sent, Channel
    <3> QED
      BY <1>0, <1>c, <2>0, <3>1
  <2> QED
    BY <1>3, <2>1, <2>2, <2>3, <2>4, <2>5, <2>6, <2>7, <2>8, <2>9, <2>10, <2>11, <2>12 DEF loop
<1> QED
  BY <1>1, <1>2, <1>3 DEF Next
\* Where the loop is goes with what it has announced and what it has left to do.
LEMMA LoopStep ==
    ASSUME SignalAssumption, TypeInv, LoopInv, Next
    PROVE  LoopInv'
<1>0. ch \in Channel
  BY DEF TypeInv
<1>1. CASE program
  <2>1. UNCHANGED <<lp, todo>> /\ ch'.wanted = ch.wanted /\ (UNCHANGED postfork \/ lp = "user")
    BY <1>0, <1>1 DEF program, raise, ev_async_send, ev_signal_start, ev_signal_stop, fork, Channel
  <2> QED
    BY <2>1 DEF LoopInv
<1>2. ASSUME NEW t \in Thread, writer(t)
      PROVE  LoopInv'
  <2>1. UNCHANGED <<lp, todo, postfork>>
    BY <1>2, WriterFrame
  <2>2. ch'.wanted = ch.wanted
    BY <1>0, <1>2, WriterMoves DEF Channel, Flag
  <2> QED
    BY <2>1, <2>2 DEF LoopInv
<1>3. CASE loop \/ poll_other
  <2>1. CASE want
    BY <1>0, <2>1 DEF want, loop_fork, LoopInv, Channel
  <2>2. CASE check \/ poll \/ poll_other
    BY <1>0, <2>2 DEF check, poll, poll_other, LoopInv, Channel
  <2>3. CASE unwant \/ skipped
    BY <2>3 DEF unwant, skipped, LoopInv
  <2>4. ASSUME NEW w \in pend, invoke(w)
        PROVE  LoopInv'
    BY <2>4 DEF invoke, LoopInv
  <2>5. CASE pipecb_read \/ pipecb_unskip \/ pipecb_signals
    BY <2>5 DEF pipecb_read, pipecb_unskip, pipecb_signals, LoopInv
  <2>6. CASE pipecb_scan
    BY <2>6 DEF pipecb_scan, LoopInv
  <2>7. CASE ev_feed_signal_event \/ pipecb_asyncs \/ pipecb_sent
    BY <2>7 DEF ev_feed_signal_event, pipecb_asyncs, pipecb_sent, LoopInv
  <2> QED
    BY <1>3, <2>1, <2>2, <2>3, <2>4, <2>5, <2>6, <2>7 DEF loop
<1> QED
  BY <1>1, <1>2, <1>3 DEF Next

\* A handler keeps its signal.
LEMMA HandlerStep ==
    ASSUME SignalAssumption, TypeInv, HandlerInv, Next
    PROVE  HandlerInv'
<1>0. pc \in [Thread -> Place] /\ \A t \in Thread : pc[t].at \in {"pending"} => pc[t].sig \in Signal
  BY DEF TypeInv, HandlerInv
<1>1. ASSUME NEW t \in Thread, NEW at, NEW s, Moves(t, at, s), at \in {"pending"} => s \in Signal
      PROVE  HandlerInv'
  BY <1>0, <1>1 DEF Moves, HandlerInv
<1>2. ASSUME UNCHANGED pc
      PROVE  HandlerInv'
  BY <1>2 DEF HandlerInv
<1>3. CASE program
  <2>1. ASSUME NEW s \in Signal, NEW t \in Thread, raise(s, t)
        PROVE  HandlerInv'
    BY <1>0, <1>1, <1>2, <2>1, MovesOn DEF raise
  <2>2. ASSUME NEW t \in Thread, ev_async_send(t)
        PROVE  HandlerInv'
    <3>1. Moves(t, "flag", pc[t].sig)
      BY <1>0, <2>2, MovesOn DEF ev_async_send
    <3> QED
      BY <1>1, <3>1
  <2>3. ASSUME NEW w \in Watcher, ev_signal_stop(w) \/ \E s \in Signal : ev_signal_start(w, s)
        PROVE  HandlerInv'
    BY <1>2, <2>3 DEF ev_signal_stop, ev_signal_start
  <2>4. CASE fork
    <3>1. \A t \in Thread : pc'[t].at = "idle"
      BY <2>4 DEF fork, Idle
    <3> QED
      BY <3>1 DEF HandlerInv
  <2> QED
    BY <1>3, <2>1, <2>2, <2>3, <2>4 DEF program
<1>4. ASSUME NEW t \in Thread, writer(t)
      PROVE  HandlerInv'
  <2>1. \E at \in {"idle", "flag", "skip", "wanted", "unskip", "write"} : \E s : Moves(t, at, s)
    BY <1>4, WriterMoves
  <2> QED
    BY <1>0, <1>1, <2>1
<1>5. CASE loop \/ poll_other
  BY <1>2, <1>5, LoopFrame
<1> QED
  BY <1>3, <1>4, <1>5 DEF Next

\* The lists of watchers that an action leaves alone.
SameHeads == \A s \in Signal : sig'[s].head = sig[s].head

\* Only starting and stopping a watcher changes them.
LEMMA HeadsKept ==
    ASSUME SignalAssumption, TypeInv, LoopInv, HandlerInv
    PROVE  /\ \A s \in Signal, t \in Thread : raise(s, t) => UNCHANGED sig
           /\ \A t \in Thread : ev_async_send(t) => UNCHANGED sig
           /\ \A t \in Thread : writer(t) => SameHeads
           /\ loop \/ poll_other => SameHeads
<1>0. sig \in [Signal -> SigRecord] /\ todo \in SUBSET Signal
  BY DEF TypeInv
<1>1. \A s \in Signal : \A b \in BOOLEAN : sig' = [sig EXCEPT ![s].pending = b] => SameHeads
  BY <1>0, SetPending DEF SameHeads
<1>2. UNCHANGED sig => SameHeads
  BY DEF SameHeads
<1>3. ASSUME NEW t \in Thread, writer(t)
      PROVE  SameHeads
  <2>1. \/ UNCHANGED sig
        \/ pc[t].at = "pending" /\ sig' = [sig EXCEPT ![pc[t].sig].pending = TRUE]
    BY <1>3, WriterMoves
  <2> QED
    BY <1>1, <1>2, <2>1 DEF HandlerInv
<1>4. ASSUME loop \/ poll_other
      PROVE  SameHeads
  <2>1. \/ UNCHANGED sig
        \/ lp = "feed" /\ sig' = [sig EXCEPT ![Max(todo)].pending = FALSE]
    BY <1>4 DEF loop, looping, want, check, poll, poll_other, unwant, skipped, invoke, pipecb_read,
                pipecb_unskip, pipecb_signals, pipecb_scan, ev_feed_signal_event, pipecb_asyncs,
                pipecb_sent
  <2>2. lp = "feed" => Max(todo) \in Signal
    BY <1>0, MaxSignal DEF LoopInv
  <2> QED
    BY <1>1, <1>2, <2>1, <2>2
<1> QED
  BY <1>3, <1>4 DEF raise, ev_async_send

\* Each watcher keeps to one signal.
LEMMA HeadStep ==
    ASSUME SignalAssumption, TypeInv, LoopInv, HandlerInv, HeadInv, Next
    PROVE  HeadInv'
<1>0. /\ \A r, s \in Signal : r # s => sig[r].head \cap sig[s].head = {}
      /\ \A w \in owed : \E s \in Signal : w \in sig[s].head
      /\ sig \in [Signal -> SigRecord] /\ owed \in SUBSET Watcher
  BY DEF HeadInv, TypeInv, Active
<1>1. ASSUME SameHeads, owed' \subseteq owed
      PROVE  HeadInv'
  BY <1>0, <1>1 DEF SameHeads, HeadInv, Active
<1>2. CASE program
  <2>1. ASSUME NEW s \in Signal, NEW t \in Thread, raise(s, t)
        PROVE  HeadInv'
    <3>1. UNCHANGED sig /\ owed' = owed \cup sig[s].head
      BY <2>1 DEF raise
    <3> QED
      BY <1>0, <3>1 DEF HeadInv, Active
  <2>2. ASSUME NEW t \in Thread, ev_async_send(t)
        PROVE  HeadInv'
    BY <1>1, <2>2 DEF ev_async_send, SameHeads
  <2>3. ASSUME NEW w \in Watcher, ev_signal_stop(w)
        PROVE  HeadInv'
    <3>1. PICK s \in Signal : w \in sig[s].head /\ Changed(sig, sig', s, sig[s].head \ {w})
      BY <1>0, <2>3, StopEffect
    <3>2. owed' = owed \ {w}
      BY <2>3 DEF ev_signal_stop
    <3>3. \A r \in Signal : sig'[r].head = sig[r].head \ {w}
      <4>1. /\ sig'[s].head = sig[s].head \ {w}
            /\ \A r \in Signal \ {s} : sig'[r] = sig[r] /\ w \notin sig[r].head
        BY <1>0, <3>1 DEF Changed
      <4> QED
        BY <1>0, <4>1
    <3> QED
      BY <1>0, <3>2, <3>3 DEF HeadInv, Active
  <2>4. ASSUME NEW w \in Watcher, NEW s \in Signal, ev_signal_start(w, s)
        PROVE  HeadInv'
    <3>1. Changed(sig, sig', s, sig[s].head \cup {w})
      BY <1>0, <2>4, StartEffect
    <3>2. UNCHANGED owed /\ \A r \in Signal : w \notin sig[r].head
      BY <2>4 DEF ev_signal_start, Active
    <3>3. \A r \in Signal : sig'[r].head = IF r = s THEN sig[r].head \cup {w} ELSE sig[r].head
      BY <1>0, <3>1 DEF Changed
    <3>4. ASSUME NEW q \in Signal, NEW r \in Signal, q # r, NEW v, v \in sig'[q].head, v \in sig'[r].head
          PROVE  FALSE
      <4>1. CASE v = w
        BY <3>2, <3>3, <3>4, <4>1
      <4>2. CASE v # w
        <5>1. v \in sig[q].head /\ v \in sig[r].head
          BY <3>3, <3>4, <4>2
        <5>2. sig[q].head \cap sig[r].head = {}
          BY <1>0, <3>4
        <5> QED
          BY <5>1, <5>2
      <4> QED
        BY <4>1, <4>2
    <3>5. \A v \in owed' : \E r \in Signal : v \in sig'[r].head
      BY <1>0, <3>2, <3>3
    <3> QED
      BY <3>3, <3>4, <3>5 DEF HeadInv, Active
  <2>5. CASE fork
    BY <1>1, <2>5 DEF fork, SameHeads
  <2> QED
    BY <1>2, <2>1, <2>2, <2>3, <2>4, <2>5 DEF program
<1>3. ASSUME NEW t \in Thread, writer(t)
      PROVE  HeadInv'
  BY <1>1, <1>3, WriterFrame, HeadsKept
<1>4. CASE loop \/ poll_other
  <2>1. owed' \subseteq owed
    BY <1>4 DEF loop, looping, want, check, poll, poll_other, unwant, skipped, invoke, pipecb_read,
                pipecb_unskip, pipecb_signals, pipecb_scan, ev_feed_signal_event, pipecb_asyncs,
                pipecb_sent
  <2> QED
    BY <1>1, <1>4, <2>1, HeadsKept
<1> QED
  BY <1>2, <1>3, <1>4 DEF Next
\* What a move does to the signals that threads carry.
LEMMA MovesCarried ==
    ASSUME NEW t \in Thread, NEW at, NEW x, NEW s, NEW W, Moves(t, at, x)
    PROVE  /\ Carried(s, W) => Carried(s, W)' \/ (pc[t].at \in W /\ pc[t].sig = s)
           /\ at \in W /\ x = s => Carried(s, W)'
BY Zenon DEF Carried, Moves

\* No step loses a signal on its way.
LEMMA WayStep ==
    ASSUME SignalAssumption, TypeInv, LoopInv, HandlerInv, HeadInv, WayInv, Next
    PROVE  WayInv'
<1>0. /\ sig \in [Signal -> SigRecord] /\ ch \in Channel /\ pc \in [Thread -> Place]
      /\ kernel \in SUBSET Signal /\ todo \in SUBSET Signal /\ owed \in SUBSET Watcher
      /\ pend \in SUBSET (Watcher \cup {"pipe", "sigfd", "async"})
  BY DEF TypeInv
<1>1. ASSUME NEW s \in Signal, NEW w, w \in owed, w \in sig[s].head
      PROVE  \/ w \in pend \/ s \in kernel \/ Carried(s, {"pending"})
             \/ sig[s].pending /\ (ch.sig_pending \/ s \in todo \/ Carried(s, {"flag"}))
  BY <1>1 DEF WayInv, Flagged
<1>2. ASSUME \A s \in Signal : \A w \in owed' \cap sig'[s].head :
                \/ w \in pend' \/ s \in kernel' \/ Carried(s, {"pending"})'
                \/ sig'[s].pending /\ (ch'.sig_pending \/ s \in todo' \/ Carried(s, {"flag"})')
      PROVE  WayInv'
  BY <1>2 DEF WayInv, Flagged
<1>3. UNCHANGED pc => \A s, W : Carried(s, W)' <=> Carried(s, W)
  BY Zenon DEF Carried
<1>4. CASE program
  <2>1. ASSUME NEW r \in Signal, NEW t \in Thread, raise(r, t)
        PROVE  WayInv'
    <3>1. UNCHANGED <<sig, ch, todo, pend>> /\ owed' = owed \cup sig[r].head /\ kernel \subseteq kernel'
      BY <2>1 DEF raise
    <3>2. \/ UNCHANGED pc /\ r \in kernel'
          \/ Moves(t, "pending", r) /\ pc[t].at = "idle"
      BY <1>0, <2>1, MovesOn DEF raise, Idle
    <3>3. ASSUME NEW s \in Signal
          PROVE  /\ Carried(s, {"pending"}) => Carried(s, {"pending"})'
                 /\ Carried(s, {"flag"}) => Carried(s, {"flag"})'
      BY <1>3, <3>2, MovesCarried
    <3>4. r \in kernel' \/ Carried(r, {"pending"})'
      BY <3>2, MovesCarried
    <3>5. ASSUME NEW s \in Signal, NEW w, w \in owed', w \in sig'[s].head
          PROVE  w \in owed \/ s = r
      BY <3>1, <3>5 DEF HeadInv
    <3> QED
      BY <1>1, <1>2, <3>1, <3>3, <3>4, <3>5
  <2>2. ASSUME NEW t \in Thread, ev_async_send(t)
        PROVE  WayInv'
    <3>1. UNCHANGED <<sig, todo, pend, kernel, owed>> /\ Moves(t, "flag", pc[t].sig) /\ pc[t].at = "idle"
      BY <1>0, <2>2, MovesOn DEF ev_async_send, Idle
    <3>2. ch'.sig_pending = ch.sig_pending
      BY <1>0, <2>2 DEF ev_async_send, Channel
    <3>3. ASSUME NEW s \in Signal
          PROVE  /\ Carried(s, {"pending"}) => Carried(s, {"pending"})'
                 /\ Carried(s, {"flag"}) => Carried(s, {"flag"})'
      BY <3>1, MovesCarried
    <3> QED
      BY <1>1, <1>2, <3>1, <3>2, <3>3
  <2>3. ASSUME NEW v \in Watcher, ev_signal_stop(v)
        PROVE  WayInv'
    <3>1. PICK r \in Signal : /\ r = signum(v) /\ v \in sig[r].head
                              /\ Changed(sig, sig', r, sig[r].head \ {v})
      BY <1>0, <2>3, StopEffect
    <3>2. /\ UNCHANGED <<ch, pc, todo>> /\ owed' = owed \ {v} /\ pend' = pend \ {v}
          /\ kernel' = IF sig[r].head = {v} THEN kernel \ {r} ELSE kernel
      BY <2>3, <3>1 DEF ev_signal_stop
    <3>3. ASSUME NEW s \in Signal, NEW w, w \in owed', w \in sig'[s].head
          PROVE  w \in owed /\ w \in sig[s].head /\ w # v /\ sig'[s].pending = sig[s].pending
      BY <3>1, <3>2, <3>3 DEF Changed
    <3>4. ASSUME NEW s \in Signal, NEW w, w \in owed', w \in sig'[s].head, s \in kernel
          PROVE  s \in kernel'
      BY <3>2, <3>3, <3>4
    <3> QED
      BY <1>1, <1>2, <1>3, <3>2, <3>3, <3>4
  <2>4. ASSUME NEW v \in Watcher, NEW r \in Signal, ev_signal_start(v, r)
        PROVE  WayInv'
    <3>1. Changed(sig, sig', r, sig[r].head \cup {v})
      BY <1>0, <2>4, StartEffect
    <3>2. UNCHANGED <<ch, pc, todo, pend, kernel, owed>> /\ v \notin owed
      BY <2>4 DEF ev_signal_start, HeadInv
    <3>3. ASSUME NEW s \in Signal, NEW w, w \in owed', w \in sig'[s].head
          PROVE  w \in owed /\ w \in sig[s].head /\ sig'[s].pending = sig[s].pending
      BY <3>1, <3>2, <3>3 DEF Changed
    <3> QED
      BY <1>1, <1>2, <1>3, <3>2, <3>3
  <2>5. CASE fork
    BY <1>2, <2>5 DEF fork
  <2> QED
    BY <1>4, <2>1, <2>2, <2>3, <2>4, <2>5 DEF program
<1>5. ASSUME NEW t \in Thread, writer(t)
      PROVE  WayInv'
  <2>0. UNCHANGED <<todo, pend, kernel, owed>>
    BY <1>5, WriterFrame
  <2>1. SameHeads
    BY <1>5, HeadsKept
  <2>2. ASSUME NEW at, NEW x, Moves(t, at, x), pc[t].at \notin {"pending", "flag"},
               sig' = sig, ch'.sig_pending = ch.sig_pending
        PROVE  WayInv'
    <3>1. ASSUME NEW s \in Signal
          PROVE  /\ Carried(s, {"pending"}) => Carried(s, {"pending"})'
                 /\ Carried(s, {"flag"}) => Carried(s, {"flag"})'
      BY <2>2, MovesCarried
    <3> QED
      BY <1>1, <1>2, <2>0, <2>2, <3>1
  <2>5. CASE /\ pc[t].at = "pending" /\ Moves(t, "flag", pc[t].sig) /\ UNCHANGED ch
             /\ sig' = [sig EXCEPT ![pc[t].sig].pending = TRUE]
    <3>1. PICK r \in Signal : r = pc[t].sig
      BY <2>5 DEF HandlerInv
    <3>2. /\ sig'[r].pending
          /\ \A s \in Signal : s # r => sig'[s].pending = sig[s].pending
      BY <1>0, <2>5, <3>1, SetPending
    <3>3. Carried(r, {"flag"})'
      BY <2>5, <3>1, MovesCarried
    <3>4. ASSUME NEW s \in Signal, s # r
          PROVE  /\ Carried(s, {"pending"}) => Carried(s, {"pending"})'
                 /\ Carried(s, {"flag"}) => Carried(s, {"flag"})'
      BY <2>5, <3>1, <3>4, MovesCarried
    <3>5. ASSUME NEW s \in Signal, NEW w, w \in owed', w \in sig'[s].head
          PROVE  w \in owed /\ w \in sig[s].head
      BY <2>0, <2>1, <3>5 DEF SameHeads
    <3>6. ASSUME NEW s \in Signal, NEW w, w \in owed', w \in sig'[s].head
          PROVE  \/ w \in pend' \/ s \in kernel' \/ Carried(s, {"pending"})'
                 \/ sig'[s].pending /\ (ch'.sig_pending \/ s \in todo' \/ Carried(s, {"flag"})')
      <4>1. CASE s = r
        BY <3>2, <3>3, <4>1
      <4>2. CASE s # r
        BY <1>1, <2>0, <2>5, <3>2, <3>4, <3>5, <3>6, <4>2
      <4> QED
        BY <4>1, <4>2
    <3> QED
      BY <1>2, <3>6
  <2>6. ASSUME NEW at, NEW x, Moves(t, at, x), pc[t].at = "flag", UNCHANGED sig,
               pc[t].sig # 0 => ch'.sig_pending, ch.sig_pending => ch'.sig_pending
        PROVE  WayInv'
    <3>1. ASSUME NEW s \in Signal
          PROVE  /\ Carried(s, {"pending"}) => Carried(s, {"pending"})'
                 /\ Carried(s, {"flag"}) => Carried(s, {"flag"})' \/ ch'.sig_pending
      <4>1. s # 0
        BY DEF Signal
      <4> QED
        BY <2>6, <4>1, MovesCarried
    <3> QED
      BY <1>1, <1>2, <2>0, <2>6, <3>1
  <2>7. CASE pc[t].at = "flag" /\ ch[Flag(t)] /\ Moves(t, "idle", 0) /\ UNCHANGED <<sig, ch>>
    <3>1. pc[t].sig # 0 => ch.sig_pending
      BY <2>7 DEF Flag
    <3> QED
      BY <2>6, <2>7, <3>1
  <2>8. CASE /\ pc[t].at = "flag" /\ ~ch[Flag(t)] /\ Moves(t, "skip", pc[t].sig)
             /\ ch' = [ch EXCEPT ![Flag(t)] = TRUE] /\ UNCHANGED sig
    <3>1. (pc[t].sig # 0 => ch'.sig_pending) /\ (ch.sig_pending => ch'.sig_pending)
      BY <1>0, <2>8 DEF Flag, Channel
    <3> QED
      BY <2>6, <2>8, <3>1
  <2>9. CASE pc[t].at = "skip" /\ Moves(t, "wanted", pc[t].sig) /\ ch' = [ch EXCEPT !.skipped = TRUE] /\ UNCHANGED sig
    <3>1. ch'.sig_pending = ch.sig_pending
      BY <1>0, <2>9 DEF Channel
    <3> QED
      BY <2>2, <2>9, <3>1
  <2>10. CASE pc[t].at = "wanted" /\ UNCHANGED <<sig, ch>>
    <3>1. \E at, x : Moves(t, at, x)
      BY <1>5, <2>10, WriterMoves
    <3> QED
      BY <2>2, <2>10, <3>1
  <2>11. CASE pc[t].at = "unskip" /\ Moves(t, "write", pc[t].sig) /\ ch' = [ch EXCEPT !.skipped = FALSE] /\ UNCHANGED sig
    <3>1. ch'.sig_pending = ch.sig_pending
      BY <1>0, <2>11 DEF Channel
    <3> QED
      BY <2>2, <2>11, <3>1
  <2>12. CASE pc[t].at = "write" /\ Moves(t, "idle", 0) /\ ch' = [ch EXCEPT !.readable = TRUE] /\ UNCHANGED sig
    <3>1. ch'.sig_pending = ch.sig_pending
      BY <1>0, <2>12 DEF Channel
    <3> QED
      BY <2>2, <2>12, <3>1
  <2> QED
    BY <1>5, <2>5, <2>7, <2>8, <2>9, <2>10, <2>11, <2>12, WriterMoves
<1>6. CASE loop \/ poll_other
  <2>0. \A s, W : Carried(s, W)' <=> Carried(s, W)
    BY <1>3, <1>6, LoopFrame
  <2>1. ASSUME UNCHANGED <<sig, kernel, owed, todo>>, pend \subseteq pend', ch'.sig_pending = ch.sig_pending
        PROVE  WayInv'
    BY <1>1, <1>2, <2>0, <2>1
  <2>2. CASE want
    <3>1. UNCHANGED <<sig, kernel, owed, todo>> /\ pend \subseteq pend'
      BY <2>2 DEF want, loop_fork, looping
    <3>2. \/ ch' = [ch EXCEPT !.readable = FALSE, !.wanted = TRUE]
          \/ ch' = [ch EXCEPT !.wanted = TRUE]
      BY <2>2 DEF want, loop_fork
    <3>3. ch'.sig_pending = ch.sig_pending
      BY <1>0, <3>2 DEF Channel
    <3> QED
      BY <2>1, <3>1, <3>3
  <2>3. CASE check \/ poll_other \/ skipped
    BY <2>1, <2>3 DEF check, poll_other, skipped, looping
  <2>4. CASE poll \/ unwant \/ pipecb_read \/ pipecb_unskip \/ pipecb_asyncs \/ pipecb_sent
    <3>1. UNCHANGED <<sig, kernel, owed, todo>> /\ pend \subseteq pend'
      BY <2>4 DEF poll, unwant, pipecb_read, pipecb_unskip, pipecb_asyncs, pipecb_sent, looping
    <3>2. ch'.sig_pending = ch.sig_pending
      BY <1>0, <2>4 DEF poll, unwant, pipecb_read, pipecb_unskip, pipecb_asyncs, pipecb_sent, Channel
    <3> QED
      BY <2>1, <3>1, <3>2
  <2>5. ASSUME NEW v \in pend, invoke(v)
        PROVE  WayInv'
    <3>1. UNCHANGED <<sig, ch, todo>> /\ owed' = owed \ {v} /\ pend \ {v} \subseteq pend'
      BY <2>5 DEF invoke
    <3>2. ASSUME NEW s \in Signal, NEW w, w \in owed, w \in sig[s].head, s \in kernel
          PROVE  s \in kernel' \/ w \in pend'
      <4>1. CASE v = "sigfd"
        <5>2. w \in sigfdcb
          BY <3>2 DEF sigfdcb
        <5> QED
          BY <2>5, <4>1, <5>2 DEF invoke
      <4>2. CASE v # "sigfd"
        BY <2>5, <3>2, <4>2 DEF invoke
      <4> QED
        BY <4>1, <4>2
    <3> QED
      BY <1>1, <1>2, <2>0, <3>1, <3>2
  <2>6. CASE pipecb_signals
    <3>1. UNCHANGED <<sig, kernel, owed, pend>>
      BY <2>6 DEF pipecb_signals, looping
    <3>2. ch.sig_pending => todo' = Signal
      BY <2>6 DEF pipecb_signals
    <3>3. todo = {}
      BY <2>6 DEF pipecb_signals, LoopInv
    <3> QED
      BY <1>1, <1>2, <2>0, <3>1, <3>2, <3>3
  <2>7. CASE pipecb_scan
    <3>1. UNCHANGED <<sig, ch, kernel, owed, pend>>
      BY <2>7 DEF pipecb_scan, looping
    <3>2. \A s \in Signal : s \in todo /\ sig[s].pending => s \in todo'
      BY <2>7 DEF pipecb_scan
    <3> QED
      BY <1>1, <1>2, <2>0, <3>1, <3>2
  <2>8. CASE ev_feed_signal_event
    <3>1. PICK r \in Signal : r = Max(todo)
      BY <1>0, <2>8, MaxSignal DEF ev_feed_signal_event, LoopInv
    <3>2. /\ UNCHANGED <<ch, kernel, owed>> /\ todo' = todo \ {r} /\ pend \subseteq pend'
          /\ sig' = [sig EXCEPT ![r].pending = FALSE] /\ sig[r].head \subseteq pend'
      BY <2>8, <3>1 DEF ev_feed_signal_event
    <3>3. SameHeads /\ \A s \in Signal \ {r} : sig'[s].pending = sig[s].pending
      BY <1>0, <1>6, <3>2, HeadsKept, SetPending
    <3>4. ASSUME NEW w, w \in sig[r].head
          PROVE  w \in pend'
      BY <3>2, <3>4 DEF HeadInv
    <3>5. ASSUME NEW s \in Signal, NEW w, w \in owed', w \in sig'[s].head
          PROVE  \/ w \in pend' \/ s \in kernel' \/ Carried(s, {"pending"})'
                 \/ sig'[s].pending /\ (ch'.sig_pending \/ s \in todo' \/ Carried(s, {"flag"})')
      <4>1. w \in owed /\ w \in sig[s].head
        BY <3>2, <3>3, <3>5 DEF SameHeads
      <4>2. CASE s = r
        BY <3>4, <4>1, <4>2
      <4>3. CASE s # r
        BY <1>1, <2>0, <3>2, <3>3, <4>1, <4>3
      <4> QED
        BY <4>2, <4>3
    <3> QED
      BY <1>2, <3>5
  <2> QED
    BY <1>6, <2>2, <2>3, <2>4, <2>5, <2>6, <2>7, <2>8 DEF loop
<1> QED
  BY <1>4, <1>5, <1>6 DEF Next

-------------------------------------------------------------------------------
(* The theorems *)

\* A loop without watchers is in a state like that.
LEMMA SignalInit ==
    ASSUME SignalAssumption, Init
    PROVE  IInv
<1>1. TypeInv
  <2>1. sig \in [Signal -> SigRecord]
    BY DEF Init, SigRecord
  <2>2. ch \in Channel
    BY DEF Init, Channel
  <2>3. Idle \in Place
    BY DEF SignalAssumption, Idle, Place
  <2>4. pc \in [Thread -> Place]
    BY <2>3 DEF Init
  <2> QED
    BY <2>1, <2>2, <2>4 DEF Init, TypeInv
<1>2. LoopInv /\ HandlerInv /\ HeadInv
  BY DEF Init, LoopInv, HandlerInv, HeadInv, Idle
<1>3. FlagInv /\ SkipInv /\ WayInv
  BY DEF Init, FlagInv, SkipInv, WayInv
<1> QED
  BY <1>1, <1>2, <1>3 DEF IInv

\* Every step of the loop, of a thread and of the program keeps it.
LEMMA SignalStep ==
    ASSUME SignalAssumption, IInv, Next \/ UNCHANGED vars
    PROVE  IInv'
<1>0. TypeInv /\ LoopInv /\ HandlerInv /\ HeadInv /\ FlagInv /\ SkipInv /\ WayInv
  BY DEF IInv
<1>1. CASE Next
  BY <1>0, <1>1, TypeStep, LoopStep, HandlerStep, HeadStep, FlagStep, WayStep, Zenon DEF IInv
<1>2. CASE UNCHANGED vars
  <2>1. UNCHANGED <<sig, ch, pc, lp, todo, pend, kernel, owed, postfork, ops>>
    BY <1>2 DEF vars
  <2>2. TypeInv' /\ LoopInv' /\ HandlerInv'
    BY <1>0, <2>1 DEF TypeInv, LoopInv, HandlerInv
  <2>3. HeadInv'
    BY <1>0, <2>1, Zenon DEF HeadInv, Active
  <2>4. FlagInv' /\ SkipInv'
    BY <1>0, <2>1, Zenon DEF FlagInv, SkipInv, Covered, At
  <2>5. WayInv'
    BY <1>0, <2>1, Zenon DEF WayInv, Flagged, Carried
  <2> QED
    BY <2>2, <2>3, <2>4, <2>5 DEF IInv
<1> QED
  BY <1>1, <1>2

\* What it says of the loop and of the signals.
LEMMA SignalSafe ==
    ASSUME SignalAssumption, IInv
    PROVE  TypeOK /\ NoLostWakeup /\ SignalOnItsWay
<1>0. TypeInv /\ LoopInv /\ HandlerInv /\ HeadInv /\ FlagInv /\ SkipInv /\ WayInv
  BY DEF IInv
<1>1. TypeOK
  BY <1>0 DEF TypeInv, TypeOK, SigRecord, Channel, Place
<1>2. NoLostWakeup
  <2> SUFFICES ASSUME lp = "poll", ~Busy, "pipe" \notin pend,
                      ch.sig_pending \/ ch.async_pending \/ ch.skipped
               PROVE  ch.readable
    BY DEF NoLostWakeup
  <2>1. \A W : At(W) => "idle" \in W
    BY DEF Busy, At, Idle
  <2>2. ~ch.skipped /\ ~postfork
    BY <1>0, <2>1 DEF SkipInv, LoopInv
  <2>3. Covered
    BY <1>0, <2>2 DEF FlagInv
  <2> QED
    BY <2>1, <2>2, <2>3 DEF Covered
<1>3. SignalOnItsWay
  <2> SUFFICES ASSUME NEW w \in owed
               PROVE  \/ w \in pend
                      \/ signum(w) \in kernel
                      \/ \E t \in Thread : pc[t].sig = signum(w)
                      \/ sig[signum(w)].pending /\ (ch.sig_pending \/ signum(w) \in todo)
    BY DEF SignalOnItsWay
  <2>1. PICK s \in Signal : s = signum(w) /\ w \in sig[s].head
    BY <1>0 DEF HeadInv, Active, signum
  <2>2. w \in pend \/ s \in kernel \/ Carried(s, {"pending"}) \/ Flagged(s)
    BY <1>0, <2>1 DEF WayInv
  <2> QED
    BY <2>1, <2>2 DEF Carried, Flagged
<1> QED
  BY <1>1, <1>2, <1>3

\* The inductive invariant, in every reachable state.
THEOREM Inductive ==
    ASSUME SignalAssumption
    PROVE  Spec => []IInv
<1>1. Init => IInv
  BY SignalInit
<1>2. IInv /\ [Next]_vars => IInv'
  BY SignalStep
<1> QED
  BY <1>1, <1>2, PTL DEF Spec

\* evpipe_write and pipecb lose no wake-up, and ev_sighandler and pipecb no
\* signal, whatever the order of their accesses to memory, and fork included.
THEOREM NothingLost ==
    ASSUME SignalAssumption
    PROVE  Spec => [](TypeOK /\ NoLostWakeup /\ SignalOnItsWay)
<1>1. IInv => TypeOK /\ NoLostWakeup /\ SignalOnItsWay
  BY SignalSafe
<1> QED
  BY <1>1, Inductive, PTL

===============================================================================
