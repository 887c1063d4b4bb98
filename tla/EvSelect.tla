-------------------------------- MODULE EvSelect --------------------------------
(***************************************************************************)
(* The select back end (src/libs/libev/ev_select.c) without fd_set: words  *)
(* of NFDBITS bits that grow with the highest descriptor in use.  A word   *)
(* is the set of the positions of its bits.                                *)
(***************************************************************************)
EXTENDS EvFd

CONSTANT NFDBITS
SelectAssumption == NFDBITS \in Nat \ {0}

\* vec_ri and vec_wi; result: vec_ro and vec_wo
select_init == [ri |-> <<>>, wi |-> <<>>, errno |-> "", result |-> <<>>]

vec_max(b) == Len(b.ri)
Word(fd) == fd \div NFDBITS + 1

Bit(fd) == fd % NFDBITS
Isset(vec, fd) == Word(fd) <= Len(vec) /\ Bit(fd) \in vec[Word(fd)]

\* New words are empty.
select_grow(vec, fd) ==
    IF Len(vec) < Word(fd) THEN vec \o [i \in 1 .. (Word(fd) - Len(vec)) |-> {}] ELSE vec

set_bit(vec, fd, on) ==
    [select_grow(vec, fd) EXCEPT ![Word(fd)] = IF on THEN @ \cup {Bit(fd)} ELSE @ \ {Bit(fd)}]

select_modify(x, fd, oev, nev) ==
    IF oev = nev THEN x
    ELSE [x EXCEPT !.back.ri = set_bit(@, fd, "READ" \in nev),
                   !.back.wi = set_bit(@, fd, "WRITE" \in nev)]

select_begins == enter_poll /\ from_now_on /\ c' = fd_reify(c, select_modify)

Asked == {fd \in Fd : Isset(c.back.ri, fd) \/ Isset(c.back.wi, fd)}

\* select() returns what is ready; it may refuse, or pass over, a descriptor
\* that was closed since.
select_ok ==
    /\ poll_returns
    /\ LET out(vec, event) ==
             [i \in DOMAIN vec |-> {bit \in vec[i] : event \in Level(tab[(i - 1) * NFDBITS + bit])}]
       IN  c' = [c EXCEPT !.back.result = <<out(c.back.ri, "READ"), out(c.back.wi, "WRITE")>>]

select_fails ==
    /\ poll_returns
    /\ \E errno \in {"EINTR", "ENOMEM"}
                    \cup (IF \E fd \in Asked : tab[fd] = Closed THEN {"EBADF"} ELSE {}) :
         c' = [c EXCEPT !.back.errno = errno]

\* Words and bits from the highest to the lowest descriptor.
select_order(b) == [i \in 1 .. vec_max(b) * NFDBITS |-> vec_max(b) * NFDBITS - i]

select_events(x, ro, wo) ==
    LET one(y, fd) ==
            LET got == (IF Isset(ro, fd) THEN {"READ"} ELSE {})
                       \cup (IF Isset(wo, fd) THEN {"WRITE"} ELSE {})
            IN  IF got = {} THEN y ELSE [y EXCEPT !.ev = fd_event(@, fd, got)]
    IN  Steps(one, x, select_order(x.back))

select_poll ==
    /\ after_poll
    /\ LET res == c.back.result
           x   == [c EXCEPT !.back.result = <<>>, !.back.errno = ""]
       IN  c' = CASE c.back.errno = "EINTR" -> x
                  [] c.back.errno = "ENOMEM" -> [x EXCEPT !.ev = fd_enomem(@)]
                  [] c.back.errno = "EBADF" -> [x EXCEPT !.ev = fd_ebadf(@)]
                  [] OTHER -> select_events(x, res[1], res[2])

-------------------------------------------------------------------------------

SelectInit == FdInit(select_init)

select_client == Program(forget)

select_loop == invoke \/ select_begins \/ select_ok \/ select_fails \/ select_poll

-------------------------------------------------------------------------------

SelectTypeOK ==
    /\ FdTypeOK
    /\ \A vec \in {c.back.ri, c.back.wi} : vec \in Seq(SUBSET (0 .. NFDBITS - 1))

\* While the loop polls, the bits are those of the watchers' masks, but for
\* the descriptors whose watchers have changed since, and no other bit is set.
BitsAsWanted ==
    /\ Len(c.back.ri) = Len(c.back.wi)
    /\ phase # "user" => \A fd \in 0 .. vec_max(c.back) * NFDBITS - 1 :
         fd \notin Fd \/ c.ev.reify[fd] = {} =>
            /\ Isset(c.back.ri, fd) <=> fd \in Fd /\ "READ" \in c.ev.events[fd]
            /\ Isset(c.back.wi, fd) <=> fd \in Fd /\ "WRITE" \in c.ev.events[fd]
    /\ phase # "user" => \A fd \in Fd : c.ev.reify[fd] = {} /\ c.ev.events[fd] # {} =>
         Word(fd) <= vec_max(c.back)
===============================================================================
