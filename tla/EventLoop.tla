----------------------------- MODULE EventLoop -----------------------------
(***************************************************************************)
(* loop.c: the table of polled descriptors and the walk over it that calls *)
(* the handlers, which may add and remove entries while it goes on.        *)
(***************************************************************************)
EXTENDS Integers, Sequences

VARIABLES
  table,  \* fds and fdHandlers
  walk    \* index of the entry loop_main handles, 0 while it polls

loopVars == <<table, walk>>

(* loop_add_fd: the new entry's revents is what was in the memory.         *)
EntryOf(fd, handler, stale) == [fd |-> fd, handler |-> handler, revents |-> stale]
AddFd(t, fd, handler, stale) == Append(t, EntryOf(fd, handler, stale))

RemoveFdShifting(t, fd) ==  \* mutant: the handler is left behind
  LET last == Len(t)
      at == IF \E i \in 1..last : t[i].fd = fd
            THEN CHOOSE i \in 1..last : t[i].fd = fd ELSE last
  IN [i \in 1..(last - 1) |->
        IF i = at THEN [t[last] EXCEPT !.handler = t[at].handler] ELSE t[i]]
(* loop_remove_fd: the last entry, with what poll said of it, takes the    *)
(* place of the first one with this descriptor; an unknown descriptor costs*)
(* the last entry.                                                         *)
RemoveFd(t, fd) ==
  LET last == Len(t)
      Holds(i) == t[i].fd = fd
      at == IF \E i \in 1..last : Holds(i)
            THEN CHOOSE i \in 1..last : Holds(i) /\ \A j \in 1..(i - 1) : ~Holds(j)
            ELSE last
  IN [i \in 1..(last - 1) |-> IF i = at THEN t[last] ELSE t[i]]

(* The walk goes on from an entry, with the table as the handler left it   *)
(* (numFds is read again at every turn), to the next one that poll flagged,*)
(* or back to poll.  What it has passed is not read again: such a revents  *)
(* is kept FALSE.                                                          *)
Onward(t, from) ==
  LET Flagged(i) == from < i /\ t[i].revents
  IN \E next \in 0..Len(t) :
       /\ next # 0 => Flagged(next)
       /\ \A i \in 1..Len(t) : next = 0 \/ i < next => ~Flagged(i)
       /\ walk' = next
       /\ table' = [i \in 1..Len(t) |->
                      IF next = 0 \/ i < next THEN [t[i] EXCEPT !.revents = FALSE] ELSE t[i]]

(* poll returns when any of the descriptors is ready, and says which are.  *)
Poll(ready) ==
  /\ walk = 0 /\ \E i \in DOMAIN table : table[i].fd \in ready
  /\ Onward([i \in DOMAIN table |-> [table[i] EXCEPT !.revents = table[i].fd \in ready]], 0)

(* The handler of this kind is called for descriptor fd.                   *)
Calls(handler, fd) ==
  walk \in DOMAIN table /\ table[walk].handler = handler /\ table[walk].fd = fd
=============================================================================
