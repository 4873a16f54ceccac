------------------------------- MODULE RWMutex -------------------------------
(***************************************************************************)
(* Go's sync.RWMutex: who holds the write lock and who holds a read lock.  *)
(* That a waiting goroutine is not starved by the others is left to the    *)
(* fairness of the modules that use it.                                    *)
(***************************************************************************)

Unlocked == [writer |-> {}, readers |-> {}]

NoWriter(m) == m.writer = {}                \* RLock() goes on
Free(m) == m.writer = {} /\ m.readers = {}  \* Lock() goes on

Lock(m, p) == [m EXCEPT !.writer = {p}]
Unlock(m) == [m EXCEPT !.writer = {}]
RLock(m, p) == [m EXCEPT !.readers = @ \cup {p}]
RUnlock(m, p) == [m EXCEPT !.readers = @ \ {p}]

==============================================================================
