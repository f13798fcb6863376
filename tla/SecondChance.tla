----------------------------- MODULE SecondChance -----------------------------
(***************************************************************************)
(* A FIFO queue of resident pages with one reference bit each: a hit sets  *)
(* the page's bit; a fault on full frames moves pages whose bit is set     *)
(* from the front to the back, clearing it, and replaces the first page    *)
(* whose bit is clear.  What sieve.c does with its array and hand.         *)
(***************************************************************************)
EXTENDS Integers, Sequences

CONSTANTS
  Pages, Capacities,
  NoPage       \* what sought is between faults

VARIABLES queue, n, sought

vars == <<queue, n, sought>>

Queued == {queue[i].page : i \in DOMAIN queue}

Init == queue = <<>> /\ n = 0 /\ sought = NoPage

Configure(m) == sought = NoPage /\ queue' = <<>> /\ n' = m /\ sought' = NoPage

Hit(x) ==
  /\ sought = NoPage
  /\ \E i \in DOMAIN queue : queue[i].page = x /\ queue' = [queue EXCEPT ![i].bit = 1]
  /\ UNCHANGED <<n, sought>>

Miss(x) ==
  /\ sought = NoPage /\ n > 0 /\ x \notin Queued
  /\ sought' = x
  /\ UNCHANGED <<queue, n>>

Spare ==
  /\ sought # NoPage
  /\ Len(queue) = n /\ queue[1].bit = 1
  /\ queue' = Append(Tail(queue), [queue[1] EXCEPT !.bit = 0])
  /\ UNCHANGED <<n, sought>>

Insert ==
  /\ sought # NoPage
  /\ \/ Len(queue) < n /\ queue' = Append(queue, [page |-> sought, bit |-> 0])
     \/ /\ Len(queue) = n /\ queue[1].bit = 0
        /\ queue' = Append(Tail(queue), [page |-> sought, bit |-> 0])
  /\ sought' = NoPage
  /\ UNCHANGED n

Next ==
  \/ \E m \in Capacities \cup {0} : Configure(m)
  \/ \E x \in Pages : Hit(x) \/ Miss(x)
  \/ Spare \/ Insert

\* A page sought is found a frame, however many pages are spared first.
Spec == Init /\ [][Next]_vars /\ WF_vars(Spare \/ Insert)
===============================================================================
