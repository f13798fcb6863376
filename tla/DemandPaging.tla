----------------------------- MODULE DemandPaging -----------------------------
(***************************************************************************)
(* What every replacement policy of the simulator promises, whatever it    *)
(* chooses to evict: X_access(page) answers HIT exactly when the page is   *)
(* resident, loads the page on a FAULT, never evicts while a frame is      *)
(* free, and evicts exactly one page when none is.  The policies' modules  *)
(* (TempoGraph, Lru, Lfu, Arc, Sieve) are shown to implement it.           *)
(***************************************************************************)
EXTENDS Naturals, FiniteSets

CONSTANTS
  PageIds,     \* identities the policy tells apart
  Capacities,  \* frame counts the simulator is started with
  NoPage       \* what last is before the first access

VARIABLES
  resident,    \* the pages held in frames
  capacity,    \* the number of frames, 0 before X_init
  last,        \* the page of the last access, or NoPage
  reply        \* "HIT", "FAULT", or "none" before the first access

vars == <<resident, capacity, last, reply>>

Init == resident = {} /\ capacity = 0 /\ last = NoPage /\ reply = "none"

\* X_init(n) and X_reset(): nothing is resident any more.
Configure(n) ==
  /\ resident' = {} /\ capacity' = n
  /\ last' = NoPage /\ reply' = "none"

Hit(p) ==
  /\ p \in resident
  /\ last' = p /\ reply' = "HIT"
  /\ UNCHANGED <<resident, capacity>>

Load(p) ==
  /\ p \notin resident
  /\ Cardinality(resident) < capacity
  /\ resident' = resident \cup {p}
  /\ last' = p /\ reply' = "FAULT"
  /\ UNCHANGED capacity

Replace(p) ==
  /\ p \notin resident
  /\ Cardinality(resident) = capacity
  /\ \E v \in resident : resident' = (resident \ {v}) \cup {p}
  /\ last' = p /\ reply' = "FAULT"
  /\ UNCHANGED capacity

Next ==
  \/ \E n \in Capacities \cup {0} : Configure(n)
  \/ \E p \in PageIds : Hit(p) \/ Load(p) \/ Replace(p)

Spec == Init /\ [][Next]_vars
===============================================================================
