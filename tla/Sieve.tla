-------------------------------- MODULE Sieve --------------------------------
(***************************************************************************)
(* The policy of sieve.c: an array of frames with a visited bit each and a *)
(* hand that scans for a frame to replace.  One action per entry point;    *)
(* the scan of a fault is taken one turn of its loop at a time, since      *)
(* whether it ends is a question.                                          *)
(***************************************************************************)
EXTENDS FrameArray, Sequences, FiniteSets

NoPage == -1

VARIABLES
  pages, visited, hand, n,
  scanning,    \* the page whose fault is being served, NoPage between accesses
  last, reply  \* history variables: the last access and its outcome

sieve_vars == <<pages, visited, hand, n, scanning, last, reply>>

\* Static storage before the first sieve_init.
SieveStart ==
  /\ pages = [i \in Slots |-> 0] /\ visited = [i \in Slots |-> 0]
  /\ hand = 0 /\ n = 0
  /\ scanning = NoPage /\ last = NoPage /\ reply = "none"

\* Only the first n_frames entries are cleared.
SieveInit(n_frames) ==
  /\ scanning = NoPage
  /\ n' = n_frames /\ hand' = 0
  /\ pages' = [i \in Slots |-> IF i < n_frames THEN EMPTY ELSE pages[i]]
  /\ visited' = [i \in Slots |-> IF i < n_frames THEN 0 ELSE visited[i]]
  /\ last' = NoPage /\ reply' = "none"
  /\ UNCHANGED scanning

\* The capacity survives a reset.
SieveReset == SieveInit(n)

\* Mutants of Frames: the search runs over entries an earlier configuration left
\* behind; it stops one frame short.
FramesEver == Slots
FramesButLast == 0..(n - 2)
\* The entries searched for the page.
Frames == 0..(n - 1)

SieveHit(page) ==
  /\ scanning = NoPage /\ n > 0
  /\ \E i \in Frames :
       /\ pages[i] = page /\ \A j \in 0..(i - 1) : pages[j] # page
       /\ visited' = [visited EXCEPT ![i] = 1]
  /\ last' = page /\ reply' = "HIT"
  /\ UNCHANGED <<pages, hand, n, scanning>>

Fault(page) ==
  /\ scanning = NoPage /\ n > 0
  /\ \A i \in Frames : pages[i] # page
  /\ scanning' = page
  /\ UNCHANGED <<pages, visited, hand, n, last, reply>>

Advanced == (hand + 1) % n

\* Mutants of Spared: the bit is left set; the bits of all frames are cleared.
SparedForGood == visited
SparedAll == [i \in Slots |-> 0]
Spared == [visited EXCEPT ![hand] = 0]

\* One turn of the loop.
Skip ==
  /\ scanning # NoPage /\ visited[hand] # 0
  /\ visited' = Spared
  /\ hand' = Advanced
  /\ UNCHANGED <<pages, n, scanning, last, reply>>

\* The loop's exit and the lines after it.
Replace ==
  /\ scanning # NoPage /\ visited[hand] = 0
  /\ pages' = [pages EXCEPT ![hand] = scanning]
  /\ visited' = [visited EXCEPT ![hand] = 0]
  /\ hand' = Advanced
  /\ last' = scanning /\ reply' = "FAULT"
  /\ scanning' = NoPage
  /\ UNCHANGED n

SieveNext ==
  \/ \E m \in FrameCounts : SieveInit(m)
  \/ SieveReset
  \/ \E page \in Pages : SieveHit(page) \/ Fault(page)
  \/ Skip \/ Replace

\* The loop runs on: the simulator is one sequential program.
SieveSpec == SieveStart /\ [][SieveNext]_sieve_vars /\ WF_sieve_vars(Skip \/ Replace)

-------------------------------------------------------------------------------

\* Types, the hand within the array.
SieveTypeOk ==
  /\ pages \in [Slots -> Pages \cup {EMPTY, 0}]
  /\ visited \in [Slots -> {0, 1}]
  /\ n \in 0..MAX_FRAMES /\ hand \in 0..(IF n = 0 THEN 0 ELSE n - 1)
  /\ scanning \in Pages \cup {NoPage}
  /\ last \in Pages \cup {NoPage}
  /\ reply \in {"HIT", "FAULT", "none"}

Occupied == {i \in 0..(n - 1) : pages[i] # EMPTY}

\* No page is in two frames, and no frame awaits its first page with its bit set: the
\* scan would spare it as if it held a page.
FramesAgree ==
  /\ \A i, j \in Occupied : pages[i] = pages[j] => i = j
  /\ \A i \in 0..(n - 1) : pages[i] = EMPTY => visited[i] = 0
  /\ scanning # NoPage => \A i \in Occupied : pages[i] # scanning

\* A fault is served: the scan of sieve.c:62-65 always finds a frame to replace, even
\* with every bit set when it starts.
ScanEnds == scanning # NoPage ~> scanning = NoPage

\* Read from the hand onwards, free frames first, the array is a FIFO queue with second
\* chances.
AtTurn(k) == [page |-> pages[(hand + k) % n], bit |-> visited[(hand + k) % n]]
Queue ==
  LET m == Cardinality(Occupied) IN [k \in 1..m |-> AtTurn((n - m) + (k - 1))]

Fifo == INSTANCE SecondChance WITH
  Capacities <- FrameCounts,
  queue      <- Queue,
  sought     <- scanning

RefinesSecondChance == Fifo!Spec

\* sieve.c implements demand paging.
SievePaging == INSTANCE DemandPaging WITH
  PageIds    <- Pages,
  Capacities <- FrameCounts,
  resident   <- {pages[i] : i \in Occupied},
  capacity   <- n

SieveRefinesDemandPaging == SievePaging!Spec
===============================================================================
