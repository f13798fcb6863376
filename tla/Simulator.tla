------------------------------ MODULE Simulator ------------------------------
(***************************************************************************)
(* The simulator (main.c): load_trace reads the trace, run_sim replays it  *)
(* through one policy, main does so for the policy of -a or for all five   *)
(* in turn and prints a row of counts for each.  The policies are the      *)
(* modules of lru.c, lfu.c, arc.c, tempograph.c and sieve.c themselves,    *)
(* each over its own static storage.                                       *)
(***************************************************************************)
EXTENDS References

CONSTANTS
  Pages,               \* what atoi may return for a line; 0 for one without a number
  FrameCounts,         \* values of -f
  WindowSizes,         \* values of -w
  Choices,             \* values of -a
  MAX_TRACE,
  MAX_FRAMES, MAX_UNIQUE, MAX_EDGES_PER_NODE, SAMPLE_SIZE, MAX_WINDOW,
  DEFAULT_WINDOW, DECAY_INTERVAL, DECAY_DIV, MAX_WEIGHT

Names           == <<"lru", "lfu", "arc", "tempograph", "sieve">>
ALGO_LRU        == 0
ALGO_LFU        == 1
ALGO_ARC        == 2
ALGO_TEMPOGRAPH == 3
ALGO_SIEVE      == 4
ALGO_COUNT      == 5

ASSUME PagesAssumption  == Pages \subseteq Nat
ASSUME FramesAssumption == MAX_FRAMES \in Nat \ {0} /\ FrameCounts \subseteq 1..MAX_FRAMES
ASSUME TraceAssumption  == MAX_TRACE \in Nat
ASSUME GraphAssumption  ==
  /\ MAX_UNIQUE \in Nat \ {0} /\ MAX_EDGES_PER_NODE \in Nat \ {0} /\ SAMPLE_SIZE \in Nat \ {0}
  /\ MAX_WINDOW \in Nat \ {0} /\ DEFAULT_WINDOW \in 1..MAX_WINDOW /\ WindowSizes \subseteq Int
  /\ DECAY_INTERVAL \in Nat \ {0} /\ DECAY_DIV \in Nat /\ DECAY_DIV >= 2
  /\ MAX_WEIGHT \in Nat \ {0}
ASSUME ChoicesAssumption == Choices \subseteq {"all"} \cup {Names[k] : k \in DOMAIN Names}

\* The value main gives algo: -1 stands for all policies.
ALL == -1
Chosen(choice) ==
  IF choice = "all" THEN ALL ELSE CHOOSE b \in 0..(ALGO_COUNT - 1) : Names[b + 1] = choice

VARIABLES
  pc,                  \* "load", "start", "replay" or "exit"
  trace,
  n_frames, window,
  algo,                \* what -a asks for
  a,                   \* the policy being run
  i, n_faults,         \* the loop of run_sim
  rows,                \* the rows printed
  \* the static storage of the policies
  lru_links, lru_hmap, lru_size, lru_capacity, lru_recency, lru_reply,
  slots, lfu_cap, lfu_size, lfu_clock, lfu_hist,
  lists, ahmap, c, p, arc_recency, arc_reply,
  edges, win, W, lru, frames, in_frames, frame_of, mru_time,
  cap, size, global_time, access_count, hist, reply,
  pages, visited, hand, n, scanning, sieve_last, sieve_reply

Lru == INSTANCE Lru WITH
  links <- lru_links, hmap <- lru_hmap, size <- lru_size, capacity <- lru_capacity,
  recency <- lru_recency, reply <- lru_reply
Lfu == INSTANCE Lfu WITH cap <- lfu_cap, size <- lfu_size, hist <- lfu_hist
Arc == INSTANCE Arc WITH recency <- arc_recency, reply <- arc_reply
TG  == INSTANCE TempoGraph
Sv  == INSTANCE Sieve WITH last <- sieve_last, reply <- sieve_reply

options   == <<n_frames, window, algo>>
lruVars   == <<lru_links, lru_hmap, lru_size, lru_capacity, lru_recency, lru_reply>>
lfuVars   == <<slots, lfu_cap, lfu_size, lfu_clock, lfu_hist>>
arcVars   == <<lists, ahmap, c, p, arc_recency, arc_reply>>
tgVars    == <<edges, win, W, lru, frames, in_frames, frame_of, mru_time,
               cap, size, global_time, access_count, hist, reply>>
sieveVars == <<pages, visited, hand, n, scanning, sieve_last, sieve_reply>>
policies  == <<lruVars, lfuVars, arcVars, tgVars, sieveVars>>
vars      == <<pc, trace, options, a, i, n_faults, rows, policies>>

Init ==
  /\ pc = "load" /\ trace = <<>>
  /\ n_frames \in FrameCounts /\ window \in WindowSizes /\ algo \in {Chosen(choice) : choice \in Choices}
  /\ a = 0 /\ i = 0 /\ n_faults = 0 /\ rows = <<>>
  /\ Lru!Init /\ Lfu!Init /\ Arc!Init /\ TG!Init /\ Sv!SieveStart

-------------------------------------------------------------------------------
(* load_trace.  A call of fgets returns a line or 255 characters of one,   *)
(* so a piece of a long line is treated as a line of its own.              *)

\* A piece that begins with '#', or an empty line.
SkipPiece == pc = "load" /\ Len(trace) < MAX_TRACE /\ UNCHANGED vars

\* Any other piece is an access, to page 0 when atoi finds no number in it.
ReadPiece(page) ==
  /\ pc = "load" /\ Len(trace) < MAX_TRACE
  /\ trace' = Append(trace, page)
  /\ UNCHANGED <<pc, options, a, i, n_faults, rows, policies>>

\* The file ends, or could not be opened, or holds more than MAX_TRACE accesses.
\* main gives up when nothing was loaded.
EndLoad ==
  /\ pc = "load"
  /\ pc' = IF trace = <<>> THEN "exit" ELSE "start"
  /\ a' = IF algo = ALL THEN 0 ELSE algo
  /\ UNCHANGED <<trace, options, i, n_faults, rows, policies>>

-------------------------------------------------------------------------------
(* run_sim.                                                                *)

\* Every policy but b keeps its static storage.
Untouched(b) ==
  /\ IF b = ALGO_LRU        THEN TRUE ELSE UNCHANGED lruVars
  /\ IF b = ALGO_LFU        THEN TRUE ELSE UNCHANGED lfuVars
  /\ IF b = ALGO_ARC        THEN TRUE ELSE UNCHANGED arcVars
  /\ IF b = ALGO_TEMPOGRAPH THEN TRUE ELSE UNCHANGED tgVars
  /\ IF b = ALGO_SIEVE      THEN TRUE ELSE UNCHANGED sieveVars

StartRun ==
  /\ pc = "start" /\ pc' = "replay"
  /\ i' = 1 /\ n_faults' = 0
  /\ \/ a = ALGO_LRU        /\ Lru!LruInit(n_frames)
     \/ a = ALGO_LFU        /\ Lfu!LfuInit(n_frames)
     \/ a = ALGO_ARC        /\ Arc!ArcInit(n_frames)
     \/ a = ALGO_TEMPOGRAPH /\ TG!TgInit(n_frames, window)
     \/ a = ALGO_SIEVE      /\ Sv!SieveInit(n_frames)
  /\ Untouched(a)
  /\ UNCHANGED <<trace, options, a, rows>>

\* Mutant of Counted: every access is counted.
CountedAlways(result) == n_faults + 1
Counted(result) == IF result = "FAULT" THEN n_faults + 1 ELSE n_faults

Replaying == pc = "replay" /\ i <= Len(trace)

\* What an access that is answered leaves behind.
Answered(result) ==
  /\ Untouched(a)
  /\ i' = i + 1 /\ n_faults' = Counted(result)
  /\ UNCHANGED <<pc, trace, options, a, rows>>

Access(page) ==
  \/ /\ a = ALGO_LRU
     /\ Lru!Hit(page) \/ Lru!LoadFree(page) \/ Lru!LoadEvict(page)
     /\ Answered(lru_reply')
  \/ /\ a = ALGO_LFU
     /\ Lfu!Hit(page) \/ Lfu!LoadFree(page) \/ Lfu!LoadEvict(page)
     /\ Answered(lfu_hist'[Len(lfu_hist')].outcome)
  \/ /\ a = ALGO_ARC
     /\ Arc!Hit(page) \/ Arc!GhostHitB1(page) \/ Arc!GhostHitB2(page) \/ Arc!Miss(page)
     /\ Answered(arc_reply')
  \/ /\ a = ALGO_TEMPOGRAPH
     /\ TG!Hit(page) \/ TG!Fault(page)
     /\ Answered(reply')
  \/ /\ a = ALGO_SIEVE
     /\ Sv!SieveHit(page)
     /\ Answered(sieve_reply')

\* A fault of sieve.c: its scan, turn by turn, until a frame is replaced.
SieveScan(page) ==
  /\ a = ALGO_SIEVE
  /\ Sv!Fault(page) \/ Sv!Skip
  /\ Untouched(a)
  /\ UNCHANGED <<pc, trace, options, a, i, n_faults, rows>>
SieveReplace == a = ALGO_SIEVE /\ Sv!Replace /\ Answered(sieve_reply')

Replay == Replaying /\ (Access(trace[i]) \/ SieveScan(trace[i]) \/ SieveReplace)

\* Mutant of Following: the last policy is left out.
FollowingButLast == IF algo = ALL /\ a + 2 < ALGO_COUNT THEN "start" ELSE "exit"
\* What main does after a row.
Following == IF algo = ALL /\ a + 1 < ALGO_COUNT THEN "start" ELSE "exit"

EndRun ==
  /\ pc = "replay" /\ i > Len(trace)
  /\ \/ a = ALGO_LRU        /\ Lru!LruReset
     \/ a = ALGO_LFU        /\ Lfu!LfuReset
     \/ a = ALGO_ARC        /\ Arc!ArcReset
     \/ a = ALGO_TEMPOGRAPH /\ TG!TgReset
     \/ a = ALGO_SIEVE      /\ Sv!SieveReset
  /\ Untouched(a)
  /\ rows' = Append(rows, [algo |-> a, accesses |-> Len(trace), faults |-> n_faults])
  /\ pc' = Following /\ a' = a + 1
  /\ UNCHANGED <<trace, options, i, n_faults>>

Exited == pc = "exit" /\ UNCHANGED vars

Next ==
  \/ SkipPiece \/ (\E page \in Pages : ReadPiece(page)) \/ EndLoad
  \/ StartRun \/ Replay \/ EndRun
  \/ Exited

\* One sequential program that runs to its end.  The last conjunct is WF_vars(Replay)
\* with the action's enabling condition written out, which TLC evaluates faster.
Spec ==
  /\ Init /\ [][Next]_vars
  /\ WF_vars(EndLoad) /\ WF_vars(StartRun) /\ WF_vars(EndRun)
  /\ <>[]Replaying => []<><<Replay>>_vars

-------------------------------------------------------------------------------
(* The rows against the references.                                        *)

\* tempograph.c tells pages apart by their index, the other policies by their number.
Key(b, page) == IF b = ALGO_TEMPOGRAPH THEN TG!page_idx(page) ELSE page
Seen(b) == [j \in DOMAIN trace |-> Key(b, trace[j])]

\* lru.c: LRU's row is the stack distance count.
LruCountsStackDistances ==
  \A k \in DOMAIN rows : rows[k].algo = ALGO_LRU => rows[k].faults = StackDistanceFaults(n_frames, trace)

\* run_sim: no policy does better than the optimum, none faults more often than it is
\* called, and while the pages fit in the frames every policy faults once for each page.
RowsWithinReferences ==
  rows # <<>> =>
    LET optimum == [b \in {ALGO_LRU, ALGO_TEMPOGRAPH} |-> Optimal(n_frames, Seen(b))[Len(trace)].faults]
        cold    == [b \in {ALGO_LRU, ALGO_TEMPOGRAPH} |-> Cardinality(PagesIn(Seen(b), 1, Len(trace)))]
    IN \A k \in DOMAIN rows :
         LET b == IF rows[k].algo = ALGO_TEMPOGRAPH THEN ALGO_TEMPOGRAPH ELSE ALGO_LRU IN
         /\ rows[k].faults >= optimum[b] /\ rows[k].faults <= Len(trace)
         /\ cold[b] <= n_frames => rows[k].faults = cold[b]

\* The counts main.c prints are those the trace alone prescribes.
RowsMatchReferences == RowsWithinReferences /\ LruCountsStackDistances

\* The trace is a scan of more pages than there are frames.
ScanExceedsFrames == \E k \in (n_frames + 1)..Len(trace) : IsScan(trace, k)

\* DEMO.md:66: on a cyclic scan of more pages than there are frames LRU, LFU, ARC and
\* SIEVE fault on every access.
ScanDefeatsTheOthers ==
  ScanExceedsFrames =>
    \A k \in DOMAIN rows : rows[k].algo # ALGO_TEMPOGRAPH => rows[k].faults = Len(trace)

\* tempograph.c:179-187: TempoGraph does not, by its tie-break towards the most recently
\* used page.
TempoGraphKeepsSome ==
  ScanExceedsFrames /\ n_frames > 1 =>
    \A k \in DOMAIN rows : rows[k].algo = ALGO_TEMPOGRAPH => rows[k].faults < Len(trace)

\* One row for each policy asked for, in the order of ALGO_NAMES, and none when the trace
\* is empty.
RowsAskedFor ==
  [k \in DOMAIN rows |-> rows[k].algo] =
    IF trace = <<>> THEN <<>>
    ELSE IF algo = ALL THEN [k \in 1..ALGO_COUNT |-> k - 1] ELSE <<algo>>

\* The program ends, with the rows asked for.
EveryRowPrinted == <>[](pc = "exit" /\ RowsAskedFor)
===============================================================================
