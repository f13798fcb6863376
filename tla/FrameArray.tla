------------------------------ MODULE FrameArray ------------------------------
(***************************************************************************)
(* What lfu.c and sieve.c have in common: frames in an array of MAX_FRAMES *)
(* entries, of which the first -f are in use, each with the page it holds. *)
(***************************************************************************)
EXTENDS Integers

CONSTANTS Pages, FrameCounts, MAX_FRAMES

ASSUME PagesAssumption  == Pages \subseteq Nat
ASSUME FramesAssumption == MAX_FRAMES \in Nat \ {0} /\ FrameCounts \subseteq 1..MAX_FRAMES

EMPTY == -1
Slots == 0..(MAX_FRAMES - 1)
===============================================================================
