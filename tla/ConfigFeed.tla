----------------------------- MODULE ConfigFeed -----------------------------
(***************************************************************************)
(* What the control plane promises to a subscriber: configurations are     *)
(* numbered in the order they are published, and every stream delivers     *)
(* some of them, each newer than the one before.  A slow stream may skip   *)
(* configurations, never repeat or reorder them.                           *)
(***************************************************************************)
EXTENDS Integers

CONSTANT Streams

VARIABLES
    published,  \* the newest configuration
    seen        \* the last one each stream delivered, -1 for none

feedVars == <<published, seen>>

FeedInit == published = 0 /\ seen = [s \in Streams |-> -1]

Publish == published' = published + 1 /\ UNCHANGED seen

Deliver(s) == /\ \E v \in (seen[s] + 1) .. published : seen' = [seen EXCEPT ![s] = v]
              /\ UNCHANGED published

FeedNext == Publish \/ \E s \in Streams : Deliver(s)

FeedSpec == FeedInit /\ [][FeedNext]_feedVars
=============================================================================
