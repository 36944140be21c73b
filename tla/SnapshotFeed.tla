---------------------------- MODULE SnapshotFeed ----------------------------
(***************************************************************************)
(* What a cluster of caches promises a reader: there is one feed of        *)
(* snapshots that only moves forward, and what an instance serves is a     *)
(* snapshot of the feed, never ahead of what has been broadcast and never  *)
(* behind what the same instance served before.                            *)
(***************************************************************************)
EXTENDS Naturals

CONSTANTS Inst, None, MaxVersion

VARIABLES feed,   \* version of the newest snapshot broadcast
          view    \* version each instance serves, or None

feedVars == <<feed, view>>

FeedInit == /\ feed = 0
            /\ view = [i \in Inst |-> None]

\* A snapshot at least as new as the last one is broadcast.
Announce == /\ feed' \in feed .. MaxVersion
            /\ UNCHANGED view

\* An instance moves along the feed.
CatchUp(i) == /\ \E v \in 0 .. feed : /\ view[i] # None => v >= view[i]
                                      /\ view' = [view EXCEPT ![i] = v]
              /\ UNCHANGED feed

\* A process dies with its memory.
Forget(i) == /\ view' = [view EXCEPT ![i] = None]
             /\ UNCHANGED feed

FeedNext == Announce \/ \E i \in Inst : CatchUp(i) \/ Forget(i)

FeedSpec == FeedInit /\ [][FeedNext]_feedVars
=============================================================================
