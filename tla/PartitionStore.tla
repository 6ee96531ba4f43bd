----------------------------- MODULE PartitionStore ----------------------------
(***************************************************************************)
(* What the data lake promises about a partition: it is a whole extraction, *)
(* dropped only by someone who holds a complete replacement, and put in     *)
(* place only where nothing is left.                                        *)
(***************************************************************************)
CONSTANTS
    Holders,    \* who may write
    Paths,
    Frames,     \* contents
    Nothing

VARIABLES
    kept,       \* kept[path]: the frame a reader finds, or Nothing
    ready       \* ready[h]: the path and the complete frame h is about to put there

storeVars == <<kept, ready>>

Init ==
    /\ kept = [path \in Paths |-> Nothing]
    /\ ready = [h \in Holders |-> Nothing]

Prepare(h, path, frame) ==
    /\ ready[h] = Nothing
    /\ ready' = [ready EXCEPT ![h] = [path |-> path, frame |-> frame]]
    /\ UNCHANGED kept

Drop(path) ==
    /\ \E h \in Holders : ready[h] # Nothing /\ ready[h].path = path
    /\ kept' = [kept EXCEPT ![path] = Nothing]
    /\ UNCHANGED ready

Install(h) ==
    /\ ready[h] # Nothing
    /\ kept[ready[h].path] = Nothing
    /\ kept' = [kept EXCEPT ![ready[h].path] = ready[h].frame]
    /\ ready' = [ready EXCEPT ![h] = Nothing]

\* The holder fails, or dies.
Abandon(h) ==
    /\ ready' = [ready EXCEPT ![h] = Nothing]
    /\ UNCHANGED kept

Next ==
    \/ \E h \in Holders : Install(h) \/ Abandon(h)
    \/ \E h \in Holders, path \in Paths, frame \in Frames : Prepare(h, path, frame)
    \/ \E path \in Paths : Drop(path)

Spec == Init /\ [][Next]_storeVars
=============================================================================
