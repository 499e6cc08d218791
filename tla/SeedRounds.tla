----------------------------- MODULE SeedRounds -----------------------------
(***************************************************************************)
(* What the server promises, without its directories and its counters: the *)
(* search goes through rounds, each with a target number of 7-cliques.  A  *)
(* round collects Quota graphs that meet the target; then they become the  *)
(* pool the next, harder round starts from.  After target 0 the search     *)
(* goes on with the next graph size, from the top target.                  *)
(***************************************************************************)
EXTENDS Naturals, Sequences

CONSTANTS
    Quota,      \* graphs a round collects
    TopTarget,  \* target of the first round of a graph size
    Finds,      \* the graphs clients find, records with a field "cliques"
    Seeds,      \* the graphs an operator may start the search from
    Nothing     \* no graph

VARIABLES
    up,         \* whether a server runs
    target,     \* the clique count the round asks for
    collected,  \* the graphs collected in this round, in order
    pool,       \* the graphs the round starts from
    handed      \* the graph handed out last, or Nothing

roundVars == <<up, target, collected, pool, handed>>

NextTarget(t) == IF t = 0 THEN TopTarget ELSE t - 1

Pools == [1 .. Quota -> Seeds]

RoundsInit ==
    /\ up = TRUE
    /\ target = TopTarget
    /\ collected = << >>
    /\ pool \in Pools
    /\ handed = Nothing

Collect(f) ==
    /\ up /\ Len(collected) < Quota
    /\ f.cliques <= target
    /\ collected' = Append(collected, f)
    /\ UNCHANGED <<up, target, pool, handed>>

Advance ==
    /\ up /\ Len(collected) = Quota
    /\ pool' = collected
    /\ collected' = << >>
    /\ target' = NextTarget(target)
    /\ UNCHANGED <<up, handed>>

\* A graph is handed out of the pool or of what the round has collected.
HandOut ==
    /\ up
    /\ \/ \E k \in DOMAIN pool : handed' = pool[k]
       \/ \E k \in DOMAIN collected : handed' = collected[k]
    /\ UNCHANGED <<up, target, collected, pool>>

TakeBack ==
    /\ handed' = Nothing
    /\ UNCHANGED <<up, target, collected, pool>>

\* The server dies, and what its round has collected is lost.
Die ==
    /\ up /\ ~up'
    /\ collected' = << >>
    /\ handed' = Nothing
    /\ UNCHANGED <<target, pool>>

\* A new server process starts from nothing but the operator's seeds.
Restart ==
    /\ ~up /\ up'
    /\ target' = TopTarget
    /\ collected' = << >>
    /\ pool' \in Pools
    /\ handed' = Nothing

RoundsNext ==
    \/ \E f \in Finds : Collect(f)
    \/ HandOut
    \/ Advance
    \/ TakeBack
    \/ Die
    \/ Restart

RoundsSpec == RoundsInit /\ [][RoundsNext]_roundVars
=============================================================================
