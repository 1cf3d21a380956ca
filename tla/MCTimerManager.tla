---- MODULE MCTimerManager ----
(* TimerManager on small sets: see the MCTimerManager*.cfg files. *)
EXTENDS TimerManager, TLC

CONSTANTS s1, s2, t1, t2, t3, c1, c2

\* Two timers in one heap and one in the other: a minimum may be stale.
MCShared == t1 :> s1 @@ t2 :> s1 @@ t3 :> s2

\* One timer in each of two shards.
MCTwoShards == t1 :> s1 @@ t3 :> s2

====
