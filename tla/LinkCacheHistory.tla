-------------------------- MODULE LinkCacheHistory --------------------------
(***************************************************************************)
(* LinkCache with a history variable that tells whether the requests have  *)
(* come one after another and nothing has failed so far: what the cache    *)
(* promises then is more than it promises under concurrency and failures.  *)
(***************************************************************************)
EXTENDS LinkCache

VARIABLE calm       \* history: no two requests at once, no failure, so far

InProgress == {r \in Requests : ~At(r, "idle")}

HistoryInit == Init /\ calm = TRUE

HistoryNext ==
    \/ Proceeds /\ calm' = (calm /\ Cardinality(InProgress') <= 1)
    \/ (\E r \in Requests : Fails(r)) /\ calm' = FALSE

HistorySpec == HistoryInit /\ [][HistoryNext]_<<vars, calm>> /\ Fairness

\* As long as requests come one at a time and none fails, an entry is an exact copy of
\* its row between requests: every handler leaves the cache as PostgreSQL is.
CoherentWhenCalm == calm /\ Quiet => \A c \in Codes : cache[c] \in {None, urls[c]}
=============================================================================
