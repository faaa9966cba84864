---------------------------- MODULE MCMarketData ----------------------------
(* Small instances of MarketData for TLC. *)
EXTENDS MarketData

\* Two candles, and after their pages a third, empty one; an exchange without a
\* configuration; and a window Validate refuses.
MCWindows == {[from |-> 0, to |-> 4, configured |-> TRUE],
              [from |-> 0, to |-> 4, configured |-> FALSE],
              [from |-> 2, to |-> 2, configured |-> TRUE]}

\* The consumer of prices shares no state with the one of candles and with the
\* jobs, a job that is refused shares none with either, and a client that asks for
\* a job changes nothing: behaviours in which two of them are at work show nothing
\* that those of one do not.
Untouched(c) == \A t \in Moments : msg[c][t] \in [state: {"none", "ready"}, tries: {0}]
NoJobs == \A j \in Jobs : job[j] = None /\ told[j] = None
OnlyStored == \A j \in Jobs : told[j] = None /\ (job[j] # None => job[j].window.configured)
OneSide == \/ Untouched("price") /\ OnlyStored
           \/ Untouched("insert") /\ (NoJobs \/ Untouched("price"))
============================================================================
