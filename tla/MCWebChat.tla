------------------------------ MODULE MCWebChat ------------------------------
(* Instances of WebChat for TLC.                                             *)
EXTENDS WebChat, TLC

Symmetry == Permutations(Streams)

\* States are alike that differ only in what is never read again: the messages given to
\* a run that is over, and the last result of the first agent, because RunEnds reads
\* that of the agent the session has, after it wrote that of the agent of its run, and
\* only a later agent is there without having run.
Given(s) == IF pc[s] \in {"noted", "running", "live"} \/ s \in orphans THEN window[s] ELSE <<>>
View ==
    <<storeVars, sessionVars, agent, [a \in Agents \ {0} |-> last[a]], client, closed, busy,
      pc, conv, [s \in Streams |-> Given(s)], runs_on, prev, orphans, handlerVars, historyVars>>
===============================================================================
