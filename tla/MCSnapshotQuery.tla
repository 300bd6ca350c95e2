--------------------------- MODULE MCSnapshotQuery ----------------------------
EXTENDS SnapshotQuery

CONSTANTS agent, other

(* What is read differs with the commit and with the parser.               *)
MCFacts == [k \in Commits \X Generations |-> {<<"file", k[1]>>, <<"parser", k[2]>>, <<"both", k>>}]

MCAgentRefs == {Latest} \cup [by : {"tag"}, of : Commits]
MCOtherRefs == [by : {"commit"}, of : Commits]
================================================================================
