------------------------------ MODULE MCAgent ------------------------------
(***************************************************************************)
(* The two halves of the AI agent for TLC: a request and what it stores    *)
(* (AgentRequest), and the loop of model and tools it runs (ToolLoop).     *)
(* They meet in what chatStream() does to a request: it streams, returns or *)
(* throws, which AgentRequest leaves open.  A run checks one half at a time. *)
(***************************************************************************)
EXTENDS AgentRequest, ToolLoop

CONSTANTS r1, r2, i1,
          OldLengths   \* how many messages the conversation may have already

ASSUME OldAssumption == OldLengths \subseteq Nat

\* No tool is given to the model, or all that exist.
MCSelections == {{}, Common}

VARIABLE half
allVars == <<agentVars, loopVars, half>>

Old(n) == [k \in 1 .. n |-> [role |-> IF k % 2 = 1 THEN "user" ELSE "assistant",
                             number |-> k, of |-> Nobody, era |-> 0, error |-> FALSE]]

MCInit ==
    /\ half \in {"request", "loop"}
    /\ \E n \in IF half = "request" THEN OldLengths ELSE {0} : AgentInitWith(Old(n))
    /\ LoopInit

\* Requests and instances are alike: the first to begin is r1, on i1.
InOrder ==
    /\ At(r1, "idle") => At(r2, "idle")
    /\ req[r1].home \in {Nobody, i1}

\* Bound: a cancel, or a failed operation or blocked write, not both.
OneTrouble ==
    (\A k \in Cancels : cancel[k].at = "free") \/ failures + blocked = 0

MCNext ==
    \/ half = "request" /\ AgentNext /\ (InOrder /\ OneTrouble)' /\ UNCHANGED <<loopVars, half>>
    \/ half = "loop" /\ LoopNext /\ UNCHANGED <<agentVars, half>>

(* Requests go on, their saves go on, the provider ends its stream one way  *)
(* or the other, and tools return.                                         *)
MCSpec ==
    /\ MCInit /\ [][MCNext]_allVars
    /\ \A r \in Requests :
         WF_allVars(half = "request" /\ RequestGoesOn(r) /\ UNCHANGED <<loopVars, half>>)
    /\ WF_allVars(half = "loop" /\ LoopStep /\ UNCHANGED <<agentVars, half>>)

TypesOK == AgentTypeOK /\ LoopTypeOK

(* Every request that begins ends, and so does every loop.                  *)
EverythingEnds == RequestsEnd /\ (half = "loop" => <>(loop = "over"))
=============================================================================
