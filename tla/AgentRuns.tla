------------------------------ MODULE AgentRuns ------------------------------
(***************************************************************************)
(* Runs of the agents: src/lib/agent-service.ts keeps an AgentRun row      *)
(* while the request that started it computes the output, remembers the    *)
(* question, stores the output, records the usage and writes the audit     *)
(* log, each in a transaction of its own.  Its user may cancel the run,    *)
(* and a job fails runs that are a day old; neither stops the request.     *)
(***************************************************************************)
EXTENDS Naturals

CONSTANTS
    Run,
    Allowance,      \* tier -> agent runs per month
    TierOf,         \* run -> the tier of its user
    Needs,          \* run -> the tier its agent is for
    Unfinished,     \* the runs whose question is remembered as unfinished
    NoRun

VARIABLES
    status,     \* AgentRun.status, "none" without a row
    overdue,    \* the runs created more than AGENT_RUN_TIMEOUT_HOURS ago
    output,     \* the runs whose output is stored
    memories,   \* the runs whose question is remembered
    pending,    \* ConversationContext.pendingAction: a run, or None
    usage,      \* the runs with a UsageEvent and its outbox row
    request,    \* run -> what its request does next
    cancelling, \* cancellations that found their run running
    crashed     \* the runs whose request died

runVars == <<status, overdue, output, memories, pending, usage, request,
             cancelling, crashed>>

Step == {"none", "build", "complete", "charge", "audit", "catch", "over"}

RunsInit ==
    /\ status = [r \in Run |-> "none"]
    /\ overdue = {}
    /\ output = {}
    /\ memories = {}
    /\ pending = NoRun
    /\ usage = {}
    /\ request = [r \in Run |-> "none"]
    /\ cancelling = {}
    /\ crashed = {}

Goes(r, step) == request' = [request EXCEPT ![r] = step]

-----------------------------------------------------------------------------
(* assertAgentTier: the tier's allowance is compared, not what was used.   *)
Allowed(r) == Allowance[TierOf[r]] >= Allowance[Needs[r]]

StartRun(r) ==
    /\ request[r] = "none" /\ Allowed(r)
    /\ status' = [status EXCEPT ![r] = "running"]
    /\ Goes(r, "build")
    /\ UNCHANGED <<overdue, output, memories, pending, usage, cancelling, crashed>>

Build(r) ==
    /\ request[r] = "build"
    /\ memories' = memories \cup {r}
    /\ Goes(r, "complete")
    /\ UNCHANGED <<status, overdue, output, pending, usage, cancelling, crashed>>

(* Whatever the row's status has become meanwhile.                         *)
Complete(r) ==
    /\ request[r] = "complete"
    /\ status' = [status EXCEPT ![r] = "completed"]
    /\ output' = output \cup {r}
    /\ pending' = IF r \in Unfinished THEN r ELSE NoRun
    /\ Goes(r, "charge")
    /\ UNCHANGED <<overdue, memories, usage, cancelling, crashed>>

Charge(r) ==
    /\ request[r] = "charge"
    /\ usage' = usage \cup {r}
    /\ Goes(r, "audit")
    /\ UNCHANGED <<status, overdue, output, memories, pending, cancelling, crashed>>

Audit(r) ==
    /\ request[r] = "audit"
    /\ Goes(r, "over")
    /\ UNCHANGED <<status, overdue, output, memories, pending, usage, cancelling,
                   crashed>>

(* An error in any of these steps marks the run failed, even when its      *)
(* output is stored and charged for.                                       *)
CaughtAt_BeforeCharge == {"build", "complete"}
CaughtAt == {"build", "complete", "charge", "audit"}

Throw(r) ==
    /\ request[r] \in {"build", "complete", "charge", "audit"}
    /\ Goes(r, IF request[r] \in CaughtAt THEN "catch" ELSE "over")
    /\ UNCHANGED <<status, overdue, output, memories, pending, usage, cancelling,
                   crashed>>

Catch(r) ==
    /\ request[r] = "catch"
    /\ status' = [status EXCEPT ![r] = "failed"]
    /\ Goes(r, "over")
    /\ UNCHANGED <<overdue, output, memories, pending, usage, cancelling, crashed>>

Crash(r) ==
    /\ request[r] \notin {"none", "over"}
    /\ crashed' = crashed \cup {r}
    /\ Goes(r, "over")
    /\ UNCHANGED <<status, overdue, output, memories, pending, usage, cancelling>>

-----------------------------------------------------------------------------
(* cancelAgentRunForCurrentUser reads the row, and writes it in another    *)
(* transaction.                                                            *)
CancelReads(r) ==
    /\ status[r] = "running"
    /\ cancelling' = cancelling \cup {r}
    /\ UNCHANGED <<status, overdue, output, memories, pending, usage, request,
                   crashed>>

CancelWrites(r) ==
    /\ r \in cancelling
    /\ status' = [status EXCEPT ![r] = "cancelled"]
    /\ cancelling' = cancelling \ {r}
    /\ UNCHANGED <<overdue, output, memories, pending, usage, request, crashed>>

ADayPasses(r) ==
    /\ status[r] # "none"
    /\ overdue' = overdue \cup {r}
    /\ UNCHANGED <<status, output, memories, pending, usage, request, cancelling,
                   crashed>>

(* runAgentCleanup, one update of all that are late.                       *)
TimedOut == {r \in overdue : status[r] = "running"}

Cleanup ==
    /\ TimedOut # {}
    /\ status' = [r \in Run |-> IF r \in TimedOut THEN "failed" ELSE status[r]]
    /\ UNCHANGED <<overdue, output, memories, pending, usage, request, cancelling,
                   crashed>>

RunsNext ==
    \/ \E r \in Run :
        \/ StartRun(r) \/ Build(r) \/ Complete(r) \/ Charge(r) \/ Audit(r)
        \/ Throw(r) \/ Catch(r) \/ Crash(r)
        \/ CancelReads(r) \/ CancelWrites(r) \/ ADayPasses(r)
    \/ Cleanup

RunsSpec == RunsInit /\ [][RunsNext]_runVars

-----------------------------------------------------------------------------
RunsTypeOK ==
    /\ status \in [Run -> {"none", "running", "completed", "failed", "cancelled"}]
    /\ overdue \subseteq Run /\ output \subseteq Run /\ memories \subseteq Run
    /\ usage \subseteq Run /\ cancelling \subseteq Run /\ crashed \subseteq Run
    /\ pending \in Run \cup {NoRun}
    /\ request \in [Run -> Step]

(* A run is charged for only when its output is stored, its question is    *)
(* remembered and its tier allowed it; and a run left completed was        *)
(* charged for, unless its process died before it could be: an error in    *)
(* the charge leaves the run failed, not completed and free.               *)
ChargeMatchesOutput ==
    \A r \in Run :
        /\ r \in usage => r \in output /\ r \in memories /\ Allowed(r)
        /\ status[r] = "completed" /\ request[r] = "over" /\ r \notin crashed
            => r \in usage
=============================================================================
