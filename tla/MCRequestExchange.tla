------------------------- MODULE MCRequestExchange --------------------------
(***************************************************************************)
(* The assistant's requests and its sessions, on small instances.  They    *)
(* share no state; a behaviour is one of the part that "part" names.       *)
(***************************************************************************)
EXTENDS RequestExchange, AgentRunner

VARIABLE part

\* The variables of the part that is not explored, empty but for those the
\* invariants read.
exchangeOff ==
    /\ runs = <<>> /\ entry = <<>> /\ older = {} /\ totalBytes = 0 /\ stale = {}
    /\ dropped = {} /\ expiries = 0 /\ cpc = <<>> /\ asked = <<>> /\ on = <<>>
    /\ answer = <<>> /\ rpc = <<>> /\ attempt = <<>> /\ respCh = <<>>
    /\ result = [r \in Keys |-> None] /\ current = NoConn /\ cliOpen = <<>>
    /\ srvOpen = <<>> /\ toServer = <<>> /\ toClient = <<>> /\ serving = <<>>
    /\ failures = 0

runnerOff ==
    /\ posted = <<>> /\ archived = {} /\ events = <<>> /\ repeats = 0
    /\ jobOf = [v \in Conversations |-> NoSession] /\ job = <<>>
    /\ lastSeenSeq = <<>> /\ seqOrder = <<>> /\ due = <<>> /\ loop = <<>>
    /\ retirer = <<>> /\ accepted = <<>>

MCInit ==
    \/ part = "exchange" /\ XInit /\ runnerOff
    \/ part = "runner" /\ ARInit /\ exchangeOff

MCNext ==
    \/ part = "exchange" /\ XNext /\ UNCHANGED <<part, arVars>>
    \/ part = "runner" /\ ARNext /\ UNCHANGED <<part, xvars>>

MCSpec == MCInit /\ [][MCNext]_<<part, xvars, arVars>>

\* Requests, the assistant's connections and senders are interchangeable.
Symmetry == Permutations(Keys) \cup Permutations(Conns) \cup Permutations(Senders)
=============================================================================
