----------------------------- MODULE SharedCall -----------------------------
(***************************************************************************)
(* What single_flight.py promises ("jedno wykonanie na klucz,              *)
(* wspoldzielone przez wszystkich rownoczesnych"): a caller is served by   *)
(* one execution for its key, of which there is one at a time, that had    *)
(* not ended when the caller came; it gets the outcome of that execution,  *)
(* a result or an error.                                                   *)
(***************************************************************************)
CONSTANTS Callers, Keys, Outcomes, Executions, NoKey, NoExecution, Pending

VARIABLES
    wants,    \* the key a caller asks for
    server,   \* the execution that serves it
    exec,     \* the executions: key and outcome
    got       \* the last outcome a caller was given

vars == <<wants, server, exec, got>>

Init ==
    /\ wants = [c \in Callers |-> NoKey]
    /\ server = [c \in Callers |-> NoExecution]
    /\ exec = [e \in Executions |-> [key |-> NoKey, outcome |-> Pending]]
    /\ got = [c \in Callers |-> Pending]

InFlight(e, k) == exec[e].key = k /\ exec[e].outcome = Pending

Ask(c, k) ==
    /\ wants[c] = NoKey
    /\ wants' = [wants EXCEPT ![c] = k]
    /\ UNCHANGED <<server, exec, got>>

Begin(c, e) ==
    /\ wants[c] # NoKey /\ server[c] = NoExecution
    /\ exec[e].key = NoKey
    /\ \A f \in Executions : ~InFlight(f, wants[c])
    /\ exec' = [exec EXCEPT ![e] = [key |-> wants[c], outcome |-> Pending]]
    /\ server' = [server EXCEPT ![c] = e]
    /\ UNCHANGED <<wants, got>>

Join(c, e) ==
    /\ wants[c] # NoKey /\ server[c] = NoExecution
    /\ InFlight(e, wants[c])
    /\ server' = [server EXCEPT ![c] = e]
    /\ UNCHANGED <<wants, exec, got>>

End(e, o) ==
    /\ exec[e].key # NoKey /\ exec[e].outcome = Pending
    /\ exec' = [exec EXCEPT ![e].outcome = o]
    /\ UNCHANGED <<wants, server, got>>

Return(c) ==
    /\ server[c] # NoExecution
    /\ exec[server[c]].outcome # Pending
    /\ got' = [got EXCEPT ![c] = exec[server[c]].outcome]
    /\ wants' = [wants EXCEPT ![c] = NoKey]
    /\ server' = [server EXCEPT ![c] = NoExecution]
    /\ UNCHANGED exec

Next ==
    \/ \E c \in Callers :
        \/ \E k \in Keys : Ask(c, k)
        \/ \E e \in Executions : Begin(c, e) \/ Join(c, e)
        \/ Return(c)
    \/ \E e \in Executions, o \in Outcomes : End(e, o)

Spec == Init /\ [][Next]_vars
=============================================================================
