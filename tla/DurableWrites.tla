--------------------------- MODULE DurableWrites ---------------------------
(***************************************************************************)
(* What the Firestore client promises about the writes an app makes: each  *)
(* user's writes are kept in order, and the server first decides on them   *)
(* in that order, each perhaps more than once.  The app is told that a     *)
(* write succeeded only once it is applied.                                *)
(***************************************************************************)
EXTENDS Naturals, Sequences

CONSTANTS Users, Calls

VARIABLES
    ledger,     \* the calls each user's queue has been given, in order
    applied,    \* the calls the server has applied
    refused,    \* the calls the server has refused
    told        \* what the app has been told of each call

vars == <<ledger, applied, refused, told>>

Decided(c) == c \in applied \union refused

Init ==
    /\ ledger = [u \in Users |-> << >>]
    /\ applied = {} /\ refused = {}
    /\ told = [c \in Calls |-> "nothing"]

Accept(u, c) ==
    /\ \A v \in Users : \A i \in DOMAIN ledger[v] : ledger[v][i] # c
    /\ ledger' = [ledger EXCEPT ![u] = Append(@, c)]
    /\ UNCHANGED <<applied, refused, told>>

\* The server decides on the i-th call of u, all earlier ones being decided.
Decide(u, i) ==
    /\ \A j \in 1 .. i - 1 : Decided(ledger[u][j])
    /\ \/ applied' = applied \union {ledger[u][i]} /\ UNCHANGED refused
       \/ refused' = refused \union {ledger[u][i]} /\ UNCHANGED applied
    /\ UNCHANGED <<ledger, told>>

\* The app is told of a call once.
Tell(c) ==
    /\ told[c] = "nothing" /\ Decided(c)
    /\ \/ c \in applied /\ told' = [told EXCEPT ![c] = "ok"]
       \/ told' = [told EXCEPT ![c] = "failed"]
    /\ UNCHANGED <<ledger, applied, refused>>

Next ==
    \/ \E u \in Users :
        \/ \E c \in Calls : Accept(u, c)
        \/ \E i \in DOMAIN ledger[u] : Decide(u, i)
    \/ \E c \in Calls : Tell(c)

Spec == Init /\ [][Next]_vars
=============================================================================
