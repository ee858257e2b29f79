---------------------------- MODULE SingleFlight ----------------------------
(***************************************************************************)
(* What a query-coalescing cache promises, whatever it is built from: at   *)
(* any time a key has at most one query on its way, calls that need the    *)
(* key meanwhile join that query instead of starting another, and the      *)
(* answer releases every one of them.  Once either side has gone away no   *)
(* query is started; a call may still join one that was lost with the      *)
(* querying side, and the end of the caching side releases it.             *)
(***************************************************************************)
CONSTANTS Keys, Reqs

VARIABLES
    flight,     \* key -> where its query is
    wait,       \* key -> the calls its answer will release
    open        \* new queries may start

sfVars == <<flight, wait, open>>

Init ==
    /\ flight = [k \in Keys |-> "idle"]
    /\ wait = [k \in Keys |-> {}]
    /\ open = TRUE

\* a call (or a refresh on behalf of nobody) starts the query of an idle key
Ask(k, rs) ==
    /\ open
    /\ flight[k] = "idle"
    /\ flight' = [flight EXCEPT ![k] = "asked"]
    /\ wait' = [wait EXCEPT ![k] = rs]
    /\ UNCHANGED open

Join(k, r) ==
    /\ flight[k] # "idle"
    /\ wait' = [wait EXCEPT ![k] = @ \cup {r}]
    /\ UNCHANGED <<flight, open>>

Send(k) ==
    /\ open
    /\ flight[k] = "asked"
    /\ flight' = [flight EXCEPT ![k] = "sent"]
    /\ UNCHANGED <<wait, open>>

Answer(k) ==
    /\ open
    /\ flight[k] \in {"asked", "sent"}
    /\ flight' = [flight EXCEPT ![k] = "answered"]
    /\ UNCHANGED <<wait, open>>

Deliver(k) ==
    /\ flight[k] = "answered"
    /\ flight' = [flight EXCEPT ![k] = "idle"]
    /\ wait' = [wait EXCEPT ![k] = {}]
    /\ UNCHANGED open

\* The querying side goes away and takes with it what it has not answered ...
Lose ==
    /\ open
    /\ open' = FALSE
    /\ flight' = [k \in Keys |-> IF flight[k] \in {"asked", "sent"} THEN "lost" ELSE flight[k]]
    /\ UNCHANGED wait

\* ... or the caching side does, and releases everybody.
Close ==
    /\ open' = FALSE
    /\ flight' = [k \in Keys |-> "idle"]
    /\ wait' = [k \in Keys |-> {}]

Next ==
    \/ \E k \in Keys :
          \/ Send(k) \/ Answer(k) \/ Deliver(k)
          \/ Ask(k, {})
          \/ \E r \in Reqs : Ask(k, {r}) \/ Join(k, r)
    \/ Lose
    \/ Close

Spec == Init /\ [][Next]_sfVars
=============================================================================
