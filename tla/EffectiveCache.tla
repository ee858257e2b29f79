--------------------------- MODULE EffectiveCache ---------------------------
(***************************************************************************)
(* The effective cache of vey-io-ext (lib/vey-io-ext/src/cache).           *)
(*                                                                         *)
(* Callers hold clones of EffectiveCacheHandle and ask for keys.  One task *)
(* runs EffectiveCacheRuntime: it owns the cache, the table of keys being  *)
(* queried ("doing") and the queue of records to vanish.  A second task    *)
(* owns EffectiveQueryHandle: it receives keys to query, keeps one timeout *)
(* per key and sends the results back.  All three talk over unbounded FIFO *)
(* channels.  Here the query task is any user of EffectiveQueryHandle: a   *)
(* raw answer for any key may arrive at any time.  RouteQuery.tla has the  *)
(* query task of the route_query escaper in full.                          *)
(*                                                                         *)
(* Time is a count of ticks left: a deadline is set to a number of ticks,  *)
(* every tick takes one off, and it has passed when none is left.          *)
(***************************************************************************)
EXTENDS Naturals, Sequences, Functions

CONSTANTS
    Keys,           \* cache keys
    Reqs,           \* calls of EffectiveCacheHandle::do_fetch
    None,           \* the absent value of an Option or of a map entry
    BatchCount,     \* request_batch_handle_count
    Ttls,           \* ttl values of raw answers, in ticks
    ProtectiveTtl,  \* ttl of the empty answer that stands for a failed query
    VanishWait,     \* time a record is kept after it has expired
    QueryWait       \* time to wait for a raw answer

Ticks == Nat
Data == [found : BOOLEAN, exp : Ticks, van : Ticks]
Waiters == (SUBSET Reqs) \cup {None}
ReqState == [st : {"new", "waiting", "some", "none"}, key : Keys, only : BOOLEAN]

ASSUME ConstAssumption ==
    /\ BatchCount \in Nat \ {0}
    /\ Ttls \subseteq Nat
    /\ ProtectiveTtl \in Nat /\ VanishWait \in Nat /\ QueryWait \in Nat
    /\ None \notin Data
    /\ \A rs \in SUBSET Reqs : None # rs
    /\ None \notin Nat

VARIABLES
    req,        \* the callers: state of each do_fetch call
    handles,    \* some EffectiveCacheHandle still exists
    reqCh,      \* callers -> cache runtime
    pc,         \* place in EffectiveCacheRuntime::poll_loop
    batch,      \* requests left of the current batch
    cache,      \* key -> record, None when not cached
    vanish,     \* the DelayQueue of cached keys: ticks left, None when absent
    doing,      \* key -> calls waiting for it, None when not being queried
    queryCh,    \* cache runtime -> query task
    queryUp,    \* the query task runs
    doingCache, \* keys the query task has an unanswered raw query for
    timeoutQ,   \* its DelayQueue: ticks left, None when absent
    rspCh       \* query task -> cache runtime

cacheVars == <<pc, batch, cache, vanish, doing>>
queryVars == <<queryUp, doingCache, timeoutQ>>
vars == <<req, handles, reqCh, pc, batch, cache, vanish, doing, queryCh,
          queryUp, doingCache, timeoutQ, rspCh>>

Running == pc \in {"rsp", "vanish", "req"}

KeysOf(ch) == [i \in DOMAIN ch |-> ch[i].key]
RspKeys == KeysOf(rspCh)

\* EffectiveCacheData::new and ::empty: the record vanishes VanishWait after it expires
NewData(ttl) == [found |-> TRUE, exp |-> ttl, van |-> ttl + VanishWait]
EmptyData(ttl) == [found |-> FALSE, exp |-> ttl, van |-> ttl + VanishWait]

TypeOK ==
    /\ req \in [Reqs -> ReqState]
    /\ handles \in BOOLEAN
    /\ reqCh \in Seq(Reqs)
    /\ pc \in {"rsp", "vanish", "req", "done", "panic"}
    /\ batch \in 0..BatchCount
    /\ cache \in [Keys -> Data \cup {None}]
    /\ vanish \in [Keys -> Ticks \cup {None}]
    /\ doing \in [Keys -> Waiters]
    /\ queryCh \in Seq(Keys)
    /\ queryUp \in BOOLEAN
    /\ doingCache \in SUBSET Keys
    /\ timeoutQ \in [Keys -> Ticks \cup {None}]
    /\ rspCh \in Seq([key : Keys, data : Data])

\* create_effective_cache
Init ==
    /\ req \in [Reqs -> [st : {"new"}, key : Keys, only : BOOLEAN]]
    /\ handles = TRUE
    /\ reqCh = <<>> /\ queryCh = <<>> /\ rspCh = <<>>
    /\ pc = "rsp" /\ batch = 0
    /\ cache = [k \in Keys |-> None]
    /\ vanish = [k \in Keys |-> None]
    /\ doing = [k \in Keys |-> None]
    /\ queryUp = TRUE
    /\ doingCache = {}
    /\ timeoutQ = [k \in Keys |-> None]

-----------------------------------------------------------------------------
(* The callers *)

\* What the calls in rs see when their notifiers are used or dropped: a call
\* that has already given up is past caring.
Settle(rs, st) ==
    [r \in Reqs |-> IF r \in rs /\ req[r].st = "waiting" THEN [req[r] EXCEPT !.st = st]
                                                         ELSE req[r]]

do_fetch(r) ==
    /\ handles
    /\ req[r].st = "new"
    /\ IF Running
         THEN /\ req' = [req EXCEPT ![r].st = "waiting"]
              /\ reqCh' = Append(reqCh, r)
         ELSE /\ req' = [req EXCEPT ![r].st = "none"]
              /\ UNCHANGED reqCh
    /\ UNCHANGED <<handles, cacheVars, queryCh, queryVars, rspCh>>

\* the timeout around the oneshot receiver
FetchTimeout(r) ==
    /\ req[r].st = "waiting"
    /\ req' = Settle({r}, "none")
    /\ UNCHANGED <<handles, reqCh, cacheVars, queryCh, queryVars, rspCh>>

\* the owner of the handles goes away; a call in progress borrows a handle
DropHandles ==
    /\ handles
    /\ \A r \in Reqs : req[r].st # "waiting"
    /\ handles' = FALSE
    /\ UNCHANGED <<req, reqCh, cacheVars, queryCh, queryVars, rspCh>>

-----------------------------------------------------------------------------
(* EffectiveCacheRuntime *)

\* The future completes (or panics) and everything it owns is dropped: the
\* notifiers of queued and waiting calls, except those it has just answered,
\* and its ends of the channels.
CacheStops(how, answered) ==
    /\ pc' = how
    /\ req' = [r \in Reqs |-> IF r \in answered THEN Settle(answered, "some")[r]
                                                ELSE Settle(Reqs, "none")[r]]
    /\ reqCh' = <<>>
    /\ rspCh' = <<>>
    /\ doing' = [k \in Keys |-> None]
    /\ cache' = [k \in Keys |-> None]
    /\ vanish' = [k \in Keys |-> None]
    /\ UNCHANGED <<handles, batch, queryCh, queryVars>>

\* (mutant) the vanish entry of a refreshed record keeps its old deadline
handle_rsp_no_reset ==
    LET k == Head(rspCh).key
        data == Head(rspCh).data
    IN  /\ pc = "rsp"
        /\ rspCh # <<>>
        /\ rspCh' = Tail(rspCh)
        /\ req' = Settle(doing[k], "some")
        /\ doing' = [doing EXCEPT ![k] = None]
        /\ cache' = [cache EXCEPT ![k] = data]
        /\ vanish' = [vanish EXCEPT ![k] = IF @ = None THEN data.van ELSE @]
        /\ UNCHANGED <<handles, reqCh, pc, batch, queryCh, queryVars>>

handle_rsp ==
    LET k == Head(rspCh).key
        data == Head(rspCh).data
    IN  /\ pc = "rsp"
        /\ rspCh # <<>>
        /\ rspCh' = Tail(rspCh)
        /\ IF doing[k] # None
             THEN /\ req' = Settle(doing[k], "some")
                  /\ doing' = [doing EXCEPT ![k] = None]
                  /\ cache' = [cache EXCEPT ![k] = data]
                  /\ vanish' = [vanish EXCEPT ![k] = data.van]
             ELSE UNCHANGED <<req, doing, cache, vanish>>
        /\ UNCHANGED <<handles, reqCh, pc, batch, queryCh, queryVars>>

RspPending ==
    /\ pc = "rsp"
    /\ rspCh = <<>>
    /\ queryUp
    /\ pc' = "vanish"
    /\ UNCHANGED <<req, handles, reqCh, batch, cache, vanish, doing, queryCh, queryVars, rspCh>>

\* "query runtime quit"
RspClosed ==
    /\ pc = "rsp"
    /\ rspCh = <<>>
    /\ ~queryUp
    /\ CacheStops("done", {})

handle_vanish(k) ==
    /\ pc = "vanish"
    /\ vanish[k] = 0
    /\ vanish' = [vanish EXCEPT ![k] = None]
    /\ cache' = [cache EXCEPT ![k] = None]
    /\ UNCHANGED <<req, handles, reqCh, pc, batch, doing, queryCh, queryVars, rspCh>>

VanishPending ==
    /\ pc = "vanish"
    /\ \A k \in Keys : vanish[k] # 0
    /\ pc' = "req"
    /\ batch' = BatchCount
    /\ UNCHANGED <<req, handles, reqCh, cache, vanish, doing, queryCh, queryVars, rspCh>>

\* the for loop over a batch falls back to the outer loop when it is used up
BatchStep ==
    /\ batch' = batch - 1
    /\ pc' = IF batch = 1 THEN "rsp" ELSE "req"

\* send_req(k) for a vacant doing entry that now holds the calls in rs
SendReq(k, rs) ==
    /\ doing' = [doing EXCEPT ![k] = rs]
    /\ queryCh' = Append(queryCh, k)

ReqCacheOnly(r) ==
    /\ req[r].only
    /\ req' = Settle({r}, IF cache[req[r].key] # None THEN "some" ELSE "none")
    /\ UNCHANGED <<doing, queryCh>>
    /\ BatchStep

\* (mutant) the call that triggers a refresh is answered and also left waiting
ReqCached_waits(r) ==
    LET k == req[r].key
    IN  /\ ~req[r].only
        /\ cache[k] # None
        /\ req' = Settle({r}, "some")
        /\ IF cache[k].exp = 0 /\ doing[k] = None
             THEN queryUp /\ SendReq(k, {r})
             ELSE UNCHANGED <<doing, queryCh>>
        /\ BatchStep

ReqCached(r) ==
    LET k == req[r].key
    IN  /\ ~req[r].only
        /\ cache[k] # None
        /\ req' = Settle({r}, "some")
        /\ IF cache[k].exp = 0 /\ doing[k] = None
             THEN queryUp /\ SendReq(k, {})
             ELSE UNCHANGED <<doing, queryCh>>
        /\ BatchStep

\* (mutant) a second call for a key being queried sends the query again
ReqQuery_resend(r) ==
    LET k == req[r].key
    IN  /\ ~req[r].only
        /\ cache[k] = None
        /\ queryUp
        /\ SendReq(k, (IF doing[k] = None THEN {} ELSE doing[k]) \cup {r})
        /\ UNCHANGED req
        /\ BatchStep

\* (mutant) a second call for a key being queried is not kept
ReqQuery_forget(r) ==
    LET k == req[r].key
    IN  /\ ~req[r].only
        /\ cache[k] = None
        /\ IF doing[k] = None
             THEN queryUp /\ SendReq(k, {r})
             ELSE UNCHANGED <<doing, queryCh>>
        /\ UNCHANGED req
        /\ BatchStep

ReqQuery(r) ==
    LET k == req[r].key
    IN  /\ ~req[r].only
        /\ cache[k] = None
        /\ IF doing[k] = None
             THEN queryUp /\ SendReq(k, {r})
             ELSE doing' = [doing EXCEPT ![k] = @ \cup {r}] /\ UNCHANGED queryCh
        /\ UNCHANGED req
        /\ BatchStep

handle_req ==
    /\ pc = "req"
    /\ reqCh # <<>>
    /\ reqCh' = Tail(reqCh)
    /\ \/ ReqCacheOnly(Head(reqCh))
       \/ ReqCached(Head(reqCh))
       \/ ReqQuery(Head(reqCh))
    /\ UNCHANGED <<handles, cache, vanish, queryVars, rspCh>>

\* handle_req reaches send_req after the query task has dropped its receiver
SendReqUnreachable ==
    LET r == Head(reqCh)
        k == req[r].key
    IN  /\ pc = "req"
        /\ reqCh # <<>>
        /\ ~queryUp
        /\ ~req[r].only
        /\ doing[k] = None
        /\ cache[k] # None => cache[k].exp = 0
        /\ CacheStops("panic", IF cache[k] # None THEN {r} ELSE {})

\* poll_loop returns Pending; the next poll starts over
ReqPending ==
    /\ pc = "req"
    /\ reqCh = <<>>
    /\ handles
    /\ pc' = "rsp"
    /\ UNCHANGED <<req, handles, reqCh, batch, cache, vanish, doing, queryCh, queryVars, rspCh>>

\* (mutant) the end of the request channel is taken for an empty channel
ReqClosed_pending ==
    /\ pc = "req"
    /\ reqCh = <<>>
    /\ ~handles
    /\ pc' = "rsp"
    /\ UNCHANGED <<req, handles, reqCh, batch, cache, vanish, doing, queryCh, queryVars, rspCh>>

ReqClosed ==
    /\ pc = "req"
    /\ reqCh = <<>>
    /\ ~handles
    /\ CacheStops("done", {})

poll_loop ==
    \/ handle_rsp \/ RspPending \/ RspClosed
    \/ (\E k \in Keys : handle_vanish(k)) \/ VanishPending
    \/ handle_req \/ SendReqUnreachable \/ ReqPending \/ ReqClosed

-----------------------------------------------------------------------------
(* EffectiveQueryHandle and the task that owns it *)

\* Result of sending on rspCh: lost when the cache runtime has dropped its end.
SendRsp(k, data) ==
    rspCh' = IF Running THEN Append(rspCh, [key |-> k, data |-> data]) ELSE rspCh

\* (mutant) an answer is passed on whether or not the key is being queried
send_rsp_data_always(k, data) ==
    /\ doingCache' = doingCache \ {k}
    /\ timeoutQ' = [timeoutQ EXCEPT ![k] = None]
    /\ SendRsp(k, data)

send_rsp_data(k, data) ==
    IF k \in doingCache
      THEN /\ doingCache' = doingCache \ {k}
           /\ timeoutQ' = [timeoutQ EXCEPT ![k] = None]
           /\ SendRsp(k, data)
      ELSE UNCHANGED <<doingCache, timeoutQ, rspCh>>

should_send_raw_query(k) ==
    IF k \in doingCache
      THEN UNCHANGED <<doingCache, timeoutQ>>
      ELSE /\ doingCache' = doingCache \cup {k}
           /\ timeoutQ' = [timeoutQ EXCEPT ![k] = QueryWait]

\* a key to query is taken from the channel
QueryReq ==
    /\ queryUp
    /\ queryCh # <<>>
    /\ queryCh' = Tail(queryCh)
    /\ should_send_raw_query(Head(queryCh))
    /\ UNCHANGED <<req, handles, reqCh, cacheVars, queryUp, rspCh>>

\* ... and answered at once, because the raw query cannot be encoded
QueryReqFail ==
    LET k == Head(queryCh)
    IN  /\ queryUp
        /\ queryCh # <<>>
        /\ k \notin doingCache
        /\ queryCh' = Tail(queryCh)
        /\ SendRsp(k, EmptyData(ProtectiveTtl))
        /\ UNCHANGED <<req, handles, reqCh, cacheVars, queryVars>>

\* a raw answer arrives, or a raw query cannot be sent
QueryRsp(k, data) ==
    /\ queryUp
    /\ send_rsp_data(k, data)
    /\ UNCHANGED <<req, handles, reqCh, cacheVars, queryCh, queryUp>>

\* (mutant) a query that times out is forgotten without an answer
QueryExpired_silent(k) ==
    /\ queryUp
    /\ timeoutQ[k] = 0
    /\ timeoutQ' = [timeoutQ EXCEPT ![k] = None]
    /\ doingCache' = doingCache \ {k}
    /\ UNCHANGED <<req, handles, reqCh, cacheVars, queryCh, queryUp, rspCh>>

\* poll_query_expired returns k, whose entry has then left the DelayQueue
QueryExpired(k) ==
    /\ queryUp
    /\ timeoutQ[k] = 0
    /\ timeoutQ' = [timeoutQ EXCEPT ![k] = None]
    /\ IF k \in doingCache
         THEN doingCache' = doingCache \ {k} /\ SendRsp(k, EmptyData(ProtectiveTtl))
         ELSE UNCHANGED <<doingCache, rspCh>>
    /\ UNCHANGED <<req, handles, reqCh, cacheVars, queryCh, queryUp>>

\* the query task ends: its DelayQueue, its table and its channel ends are dropped
QueryStops ==
    /\ queryUp' = FALSE
    /\ queryCh' = <<>>
    /\ doingCache' = {}
    /\ timeoutQ' = [k \in Keys |-> None]
    /\ UNCHANGED <<req, handles, reqCh, cacheVars, rspCh>>

\* poll_recv_req returns None
QueryClosed == queryUp /\ queryCh = <<>> /\ ~Running /\ QueryStops

\* the socket reports an error on receive
QuerySocketError == queryUp /\ QueryStops

-----------------------------------------------------------------------------
\* One tick of the clock, for every deadline there is.
Less(n) == IF n \in Nat /\ n > 0 THEN n - 1 ELSE n
Older(d) == IF d = None THEN None ELSE [d EXCEPT !.exp = Less(@), !.van = Less(@)]

Tick ==
    /\ cache' = [k \in Keys |-> Older(cache[k])]
    /\ vanish' = [k \in Keys |-> Less(vanish[k])]
    /\ timeoutQ' = [k \in Keys |-> Less(timeoutQ[k])]
    /\ rspCh' = [i \in DOMAIN rspCh |-> [rspCh[i] EXCEPT !.data = Older(@)]]
    /\ UNCHANGED <<req, handles, reqCh, pc, batch, doing, queryCh, queryUp, doingCache>>

Answers == {NewData(ttl) : ttl \in Ttls} \cup {EmptyData(ttl) : ttl \in Ttls \cup {ProtectiveTtl}}

Next ==
    \/ \E r \in Reqs : do_fetch(r) \/ FetchTimeout(r)
    \/ DropHandles
    \/ poll_loop
    \/ QueryReq \/ QueryReqFail \/ QueryClosed \/ QuerySocketError
    \/ \E k \in Keys : QueryExpired(k) \/ \E data \in Answers : QueryRsp(k, data)
    \/ Tick

Spec == Init /\ [][Next]_vars

\* Both tasks are polled again whenever they have something to do, and time
\* passes.  Nothing is assumed of callers, of raw answers or of the socket.
FairSpec ==
    /\ Spec
    /\ WF_vars(poll_loop)
    /\ WF_vars(QueryReq \/ QueryReqFail)
    /\ WF_vars(QueryClosed)
    /\ \A k \in Keys : WF_vars(QueryExpired(k))
    /\ WF_vars(Tick)

-----------------------------------------------------------------------------
(* Properties *)

\* The DelayQueues agree with the tables that hold their keys: a record's entry
\* is due exactly when the record's own vanish_at is, and a raw query has an
\* entry for as long as it is unanswered (removing a key that is not in a
\* DelayQueue panics; an entry left behind fires for somebody else's query).
TimersTrack ==
    /\ \A k \in Keys : vanish[k] = IF cache[k] = None THEN None ELSE cache[k].van
    /\ \A k \in Keys : k \in doingCache <=> timeoutQ[k] # None

\* Every key the cache runtime holds calls for is in exactly one place: queued to
\* the query task, being queried, or answered and queued back.  A key that were
\* in none would be stuck in "doing" for ever, as no later call sends it again.
InFlightOnce ==
    Running =>
      /\ IsInjective(queryCh) /\ IsInjective(RspKeys)
      /\ Range(queryCh) \cap doingCache = {}
      /\ Range(queryCh) \cap Range(RspKeys) = {}
      /\ doingCache \cap Range(RspKeys) = {}
      /\ LET inFlight == Range(queryCh) \cup doingCache \cup Range(RspKeys)
             pending == {k \in Keys : doing[k] # None}
         IN  inFlight \subseteq pending /\ (queryUp => pending = inFlight)

\* A call whose caller still waits is held somewhere that will answer it: in the
\* request channel or with the waiters of its own key, never with another key's.
NoLostCall ==
    /\ \A r \in Reqs : req[r].st = "waiting" =>
          r \in Range(reqCh) \/ (doing[req[r].key] # None /\ r \in doing[req[r].key])
    /\ \A k \in Keys : doing[k] # None =>
          \A r \in doing[k] : req[r].key = k /\ ~req[r].only

\* Nobody waits for a key that is cached: a cached record, expired or not, is
\* answered at once, and an answer that fills the cache leaves no waiter behind.
WaitOnlyUncached ==
    \A k \in Keys : doing[k] # None /\ doing[k] # {} => cache[k] = None

\* A running cache drops a record only after the vanish time of its latest
\* answer, so that a refresh always extends the life of what it refreshed.
RecordKept ==
    [][\A k \in Keys : cache[k] # None /\ cache'[k] = None /\ Running'
                         => cache[k].van = 0]_vars

\* The cache is a single-flight service: see SingleFlight.tla.
Flight(k) ==
    CASE ~Running -> "idle"
      [] Running /\ k \in Range(RspKeys) -> "answered"
      [] Running /\ k \in doingCache -> "sent"
      [] Running /\ k \in Range(queryCh) -> "asked"
      [] OTHER -> IF doing[k] # None THEN "lost" ELSE "idle"

SF == INSTANCE SingleFlight WITH
        flight <- [k \in Keys |-> Flight(k)],
        wait <- [k \in Keys |-> IF doing[k] = None THEN {} ELSE doing[k]],
        open <- Running /\ queryUp

\* The detailed runtime and query handle implement the single-flight service.
ImplementsSingleFlight == SF!Spec

\* Every call comes back by itself, with an answer or with a dropped notifier,
\* even if its caller would wait for ever and no raw answer ever arrives.
EveryCallSettles == \A r \in Reqs : req[r].st = "waiting" ~> req[r].st # "waiting"

\* When the last handle is dropped both tasks end, whatever is still in flight.
TasksEnd == ~handles ~> ~Running /\ ~queryUp

\* "the query runtime should not close before the cache runtime": the
\* unreachable!() in send_req is never executed.
SendReqNeverFails == pc # "panic"
=============================================================================
