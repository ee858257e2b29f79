------------------------------ MODULE Resolver ------------------------------
(***************************************************************************)
(* The caching resolver thread of vey-resolver (lib/vey-resolver/src).     *)
(*                                                                         *)
(* Handles send requests over an unbounded channel to ResolverRuntime, a   *)
(* future on a thread of its own.  It keeps a cache, a trash of expired    *)
(* records that may still be served, and the table of names being queried. *)
(* A driver query is a spawned task that sends back exactly one response.  *)
(* The owner sends Update and Quit over a control channel and joins the    *)
(* thread.  A and AAAA have tables of their own: a key is a query type     *)
(* with a domain.                                                          *)
(*                                                                         *)
(* The runtime is polled only when one of the wakers it registered has     *)
(* been woken; a channel registers it when polled and found empty, and     *)
(* wakes it once.  Deadlines are counts of ticks left.                     *)
(***************************************************************************)
EXTENDS Naturals, Sequences

CONSTANTS
    Keys,           \* query type and domain
    Reqs,           \* calls of get_v4 and get_v6
    None,           \* the absent value
    BatchCount,     \* batch_request_count
    RawTtls,        \* ttl values in answers
    MinTtl, MaxTtl, \* positive_min_ttl, positive_max_ttl
    NegativeTtl,    \* negative_ttl: of negative answers without one, and errors
    MaxUpdates      \* bound: configuration updates

VARIABLES
    req,        \* the calls
    reqCh,      \* calls -> runtime
    ctlCh,      \* owner -> runtime
    rspCh,      \* driver tasks -> runtime
    flying,     \* driver tasks running for each key
    pc,         \* place in poll_loop, "parked" between polls, "end" after it
    batch,      \* requests left of the current batch
    cache,      \* key -> record
    expired,    \* the DelayQueue: key -> ticks left
    doing,      \* key -> waiting calls, None when not being queried
    trash,      \* key -> record
    woken,      \* the task is scheduled to be polled
    wakers,     \* sources that hold the task's waker
    owner,      \* the Resolver object: "up", "joining" or "joined"
    updates     \* updates sent so far

pollVars == <<cache, expired, doing, trash>>
vars == <<req, reqCh, ctlCh, rspCh, flying, pc, batch, cache, expired, doing,
          trash, woken, wakers, owner, updates>>

Sources == {"ctl", "req", "rsp", "exp"}
Entry == [kind : {"ok", "notfound", "fail"}, van : Nat \cup {None}]
Record == [kind : {"ok", "notfound", "fail"}, exp : Nat, van : Nat \cup {None}]

ASSUME ResolverConstAssumption ==
    /\ BatchCount \in Nat \ {0}
    /\ RawTtls \subseteq Nat /\ NegativeTtl \in Nat
    /\ MinTtl \in Nat /\ MaxTtl \in Nat /\ MinTtl <= MaxTtl
    /\ MaxUpdates \in Nat
    /\ None \notin Nat \cup Entry /\ \A rs \in SUBSET Reqs : None # rs

(* ResolvedRecord::resolved: when to refresh and when to forget an answer. *)
\* (mutant) the ttl is not capped
resolved_uncapped(ttl) ==
    [kind |-> "ok", van |-> ttl, exp |-> IF ttl > MinTtl + MinTtl THEN ttl - MinTtl ELSE MinTtl]

resolved(ttl) ==
    LET times == CASE ttl > MaxTtl + MinTtl -> <<MaxTtl, ttl>>
                   [] ttl > MinTtl + MinTtl /\ ttl <= MaxTtl + MinTtl -> <<ttl - MinTtl, ttl>>
                   [] ttl > MinTtl /\ ttl <= MinTtl + MinTtl -> <<MinTtl, ttl>>
                   [] ttl <= MinTtl -> <<MinTtl, MinTtl + 1>>
    IN  [kind |-> "ok", exp |-> times[1], van |-> times[2]]

(* ResolvedRecord::empty and failed: as long as the server says, with no   *)
(* limit, or else as long as the configuration says.                       *)
negative(kind, ttl) == [kind |-> kind, exp |-> ttl, van |-> None]

Answers ==
    {resolved(ttl) : ttl \in RawTtls}
        \cup {negative(kind, ttl) : kind \in {"notfound", "fail"}, ttl \in RawTtls \cup {NegativeTtl}}

is_acceptable(rec) == rec.kind # "fail"

Alive == pc # "end"

TypeOK ==
    /\ req \in [Reqs -> [st : {"new", "waiting", "ok", "notfound", "fail", "gone"}, key : Keys \cup {None}]]
    /\ reqCh \in Seq(Reqs) /\ ctlCh \in Seq({"Update", "Quit"})
    /\ rspCh \in Seq([key : Keys, rec : Record])
    /\ flying \in [Keys -> Nat]
    /\ pc \in {"init", "parked", "ctl", "rsp", "exp", "req", "end"}
    /\ batch \in 0..BatchCount
    /\ cache \in [Keys -> Entry \cup {None}]
    /\ expired \in [Keys -> Nat \cup {None}]
    /\ doing \in [Keys -> (SUBSET Reqs) \cup {None}]
    /\ trash \in [Keys -> Entry \cup {None}]
    /\ woken \in BOOLEAN /\ wakers \subseteq Sources
    /\ owner \in {"up", "joining", "joined"} /\ updates \in 0..MaxUpdates

Init ==
    /\ req = [r \in Reqs |-> [st |-> "new", key |-> None]]
    /\ reqCh = <<>> /\ ctlCh = <<>> /\ rspCh = <<>>
    /\ flying = [k \in Keys |-> 0]
    /\ pc = "init" /\ batch = 0
    /\ cache = [k \in Keys |-> None] /\ expired = [k \in Keys |-> None]
    /\ doing = [k \in Keys |-> None] /\ trash = [k \in Keys |-> None]
    /\ woken = FALSE /\ wakers = {}
    /\ owner = "up" /\ updates = 0

---------------------------------------------------------------------------
(* A send wakes the runtime if the channel holds its waker. *)
WakeBy(source) ==
    /\ woken' = (woken \/ source \in wakers)
    /\ wakers' = wakers \ {source}

(* ResolverHandle::get_v4 and get_v6. *)
Get(r, k) ==
    /\ req[r].st = "new"
    /\ \/ /\ Alive
          /\ req' = [req EXCEPT ![r] = [st |-> "waiting", key |-> k]]
          /\ reqCh' = Append(reqCh, r) /\ WakeBy("req")
       \/ /\ ~Alive
          /\ req' = [req EXCEPT ![r] = [st |-> "gone", key |-> k]]
          /\ UNCHANGED <<reqCh, woken, wakers>>
    /\ UNCHANGED <<ctlCh, rspCh, flying, pc, batch, pollVars, owner, updates>>

(* A driver task ends: an answer, an error or its protective timeout. *)
DriverAnswer(k) ==
    /\ Alive /\ flying[k] > 0
    /\ flying' = [flying EXCEPT ![k] = @ - 1]
    /\ \E rec \in Answers : rspCh' = Append(rspCh, [key |-> k, rec |-> rec])
    /\ WakeBy("rsp")
    /\ UNCHANGED <<req, reqCh, ctlCh, pc, batch, pollVars, owner, updates>>

(* Resolver::update_config with a changed configuration of the same name. *)
UpdateConfig ==
    /\ owner = "up" /\ updates < MaxUpdates /\ Alive
    /\ updates' = updates + 1
    /\ ctlCh' = Append(ctlCh, "Update") /\ WakeBy("ctl")
    /\ UNCHANGED <<req, reqCh, rspCh, flying, pc, batch, pollVars, owner>>

(* Resolver::shutdown and drop: stop, then wait for the thread. *)
Shutdown ==
    /\ owner = "up" /\ owner' = "joining"
    /\ IF Alive THEN ctlCh' = Append(ctlCh, "Quit") /\ WakeBy("ctl")
                ELSE UNCHANGED <<ctlCh, woken, wakers>>
    /\ UNCHANGED <<req, reqCh, rspCh, flying, pc, batch, pollVars, updates>>

Joined ==
    /\ owner = "joining" /\ ~Alive /\ owner' = "joined"
    /\ UNCHANGED <<req, reqCh, ctlCh, rspCh, flying, pc, batch, pollVars, woken, wakers, updates>>

LessOne(n) == IF n = None \/ n = 0 THEN n ELSE n - 1
Older(entry) == IF entry = None THEN None ELSE [entry EXCEPT !.van = LessOne(@)]
OlderRecord(rec) == [rec EXCEPT !.exp = LessOne(@), !.van = LessOne(@)]

Tick ==
    /\ Alive
    /\ expired' = [k \in Keys |-> LessOne(expired[k])]
    /\ cache' = [k \in Keys |-> Older(cache[k])]
    /\ trash' = [k \in Keys |-> Older(trash[k])]
    /\ rspCh' = [i \in DOMAIN rspCh |-> [rspCh[i] EXCEPT !.rec = OlderRecord(@)]]
    /\ IF \E k \in Keys : expired'[k] = 0 THEN WakeBy("exp") ELSE UNCHANGED <<woken, wakers>>
    /\ UNCHANGED <<req, reqCh, ctlCh, flying, pc, batch, doing, owner, updates>>
---------------------------------------------------------------------------
(* ResolverRuntime::poll_loop. *)

(* The calls in rs get their result. *)
Reply(rs, result) ==
    req' = [r \in Reqs |-> IF r \in rs THEN [req[r] EXCEPT !.st = result] ELSE req[r]]

Waiting(k) == IF doing[k] = None THEN {} ELSE doing[k]

(* The future is done: both receivers and all tables are dropped. *)
End ==
    /\ pc' = "end"
    /\ Reply({r \in Reqs : req[r].st = "waiting"}, "gone")
    /\ reqCh' = <<>> /\ ctlCh' = <<>> /\ rspCh' = <<>>
    /\ flying' = [k \in Keys |-> 0]
    /\ cache' = [k \in Keys |-> None] /\ expired' = [k \in Keys |-> None]
    /\ doing' = [k \in Keys |-> None] /\ trash' = [k \in Keys |-> None]
    /\ batch' = 0 /\ woken' = FALSE /\ wakers' = {}
    /\ UNCHANGED <<owner, updates>>

(* The first poll spawns the driver. *)
FirstPoll ==
    /\ pc = "init" /\ pc' = "ctl"
    /\ UNCHANGED <<req, reqCh, ctlCh, rspCh, flying, batch, pollVars, woken, wakers, owner, updates>>

FirstPollFails == pc = "init" /\ End

clean_trash ==
    trash' = [k \in Keys |-> IF trash[k] # None /\ trash[k].van = 0 THEN None ELSE trash[k]]

Poll ==
    /\ pc = "parked" /\ woken
    /\ woken' = FALSE /\ pc' = "ctl"
    /\ clean_trash
    /\ UNCHANGED <<req, reqCh, ctlCh, rspCh, flying, batch, cache, expired, doing, wakers, owner, updates>>

(* A source found empty keeps the waker, and poll_loop goes on at next. *)
Empty(source, next) ==
    /\ wakers' = wakers \cup {source} /\ pc' = next
    /\ UNCHANGED <<req, reqCh, ctlCh, rspCh, flying, batch, pollVars, woken, owner, updates>>

\* (mutant) no waker is left on the control channel
PollCtl_no_waker ==
    /\ pc = "ctl"
    /\ \/ /\ ctlCh = <<>> /\ pc' = "rsp"
          /\ UNCHANGED <<req, reqCh, ctlCh, rspCh, flying, batch, pollVars, woken, wakers, owner, updates>>
       \/ ctlCh # <<>> /\ End

(* One command; handle_cmd replaces the driver or keeps the old one.  The  *)
(* new configuration sets the batch size and the limits of the driver,     *)
(* which a change would leave within their constants' range.               *)
PollCtl ==
    /\ pc = "ctl"
    /\ \/ ctlCh = <<>> /\ Empty("ctl", "rsp")
       \/ ctlCh # <<>> /\ Head(ctlCh) = "Quit" /\ End
       \/ /\ ctlCh # <<>> /\ Head(ctlCh) = "Update"
          /\ ctlCh' = Tail(ctlCh) /\ pc' = "rsp"
          /\ UNCHANGED <<req, reqCh, rspCh, flying, batch, pollVars, woken, wakers, owner, updates>>

update_cache(k, rec) ==
    /\ cache' = [cache EXCEPT ![k] = [kind |-> rec.kind, van |-> rec.van]]
    /\ expired' = [expired EXCEPT ![k] = rec.exp]

\* (mutant) a fresh record leaves the stale one in the trash
handle_rsp_keeps_trash(k, rec) ==
    /\ Reply(Waiting(k), rec.kind)
    /\ doing' = [doing EXCEPT ![k] = None]
    /\ update_cache(k, rec)
    /\ UNCHANGED trash

\* (mutant) failures are answered without looking at the trash
handle_rsp_ignores_trash(k, rec) ==
    /\ doing' = [doing EXCEPT ![k] = None]
    /\ Reply(Waiting(k), rec.kind)
    /\ trash' = IF is_acceptable(rec) THEN [trash EXCEPT ![k] = None] ELSE trash
    /\ update_cache(k, rec)

handle_rsp(k, rec) ==
    /\ doing' = [doing EXCEPT ![k] = None]
    /\ IF ~is_acceptable(rec) /\ trash[k] # None
         THEN Reply(Waiting(k), trash[k].kind) /\ UNCHANGED <<trash, cache, expired>>
         ELSE /\ Reply(Waiting(k), rec.kind)
              /\ trash' = IF is_acceptable(rec) THEN [trash EXCEPT ![k] = None] ELSE trash
              /\ update_cache(k, rec)

PollRsp ==
    /\ pc = "rsp"
    /\ \/ rspCh = <<>> /\ Empty("rsp", "exp")
       \/ /\ rspCh # <<>> /\ rspCh' = Tail(rspCh)
          /\ handle_rsp(Head(rspCh).key, Head(rspCh).rec)
          /\ UNCHANGED <<reqCh, ctlCh, flying, pc, batch, woken, wakers, owner, updates>>

handle_expired(k) ==
    /\ expired' = [expired EXCEPT ![k] = None]
    /\ cache' = [cache EXCEPT ![k] = None]
    /\ trash' = IF cache[k] # None /\ cache[k].van # None THEN [trash EXCEPT ![k] = cache[k]] ELSE trash

(* poll_expired registers the waker only when some entry is left. *)
PollExpired ==
    /\ pc = "exp"
    /\ \/ /\ \A k \in Keys : expired[k] # 0
          /\ pc' = "req" /\ batch' = BatchCount
          /\ wakers' = IF \E k \in Keys : expired[k] # None THEN wakers \cup {"exp"} ELSE wakers
          /\ UNCHANGED <<req, reqCh, ctlCh, rspCh, flying, pollVars, woken, owner, updates>>
       \/ \E k \in Keys :
          /\ expired[k] = 0 /\ handle_expired(k)
          /\ UNCHANGED <<req, reqCh, ctlCh, rspCh, flying, pc, batch, doing, woken, wakers, owner, updates>>

query(k) == flying' = [flying EXCEPT ![k] = @ + 1]

\* (mutant) a request served from the trash queries a name in doing again
handle_req_requeries(r) ==
    LET k == req[r].key
    IN  \/ cache[k] # None /\ Reply({r}, cache[k].kind) /\ UNCHANGED <<doing, flying>>
        \/ /\ cache[k] = None /\ trash[k] # None
           /\ Reply({r}, trash[k].kind)
           /\ doing' = [doing EXCEPT ![k] = Waiting(k)] /\ query(k)
        \/ /\ cache[k] = None /\ trash[k] = None
           /\ doing' = [doing EXCEPT ![k] = Waiting(k) \cup {r}]
           /\ IF doing[k] = None THEN query(k) ELSE UNCHANGED flying
           /\ UNCHANGED req

\* (mutant) a request served from the trash enters doing without a query
handle_req_no_refresh(r) ==
    LET k == req[r].key
    IN  \/ cache[k] # None /\ Reply({r}, cache[k].kind) /\ UNCHANGED <<doing, flying>>
        \/ /\ cache[k] = None /\ trash[k] # None
           /\ Reply({r}, trash[k].kind)
           /\ doing' = [doing EXCEPT ![k] = Waiting(k)] /\ UNCHANGED flying
        \/ /\ cache[k] = None /\ trash[k] = None
           /\ doing' = [doing EXCEPT ![k] = Waiting(k) \cup {r}]
           /\ IF doing[k] = None THEN query(k) ELSE UNCHANGED flying
           /\ UNCHANGED req

\* (mutant) a request takes the place of those that wait already
handle_req_replaces(r) ==
    LET k == req[r].key
    IN  \/ cache[k] # None /\ Reply({r}, cache[k].kind) /\ UNCHANGED <<doing, flying>>
        \/ /\ cache[k] = None /\ trash[k] # None
           /\ Reply({r}, trash[k].kind)
           /\ IF doing[k] = None THEN doing' = [doing EXCEPT ![k] = {}] /\ query(k)
                                 ELSE UNCHANGED <<doing, flying>>
        \/ /\ cache[k] = None /\ trash[k] = None
           /\ doing' = [doing EXCEPT ![k] = {r}]
           /\ IF doing[k] = None THEN query(k) ELSE UNCHANGED flying
           /\ UNCHANGED req

(* The three cases of handle_req: cached, in the trash, to be queried. *)
handle_req(r) ==
    LET k == req[r].key
    IN  \/ /\ cache[k] # None
           /\ Reply({r}, cache[k].kind)
           /\ UNCHANGED <<doing, flying>>
        \/ /\ cache[k] = None /\ trash[k] # None
           /\ Reply({r}, trash[k].kind)
           /\ IF doing[k] = None THEN doing' = [doing EXCEPT ![k] = {}] /\ query(k)
                                 ELSE UNCHANGED <<doing, flying>>
        \/ /\ cache[k] = None /\ trash[k] = None
           /\ doing' = [doing EXCEPT ![k] = Waiting(k) \cup {r}]
           /\ IF doing[k] = None THEN query(k) ELSE UNCHANGED flying
           /\ UNCHANGED req

\* (mutant) the poll ends with the batch
PollReq_parks ==
    /\ pc = "req"
    /\ \/ batch > 0 /\ reqCh = <<>> /\ Empty("req", "parked")
       \/ /\ batch > 0 /\ reqCh # <<>>
          /\ reqCh' = Tail(reqCh) /\ batch' = batch - 1
          /\ handle_req(Head(reqCh))
          /\ UNCHANGED <<ctlCh, rspCh, pc, cache, expired, trash, woken, wakers, owner, updates>>
       \/ /\ batch = 0 /\ pc' = "parked"
          /\ UNCHANGED <<req, reqCh, ctlCh, rspCh, flying, batch, pollVars, woken, wakers, owner, updates>>

PollReq ==
    /\ pc = "req"
    /\ \/ batch > 0 /\ reqCh = <<>> /\ Empty("req", "parked")
       \/ /\ batch > 0 /\ reqCh # <<>>
          /\ reqCh' = Tail(reqCh) /\ batch' = batch - 1
          /\ handle_req(Head(reqCh))
          /\ UNCHANGED <<ctlCh, rspCh, pc, cache, expired, trash, woken, wakers, owner, updates>>
       \/ /\ batch = 0 /\ pc' = "ctl"
          /\ UNCHANGED <<req, reqCh, ctlCh, rspCh, flying, batch, pollVars, woken, wakers, owner, updates>>

---------------------------------------------------------------------------
Runtime == FirstPoll \/ FirstPollFails \/ Poll \/ PollCtl \/ PollRsp \/ PollExpired \/ PollReq

Next ==
    \/ \E r \in Reqs, k \in Keys : Get(r, k)
    \/ \E k \in Keys : DriverAnswer(k)
    \/ UpdateConfig \/ Shutdown \/ Joined \/ Tick \/ Runtime

Spec == Init /\ [][Next]_vars

Fairness ==
    /\ WF_vars(Runtime) /\ WF_vars(Tick) /\ WF_vars(Joined)
    /\ \A k \in Keys : WF_vars(DriverAnswer(k))

FairSpec == Spec /\ Fairness

---------------------------------------------------------------------------
(* A key in the doing table has exactly one driver query on its way or one *)
(* response not yet handled, and no other key has any: queries are neither *)
(* doubled nor forgotten (handle_req, handle_rsp, the trash's refresh).    *)
OneQueryPerKey ==
    Alive =>
      /\ \A i, j \in DOMAIN rspCh : rspCh[i].key = rspCh[j].key => i = j
      /\ \A k \in Keys :
           LET answered == \E i \in DOMAIN rspCh : rspCh[i].key = k
           IN  /\ flying[k] = 0 \/ (flying[k] = 1 /\ ~answered)
               /\ doing[k] # None <=> flying[k] = 1 \/ answered

(* A record is in the cache or in the trash, not in both, and nobody waits *)
(* for a cached name: a fresh answer always replaces the stale one.        *)
CacheOrTrash == \A k \in Keys : cache[k] # None => trash[k] = None /\ doing[k] = None

(* A cached record has its timer, and no other key has one: what is served *)
(* from the cache is queried again some day (update_cache, handle_expired).*)
(* That of an address expires within positive_max_ttl, whatever ttl the    *)
(* server sent, and not after the trash would forget it.                   *)
ExpiryMatches ==
    \A k \in Keys :
        /\ cache[k] # None <=> expired[k] # None
        /\ cache[k] # None /\ cache[k].kind = "ok" => expired[k] <= MaxTtl /\ expired[k] <= cache[k].van

(* A call is never told of a failure while a stale record of its name can  *)
(* still be served (handle_rsp's use of the trash).                        *)
StaleBeforeFailure ==
    [][\A r \in Reqs : req[r].st = "waiting" /\ req'[r].st = "fail" => trash[req[r].key] = None]_vars

(* When the runtime is parked with no wake-up on its way, it has taken     *)
(* every request and every response: no waker is lost by poll_loop.        *)
NoLostWakeup == pc = "parked" /\ ~woken => reqCh = <<>> /\ rspCh = <<>>

(* Where the query of a name is, for a caller: with a driver, or answered. *)
Answered(k) == \E i \in DOMAIN rspCh : rspCh[i].key = k
Flight(k) == IF Answered(k) THEN "answered" ELSE IF flying[k] > 0 THEN "asked" ELSE "idle"

SF == INSTANCE SingleFlight WITH
        flight <- [k \in Keys |-> Flight(k)],
        wait <- [k \in Keys |-> Waiting(k)],
        open <- Alive

(* The runtime and its driver tasks are a single-flight service, as the    *)
(* cache of EffectiveCache is: calls join the query that is on its way,    *)
(* stale records are refreshed by a query of their own only when there is  *)
(* none, and its answer releases all who wait (handle_req, handle_rsp).    *)
ImplementsSingleFlight == SF!Spec

(* Every call is answered or told that the resolver is gone.               *)
EveryQuerySettles == \A r \in Reqs : (req[r].st = "waiting") ~> (req[r].st # "waiting")

(* After stop the thread of a resolver that was never updated ends, so     *)
(* that the owner's join returns (shutdown, drop): poll_loop leaves its    *)
(* waker with the control channel whatever else it is doing.  An update    *)
(* takes that waker, and poll_loop parks without leaving another.          *)
ThreadStops == (owner = "joining" /\ updates = 0) ~> (owner = "joined")

=============================================================================
