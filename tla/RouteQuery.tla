----------------------------- MODULE RouteQuery -----------------------------
(***************************************************************************)
(* The query task of the route_query escaper                               *)
(* (vey-proxy/src/escape/route_query/query.rs), on top of EffectiveCache.  *)
(*                                                                         *)
(* Raw queries go to a peer over a connected UDP socket and are matched to *)
(* keys by a fresh id.  The peer may answer late, twice or never; a send   *)
(* may have to wait or fail; receiving may fail, which ends the task.      *)
(* Everything else (callers, cache runtime, time) is EffectiveCache's.     *)
(***************************************************************************)
EXTENDS EffectiveCache, Integers

CONSTANTS
    Ids,            \* query ids (uuids), each used once
    RawTtls,        \* ttl values the peer may put in an answer
    MaximumTtl      \* maximum_cache_ttl

ASSUME RouteAssumption ==
    /\ None \notin Ids /\ None \notin Keys
    /\ RawTtls \subseteq Nat /\ MaximumTtl \in Nat

VARIABLES
    qpc,        \* place in QueryRuntime::poll_loop
    writeQ,     \* write_queue: encoded queries not yet sent
    idKey,      \* id_key_map
    keyId,      \* key_id_map
    used,       \* ids that have been drawn
    wire        \* ids of the queries the peer has been sent

routeVars == <<qpc, writeQ, idKey, keyId, used, wire>>

RouteTypeOK ==
    /\ TypeOK
    /\ qpc \in {"recv", "send", "timeout", "req"}
    /\ writeQ \in Seq([key : Keys, id : Ids])
    /\ idKey \in [Ids -> Keys \cup {None}]
    /\ keyId \in [Keys -> Ids \cup {None}]
    /\ used \in SUBSET Ids
    /\ wire \in SUBSET Ids

RouteInit ==
    /\ Init
    /\ qpc = "recv" /\ writeQ = <<>>
    /\ idKey = [i \in Ids |-> None]
    /\ keyId = [k \in Keys |-> None]
    /\ used = {} /\ wire = {}

\* (mutant) only the zero ttl is looked at
CacheTtl_uncut(ttl) == IF ttl = 0 THEN ProtectiveTtl ELSE ttl

\* handle_rsp: a ttl of zero means the protective ttl, a large one is cut
CacheTtl(ttl) == IF ttl = 0 THEN ProtectiveTtl
                 ELSE IF ttl > MaximumTtl THEN MaximumTtl ELSE ttl

\* EffectiveCache knows the ttls that answers get
ASSUME TtlsFit == \A ttl \in RawTtls : CacheTtl(ttl) \in Ttls

-----------------------------------------------------------------------------
\* an answer that carries no known id is dropped
RecvRsp(id, found, ttl) ==
    LET k == idKey[id]
        data == IF found THEN NewData(CacheTtl(ttl)) ELSE EmptyData(CacheTtl(ttl))
    IN  /\ queryUp /\ qpc = "recv"
        /\ id \in wire
        /\ k # None
        /\ idKey' = [idKey EXCEPT ![id] = None]
        /\ keyId' = [keyId EXCEPT ![k] = None]
        /\ QueryRsp(k, data)
        /\ UNCHANGED <<qpc, writeQ, used, wire>>

RecvPending ==
    /\ queryUp /\ qpc = "recv"
    /\ qpc' = "send"
    /\ UNCHANGED <<vars, writeQ, idKey, keyId, used, wire>>

RecvError ==
    /\ qpc = "recv"
    /\ QuerySocketError
    /\ UNCHANGED routeVars

\* (mutant) a failed query leaves its id behind
handle_query_failed_keeps_id(k) ==
    /\ keyId' = [keyId EXCEPT ![k] = None]
    /\ UNCHANGED idKey

\* the maps' part of handle_query_failed; send_empty_result is its other part
handle_query_failed(k) ==
    /\ keyId' = [keyId EXCEPT ![k] = None]
    /\ idKey' = IF keyId[k] # None THEN [idKey EXCEPT ![keyId[k]] = None] ELSE idKey

SendOk ==
    /\ queryUp /\ qpc = "send" /\ writeQ # <<>>
    /\ wire' = wire \cup {Head(writeQ).id}
    /\ writeQ' = Tail(writeQ)
    /\ UNCHANGED <<vars, qpc, idKey, keyId, used>>

SendError ==
    LET k == Head(writeQ).key
    IN  /\ qpc = "send" /\ writeQ # <<>>
        /\ writeQ' = Tail(writeQ)
        /\ handle_query_failed(k)
        /\ QueryRsp(k, EmptyData(ProtectiveTtl))
        /\ UNCHANGED <<qpc, used, wire>>

\* the queue is empty, or the socket would block and the entry is put back
SendDone ==
    /\ queryUp /\ qpc = "send"
    /\ qpc' = "timeout"
    /\ UNCHANGED <<vars, writeQ, idKey, keyId, used, wire>>

\* (mutant) a query that times out is forgotten without an answer
TimedOut_silent(k) ==
    /\ qpc = "timeout"
    /\ handle_query_failed(k)
    /\ QueryExpired_silent(k)
    /\ UNCHANGED <<qpc, writeQ, used, wire>>

TimedOut(k) ==
    /\ qpc = "timeout"
    /\ handle_query_failed(k)
    /\ QueryExpired(k)
    /\ UNCHANGED <<qpc, writeQ, used, wire>>

TimeoutDone ==
    /\ queryUp /\ qpc = "timeout"
    /\ \A k \in Keys : timeoutQ[k] # 0
    /\ qpc' = "req"
    /\ UNCHANGED <<vars, writeQ, idKey, keyId, used, wire>>

\* handle_req: a key that has no raw query yet is given an id and queued
RouteReq(id) ==
    LET k == Head(queryCh)
    IN  /\ qpc = "req" /\ QueryReq
        /\ id \notin used
        /\ IF k \in doingCache
             THEN UNCHANGED <<used, idKey, keyId, writeQ>>
             ELSE /\ used' = used \cup {id}
                  /\ idKey' = [idKey EXCEPT ![id] = k]
                  /\ keyId' = [keyId EXCEPT ![k] = id]
                  /\ writeQ' = Append(writeQ, [key |-> k, id |-> id])
        /\ qpc' = "recv"
        /\ UNCHANGED wire

\* (mutant) the query that cannot be encoded is answered and stays in doing_cache
RouteReqFail_stays ==
    LET k == Head(queryCh)
    IN  /\ qpc = "req" /\ queryUp /\ queryCh # <<>> /\ k \notin doingCache
        /\ queryCh' = Tail(queryCh)
        /\ should_send_raw_query(k)
        /\ SendRsp(k, EmptyData(ProtectiveTtl))
        /\ qpc' = "recv"
        /\ UNCHANGED <<req, handles, reqCh, cacheVars, queryUp, writeQ, idKey, keyId, used, wire>>

\* ... or the query cannot be encoded
RouteReqFail ==
    /\ qpc = "req" /\ QueryReqFail
    /\ qpc' = "recv"
    /\ UNCHANGED <<writeQ, idKey, keyId, used, wire>>

RecvReqPending ==
    /\ queryUp /\ qpc = "req"
    /\ queryCh = <<>>
    /\ Running
    /\ qpc' = "recv"
    /\ UNCHANGED <<vars, writeQ, idKey, keyId, used, wire>>

RecvReqClosed ==
    /\ qpc = "req"
    /\ QueryClosed
    /\ UNCHANGED routeVars

QueryRuntimePoll ==
    \/ RecvPending \/ SendOk \/ SendError \/ SendDone
    \/ (\E k \in Keys : TimedOut(k)) \/ TimeoutDone
    \/ (\E id \in Ids : RouteReq(id)) \/ RouteReqFail
    \/ RecvReqPending \/ RecvReqClosed

RouteNext ==
    \/ QueryRuntimePoll
    \/ \E id \in Ids, found \in BOOLEAN, ttl \in RawTtls : RecvRsp(id, found, ttl)
    \/ RecvError
    \/ /\ \/ \E r \in Reqs : do_fetch(r) \/ FetchTimeout(r)
          \/ DropHandles \/ poll_loop \/ Tick
       /\ UNCHANGED routeVars

RouteSpec == RouteInit /\ [][RouteNext]_<<vars, routeVars>>

\* Both tasks are polled whenever they are woken; the peer owes us nothing.
RouteFairSpec ==
    /\ RouteSpec
    /\ WF_<<vars, routeVars>>(poll_loop /\ UNCHANGED routeVars)
    /\ WF_<<vars, routeVars>>(QueryRuntimePoll)
    /\ WF_<<vars, routeVars>>(Tick /\ UNCHANGED routeVars)

-----------------------------------------------------------------------------
(* Properties *)

\* The two maps are inverse to each other and know exactly the keys that have an
\* unanswered query: no id outlives its query (a leak, and a late answer that
\* would be applied to a newer query of the key), and no query is without one.
MapsAgree ==
    /\ \A k \in Keys : keyId[k] # None => idKey[keyId[k]] = k
    /\ \A i \in Ids : idKey[i] # None => keyId[idKey[i]] = i
    /\ queryUp => \A k \in Keys : keyId[k] # None <=> k \in doingCache

\* The whole query task is a correct user of EffectiveQueryHandle, so what holds
\* of EffectiveCache holds of the escaper's cache.
ImplementsEffectiveCache == Spec

\* An answer is served for no longer than the configured maximum ttl, whatever
\* ttl the peer sends: no record is fresh beyond it, cached or on its way.
TtlBounded ==
    LET top == IF ProtectiveTtl > MaximumTtl THEN ProtectiveTtl ELSE MaximumTtl
    IN  /\ \A k \in Keys : cache[k] # None => cache[k].exp <= top
        /\ \A i \in DOMAIN rspCh : rspCh[i].data.exp <= top

\* Even when the peer never answers, every call is settled by the timeouts.
RouteCallSettles == \A r \in Reqs : req[r].st = "waiting" ~> req[r].st # "waiting"
=============================================================================
