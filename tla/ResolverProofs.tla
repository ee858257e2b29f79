--------------------------- MODULE ResolverProofs ---------------------------
(***************************************************************************)
(* Proofs about Resolver for every number of names and calls, every batch  *)
(* size, all ttls and limits: queries are neither doubled nor forgotten,   *)
(* the cache and the trash agree, and the runtime loses no wake-up.        *)
(***************************************************************************)
EXTENDS Resolver, TLAPS

-----------------------------------------------------------------------------
(* The inductive invariant *)

\* A call that the runtime has taken, or is to take, has a key to look for; the
\* calls that wait for a key asked for it.
Keyed ==
    /\ \A n \in DOMAIN reqCh : req[reqCh[n]].key \in Keys /\ req[reqCh[n]].st # "new"
    /\ \A k \in Keys : doing[k] # None =>
         \A r \in doing[k] : req[r].key = k /\ req[r].st # "new"

\* Failures have no vanish time, so that none of them gets into the trash.
NoFailedTrash ==
    /\ \A k \in Keys : cache[k] # None /\ cache[k].kind = "fail" => cache[k].van = None
    /\ \A k \in Keys : trash[k] # None => trash[k].kind # "fail"

\* A failure has no vanish time; an address has one, which is not before its
\* expiry, and expires within the limit of the configuration.
Fresh ==
    {rec \in Record :
        /\ rec.kind = "fail" => rec.van = None
        /\ rec.kind = "ok" => rec.van \in Nat /\ rec.exp <= MaxTtl /\ rec.exp <= rec.van}
FreshAnswers == rspCh \in Seq([key : Keys, rec : Fresh])

\* Past the poll of a channel, the channel is empty and holds the waker, or the
\* runtime has been woken.
WakersLeft ==
    /\ pc \in {"exp", "req", "parked"} /\ ~woken => "rsp" \in wakers /\ rspCh = <<>>
    /\ pc = "parked" /\ ~woken => "req" \in wakers /\ reqCh = <<>>

Inv ==
    /\ TypeOK /\ Keyed /\ NoFailedTrash /\ FreshAnswers
    /\ WakersLeft /\ OneQueryPerKey /\ CacheOrTrash

Message == [key : Keys, rec : Fresh]
Calls == [st : {"new", "waiting", "ok", "notfound", "fail", "gone"}, key : Keys \cup {None}]
Tables == [Keys -> Entry \cup {None}]

\* Absent things are none of the others.
LEMMA Absent ==
    /\ \A n \in Nat : n # None
    /\ \A e \in Entry : e # None
    /\ \A rs \in SUBSET Reqs : rs # None
  BY Zenon, ResolverConstAssumption

-----------------------------------------------------------------------------
(* The records *)

\* Whatever ttl the server sends, resolved expires its answer within the limits.
LEMMA ResolvedFresh == \A ttl \in RawTtls : resolved(ttl) \in Fresh
<1> SUFFICES ASSUME NEW ttl \in RawTtls PROVE resolved(ttl) \in Fresh
  OBVIOUS
<1>1. ttl \in Nat /\ MinTtl \in Nat /\ MaxTtl \in Nat /\ MinTtl <= MaxTtl
  BY Zenon, ResolverConstAssumption
<1>2. ASSUME NEW e \in Nat, NEW v \in Nat, e <= MaxTtl, e <= v,
             resolved(ttl) = [kind |-> "ok", exp |-> e, van |-> v]
      PROVE  resolved(ttl) \in Fresh
  BY <1>2 DEF Fresh, Record
<1>3. CASE ttl > MaxTtl + MinTtl
  <2>1. resolved(ttl) = [kind |-> "ok", exp |-> MaxTtl, van |-> ttl]
    BY <1>1, <1>3 DEF resolved
  <2>2. MaxTtl <= ttl /\ MaxTtl <= MaxTtl
    BY <1>1, <1>3
  <2> QED
    BY Zenon, <1>1, <1>2, <2>1, <2>2
<1>4. CASE ttl > MinTtl + MinTtl /\ ttl <= MaxTtl + MinTtl
  <2>1. resolved(ttl) = [kind |-> "ok", exp |-> ttl - MinTtl, van |-> ttl]
    BY <1>1, <1>4 DEF resolved
  <2>2. ttl - MinTtl \in Nat /\ ttl - MinTtl <= MaxTtl /\ ttl - MinTtl <= ttl
    BY <1>1, <1>4
  <2> QED
    BY Zenon, <1>1, <1>2, <2>1, <2>2
<1>5. CASE ttl > MinTtl /\ ttl <= MinTtl + MinTtl
  <2>1. resolved(ttl) = [kind |-> "ok", exp |-> MinTtl, van |-> ttl]
    BY <1>1, <1>5 DEF resolved
  <2>2. MinTtl <= ttl
    BY <1>1, <1>5
  <2> QED
    BY Zenon, <1>1, <1>2, <2>1, <2>2
<1>6. CASE ttl <= MinTtl
  <2>1. resolved(ttl) = [kind |-> "ok", exp |-> MinTtl, van |-> MinTtl + 1]
    BY <1>1, <1>6 DEF resolved
  <2>2. MinTtl + 1 \in Nat /\ MinTtl <= MinTtl + 1
    BY <1>1
  <2> QED
    BY Zenon, <1>1, <1>2, <2>1, <2>2
<1> QED
  BY <1>1, <1>3, <1>4, <1>5, <1>6

\* What a driver task sends back is such a record, or a failure without vanish time.
LEMMA AnswersFresh == Answers \subseteq Fresh
<1>1. \A kind \in {"notfound", "fail"}, ttl \in RawTtls \cup {NegativeTtl} : negative(kind, ttl) \in Fresh
  BY ResolverConstAssumption DEF negative, Fresh, Record
<1> SUFFICES ASSUME NEW rec \in Answers PROVE rec \in Fresh
  OBVIOUS
<1>2. \/ \E ttl \in RawTtls : rec = resolved(ttl)
      \/ \E kind \in {"notfound", "fail"}, ttl \in RawTtls \cup {NegativeTtl} : rec = negative(kind, ttl)
  BY DEF Answers
<1> QED
  BY Zenon, <1>1, <1>2, ResolvedFresh

\* The clock takes deadlines down and leaves absent ones absent.
LEMMA LessOneType ==
    /\ LessOne(None) = None
    /\ \A n \in Nat : LessOne(n) \in Nat /\ LessOne(n) <= n
<1>1. \A n \in Nat : LessOne(n) \in Nat /\ LessOne(n) <= n
  BY Absent DEF LessOne
<1> QED
  BY Zenon, <1>1 DEF LessOne

\* The clock keeps the order of deadlines.
LEMMA LessOneLess == \A m, n \in Nat : m <= n => LessOne(m) <= LessOne(n)
  BY Absent DEF LessOne

\* An older entry is the same entry with less time left.
LEMMA OlderType ==
    /\ Older(None) = None
    /\ \A e \in Entry : /\ Older(e) \in Entry /\ Older(e) # None
                        /\ Older(e).kind = e.kind
                        /\ e.van = None => Older(e).van = None
<1>1. ASSUME NEW e \in Entry
      PROVE  /\ Older(e) \in Entry /\ Older(e) # None
             /\ Older(e).kind = e.kind
             /\ e.van = None => Older(e).van = None
  <2>1. Older(e) = [e EXCEPT !.van = LessOne(@)]
    BY Zenon, Absent DEF Older
  <2>2. LessOne(e.van) \in Nat \cup {None} /\ (e.van = None => LessOne(e.van) = None)
    BY Zenon, LessOneType DEF Entry
  <2>3. Older(e) \in Entry
    BY Zenon, <2>1, <2>2 DEF Entry
  <2> QED
    BY Zenon, <2>1, <2>2, <2>3, Absent DEF Entry
<1> QED
  BY Zenon, <1>1 DEF Older

\* An older response has the same key and is as fresh.
LEMMA OlderMessage ==
    ASSUME NEW m \in Message
    PROVE  /\ [m EXCEPT !.rec = OlderRecord(@)] \in Message
           /\ [m EXCEPT !.rec = OlderRecord(@)].key = m.key
<1> DEFINE rec == m.rec
<1>1. /\ rec \in Record /\ (rec.kind = "fail" => rec.van = None)
      /\ rec.kind = "ok" => rec.van \in Nat /\ rec.exp <= MaxTtl /\ rec.exp <= rec.van
  BY Zenon DEF Message, Fresh
<1>2. rec.exp \in Nat /\ rec.van \in Nat \cup {None}
  BY Zenon, <1>1 DEF Record
<1>3. /\ LessOne(rec.exp) \in Nat
      /\ LessOne(rec.van) \in Nat \cup {None} /\ (rec.van = None => LessOne(rec.van) = None)
      /\ rec.kind = "ok" => /\ LessOne(rec.van) \in Nat
                           /\ LessOne(rec.exp) <= MaxTtl /\ LessOne(rec.exp) <= LessOne(rec.van)
  <2>1. CASE rec.kind = "ok"
    BY <1>1, <1>2, <2>1, LessOneType, LessOneLess, ResolverConstAssumption
  <2>2. CASE rec.kind # "ok"
    BY Zenon, <1>2, <2>2, LessOneType
  <2> QED
    BY Zenon, <1>1, <1>2, <2>1, <2>2, LessOneType
<1>4. /\ OlderRecord(rec) \in Record
      /\ OlderRecord(rec).exp = LessOne(rec.exp)
      /\ OlderRecord(rec).van = LessOne(rec.van)
      /\ OlderRecord(rec).kind = rec.kind
  BY Zenon, <1>1, <1>3 DEF OlderRecord, Record
<1>5. OlderRecord(rec) \in Fresh
  BY Zenon, <1>1, <1>3, <1>4 DEF Fresh
<1> QED
  BY Zenon, <1>5 DEF Message

\* Fresh responses are responses.
LEMMA FreshSeq ==
    ASSUME NEW s \in Seq(Message)
    PROVE  s \in Seq([key : Keys, rec : Record])
<1> DEFINE Raw == [key : Keys, rec : Record]
<1>1. Message \subseteq Raw
  BY Zenon DEF Message, Fresh
<1> HIDE DEF Raw
<1>2. s = [i \in 1..Len(s) |-> s[i]] /\ Len(s) \in Nat /\ \A i \in 1..Len(s) : s[i] \in Message
  OBVIOUS
<1>3. \A i \in 1..Len(s) : s[i] \in Raw
  BY Zenon, <1>1, <1>2
<1>4. s \in Seq(Raw)
  BY <1>2, <1>3
<1> QED
  BY Zenon, <1>4 DEF Raw

-----------------------------------------------------------------------------
(* The steps around the runtime *)

\* What StaleBeforeFailure asks of a step.
NotFailedEarly == \A r \in Reqs : req[r].st = "waiting" /\ req'[r].st = "fail" => trash[req[r].key] = None

\* A source that wakes the runtime has it scheduled if it holds the waker.
LEMMA Wakes ==
    ASSUME TypeOK, NEW source \in Sources, WakeBy(source)
    PROVE  /\ woken' \in BOOLEAN /\ wakers' \subseteq Sources
           /\ ~woken' => ~woken /\ source \notin wakers
           /\ \A s \in Sources \ {source} : s \in wakers => s \in wakers'
<1>1. woken' \in BOOLEAN
  BY Zenon DEF WakeBy, TypeOK
<1> QED
  BY Zenon, <1>1 DEF WakeBy, TypeOK

\* A call is queued, or refused because the resolver is gone.
LEMMA GetStep ==
    ASSUME Inv, NEW r \in Reqs, NEW k \in Keys, Get(r, k)
    PROVE  Inv' /\ NotFailedEarly
<1> USE DEF Inv
<1>1. UNCHANGED <<ctlCh, rspCh, flying, pc, batch, cache, expired, doing, trash, owner, updates>>
  BY Zenon DEF Get, pollVars
<1>2. PICK st \in {"waiting", "gone"} :
         /\ req[r].st = "new" /\ req' = [req EXCEPT ![r] = [st |-> st, key |-> k]]
         /\ \/ st = "waiting" /\ reqCh' = Append(reqCh, r) /\ WakeBy("req")
            \/ st = "gone" /\ UNCHANGED <<reqCh, woken, wakers>>
  BY Zenon DEF Get
<1>3. /\ req \in [Reqs -> Calls] /\ req' \in [Reqs -> Calls]
      /\ req'[r].key = k /\ req'[r].st = st
      /\ \A q \in Reqs \ {r} : req'[q] = req[q]
  BY Zenon, <1>2 DEF TypeOK, Calls
<1>4. /\ reqCh' \in Seq(Reqs)
      /\ \A n \in DOMAIN reqCh' : reqCh'[n] = r \/ (n \in DOMAIN reqCh /\ reqCh'[n] = reqCh[n])
  <2>1. reqCh \in Seq(Reqs)
    BY Zenon DEF TypeOK
  <2>2. CASE reqCh' = Append(reqCh, r)
    BY <2>1, <2>2
  <2>3. CASE reqCh' = reqCh
    BY Zenon, <2>1, <2>3
  <2> QED
    BY Zenon, <1>2, <2>2, <2>3
<1>5. /\ woken' \in BOOLEAN /\ wakers' \subseteq Sources
      /\ ~woken' => ~woken
      /\ "rsp" \in wakers => "rsp" \in wakers'
      /\ ~woken' /\ reqCh' # reqCh => "req" \notin wakers
      /\ reqCh' = reqCh /\ "req" \in wakers => "req" \in wakers'
  <2>1. CASE WakeBy("req") /\ reqCh' = Append(reqCh, r)
    <3>1. reqCh' # reqCh
      BY <2>1 DEF TypeOK
    <3> QED
      BY Zenon, <2>1, <3>1, Wakes DEF Sources
  <2>2. CASE UNCHANGED <<reqCh, woken, wakers>>
    BY Zenon, <2>2 DEF TypeOK
  <2> QED
    BY Zenon, <1>2, <2>1, <2>2
<1>6. TypeOK'
  BY Zenon, <1>1, <1>3, <1>4, <1>5 DEF TypeOK, Calls
<1>7. Keyed'
  <2>1. \A n \in DOMAIN reqCh : reqCh[n] \in Reqs
    BY DEF TypeOK
  <2>2. \A n \in DOMAIN reqCh' : req'[reqCh'[n]].key \in Keys /\ req'[reqCh'[n]].st # "new"
    BY <1>2, <1>3, <1>4, <2>1 DEF Keyed
  <2>3. \A j \in Keys : doing[j] # None => doing[j] \subseteq Reqs
    BY Zenon DEF TypeOK
  <2>4. \A j \in Keys : doing'[j] # None => \A q \in doing'[j] : req'[q].key = j /\ req'[q].st # "new"
    BY <1>1, <1>2, <1>3, <2>3 DEF Keyed
  <2> QED
    BY Zenon, <2>2, <2>4 DEF Keyed
<1>8. WakersLeft'
  BY Zenon, <1>1, <1>5 DEF WakersLeft
<1>9. NoFailedTrash' /\ FreshAnswers' /\ OneQueryPerKey' /\ CacheOrTrash'
  BY <1>1 DEF NoFailedTrash, FreshAnswers, OneQueryPerKey, CacheOrTrash, Alive
<1>10. NotFailedEarly
  BY Zenon, <1>2, <1>3 DEF NotFailedEarly
<1> QED
  BY Zenon, <1>6, <1>7, <1>8, <1>9, <1>10

\* The one driver task of a key turns into the one response for it.
LEMMA DriverStep ==
    ASSUME Inv, NEW k \in Keys, DriverAnswer(k)
    PROVE  Inv' /\ NotFailedEarly
<1> USE DEF Inv
<1>1. /\ UNCHANGED <<req, reqCh, ctlCh, pc, batch, cache, expired, doing, trash, owner, updates>>
      /\ Alive /\ flying[k] > 0 /\ flying' = [flying EXCEPT ![k] = @ - 1]
      /\ WakeBy("rsp")
  BY Zenon DEF DriverAnswer, pollVars
<1>2. PICK rec \in Fresh : rspCh' = Append(rspCh, [key |-> k, rec |-> rec])
  BY Zenon, AnswersFresh DEF DriverAnswer
<1>3. /\ flying[k] = 1 /\ doing[k] # None
      /\ \A i \in DOMAIN rspCh : rspCh[i].key # k
  BY <1>1 DEF OneQueryPerKey
<1>4. /\ rspCh \in Seq(Message) /\ rspCh' \in Seq(Message)
      /\ Len(rspCh) + 1 \in DOMAIN rspCh' /\ rspCh'[Len(rspCh) + 1].key = k
      /\ \A i \in DOMAIN rspCh : i \in DOMAIN rspCh' /\ rspCh'[i] = rspCh[i]
      /\ \A i \in DOMAIN rspCh' : i \in DOMAIN rspCh \/ i = Len(rspCh) + 1
  <2>1. [key |-> k, rec |-> rec] \in Message /\ rspCh \in Seq(Message)
    BY Zenon DEF Message, FreshAnswers
  <2> QED
    BY <1>2, <2>1
<1>5. flying' \in [Keys -> Nat] /\ flying'[k] = 0 /\ \A j \in Keys \ {k} : flying'[j] = flying[j]
  BY <1>1, <1>3 DEF TypeOK
<1>6. TypeOK' /\ FreshAnswers'
  <2>1. rspCh' \in Seq([key : Keys, rec : Record])
    BY Zenon, <1>4, FreshSeq
  <2>2. woken' \in BOOLEAN /\ wakers' \subseteq Sources
    BY Zenon, <1>1, Wakes DEF Sources
  <2> QED
    BY Zenon, <1>1, <1>4, <1>5, <2>1, <2>2 DEF TypeOK, FreshAnswers, Message
<1>7. OneQueryPerKey'
  <2>1. \A i, j \in DOMAIN rspCh' : rspCh'[i].key = rspCh'[j].key => i = j
    <3>1. \A i, j \in DOMAIN rspCh : rspCh[i].key = rspCh[j].key => i = j
      BY Zenon, <1>1 DEF OneQueryPerKey
    <3> QED
      BY <1>3, <1>4, <3>1
  <2>2. \A j \in Keys : (\E i \in DOMAIN rspCh' : rspCh'[i].key = j)
                          <=> j = k \/ \E i \in DOMAIN rspCh : rspCh[i].key = j
    BY Zenon, <1>4
  <2> QED
    BY <1>1, <1>3, <1>5, <2>1, <2>2 DEF OneQueryPerKey
<1>8. WakersLeft'
  <2>1. /\ ~woken' => ~woken /\ "rsp" \notin wakers
        /\ "req" \in wakers => "req" \in wakers'
    BY Zenon, <1>1, Wakes DEF Sources
  <2> QED
    BY Zenon, <1>1, <2>1 DEF WakersLeft
<1>9. Keyed' /\ NoFailedTrash' /\ CacheOrTrash'
  BY <1>1 DEF Keyed, NoFailedTrash, CacheOrTrash
<1>10. NotFailedEarly
  BY Zenon, <1>1 DEF NotFailedEarly
<1> QED
  BY Zenon, <1>6, <1>7, <1>8, <1>9, <1>10

\* The owner's commands and its wait for the thread.
LEMMA OwnerSteps ==
    ASSUME Inv, UpdateConfig \/ Shutdown \/ Joined
    PROVE  Inv' /\ NotFailedEarly
<1> USE DEF Inv
<1>1. UNCHANGED <<req, reqCh, rspCh, flying, pc, batch, cache, expired, doing, trash>>
  BY Zenon DEF UpdateConfig, Shutdown, Joined, pollVars
<1>2. /\ ctlCh' \in Seq({"Update", "Quit"}) /\ owner' \in {"up", "joining", "joined"}
      /\ updates' \in 0..MaxUpdates
  <2>1. /\ ctlCh \in Seq({"Update", "Quit"}) /\ updates \in 0..MaxUpdates /\ MaxUpdates \in Nat
        /\ owner \in {"up", "joining", "joined"}
    BY Zenon, ResolverConstAssumption DEF TypeOK
  <2>2. \A c \in {"Update", "Quit"} : Append(ctlCh, c) \in Seq({"Update", "Quit"})
    BY <2>1
  <2>3. CASE UpdateConfig
    BY <2>1, <2>2, <2>3 DEF UpdateConfig
  <2>4. CASE Shutdown
    BY Zenon, <2>1, <2>2, <2>4 DEF Shutdown
  <2>5. CASE Joined
    BY Zenon, <2>1, <2>5 DEF Joined
  <2> QED
    BY Zenon, <2>3, <2>4, <2>5
<1>3. /\ woken' \in BOOLEAN /\ wakers' \subseteq Sources
      /\ ~woken' => ~woken
      /\ \A s \in {"req", "rsp"} : s \in wakers => s \in wakers'
  <2>1. CASE WakeBy("ctl")
    BY Zenon, <2>1, Wakes DEF Sources
  <2>2. CASE UNCHANGED <<woken, wakers>>
    BY Zenon, <2>2 DEF TypeOK
  <2> QED
    BY Zenon, <2>1, <2>2 DEF UpdateConfig, Shutdown, Joined
<1>4. TypeOK'
  BY Zenon, <1>1, <1>2, <1>3 DEF TypeOK
<1>5. Keyed' /\ NoFailedTrash' /\ FreshAnswers' /\ OneQueryPerKey' /\ CacheOrTrash' /\ NotFailedEarly
  BY <1>1 DEF Keyed, NoFailedTrash, FreshAnswers, OneQueryPerKey, CacheOrTrash, Alive, NotFailedEarly
<1>6. WakersLeft'
  BY Zenon, <1>1, <1>3 DEF WakersLeft
<1> QED
  BY Zenon, <1>4, <1>5, <1>6

\* The clock.
LEMMA TickStep ==
    ASSUME Inv, Tick
    PROVE  Inv' /\ NotFailedEarly
<1> USE DEF Inv
<1>1. /\ UNCHANGED <<req, reqCh, ctlCh, flying, pc, batch, doing, owner, updates>>
      /\ expired' = [k \in Keys |-> LessOne(expired[k])]
      /\ cache' = [k \in Keys |-> Older(cache[k])]
      /\ trash' = [k \in Keys |-> Older(trash[k])]
      /\ rspCh' = [i \in DOMAIN rspCh |-> [rspCh[i] EXCEPT !.rec = OlderRecord(@)]]
  BY Zenon DEF Tick
<1>2. /\ woken' \in BOOLEAN /\ wakers' \subseteq Sources
      /\ ~woken' => ~woken
      /\ \A s \in {"req", "rsp"} : s \in wakers => s \in wakers'
  <2>1. CASE WakeBy("exp")
    BY Zenon, <2>1, Wakes DEF Sources
  <2>2. CASE UNCHANGED <<woken, wakers>>
    BY Zenon, <2>2 DEF TypeOK
  <2> QED
    BY Zenon, <2>1, <2>2 DEF Tick
<1>3. /\ cache' \in Tables /\ trash' \in Tables
      /\ \A k \in Keys : cache'[k] # None <=> cache[k] # None
      /\ \A k \in Keys : trash'[k] # None <=> trash[k] # None
      /\ \A k \in Keys : cache[k] # None => /\ cache'[k].kind = cache[k].kind
                                            /\ cache[k].van = None => cache'[k].van = None
      /\ \A k \in Keys : trash[k] # None => trash'[k].kind = trash[k].kind
  BY <1>1, OlderType, Absent DEF TypeOK, Tables
<1>4. expired' \in [Keys -> Nat \cup {None}]
  BY Zenon, <1>1, LessOneType DEF TypeOK
<1>5. /\ rspCh' \in Seq(Message) /\ DOMAIN rspCh' = DOMAIN rspCh
      /\ \A i \in DOMAIN rspCh : rspCh'[i].key = rspCh[i].key
      /\ rspCh = <<>> => rspCh' = <<>>
  <2>1. rspCh \in Seq(Message) /\ DOMAIN rspCh = 1..Len(rspCh) /\ Len(rspCh) \in Nat
    BY DEF FreshAnswers, Message
  <2>2. \A i \in DOMAIN rspCh : rspCh[i] \in Message
    BY <2>1
  <2>3. \A i \in DOMAIN rspCh : rspCh'[i] \in Message /\ rspCh'[i].key = rspCh[i].key
    BY Zenon, <1>1, <2>2, OlderMessage
  <2>4. DOMAIN rspCh' = DOMAIN rspCh /\ rspCh' = [i \in 1..Len(rspCh) |-> rspCh'[i]]
    BY Zenon, <1>1, <2>1
  <2>5. rspCh' \in Seq(Message)
    BY <2>1, <2>3, <2>4
  <2> QED
    BY <2>1, <2>3, <2>4, <2>5
<1>6. TypeOK' /\ FreshAnswers'
  <2>1. rspCh' \in Seq([key : Keys, rec : Record])
    BY Zenon, <1>5, FreshSeq
  <2> QED
    BY Zenon, <1>1, <1>2, <1>3, <1>4, <1>5, <2>1 DEF TypeOK, FreshAnswers, Message, Tables
<1>7. OneQueryPerKey'
  <2>1. \A k \in Keys : (\E i \in DOMAIN rspCh' : rspCh'[i].key = k)
                          <=> \E i \in DOMAIN rspCh : rspCh[i].key = k
    BY Zenon, <1>5
  <2>2. \A i, j \in DOMAIN rspCh' :
            i \in DOMAIN rspCh /\ j \in DOMAIN rspCh /\ rspCh'[i].key = rspCh[i].key /\ rspCh'[j].key = rspCh[j].key
    BY Zenon, <1>5
  <2>3. Alive' => \A i, j \in DOMAIN rspCh' : rspCh'[i].key = rspCh'[j].key => i = j
    BY <1>1, <2>2 DEF OneQueryPerKey, Alive
  <2>4. flying' = flying /\ doing' = doing /\ (Alive' <=> Alive)
    BY Zenon, <1>1 DEF Alive
  <2> QED
    BY Zenon, <2>1, <2>3, <2>4 DEF OneQueryPerKey
<1>8. NoFailedTrash' /\ CacheOrTrash'
  BY <1>1, <1>2, <1>3 DEF NoFailedTrash, CacheOrTrash
<1>9. WakersLeft'
  BY Zenon, <1>1, <1>2, <1>3, <1>5 DEF WakersLeft
<1>10. Keyed' /\ NotFailedEarly
  BY Zenon, <1>1 DEF Keyed, NotFailedEarly
<1> QED
  BY Zenon, <1>6, <1>7, <1>8, <1>9, <1>10

-----------------------------------------------------------------------------
(* The steps of the runtime *)

\* Replying settles the calls named and changes nothing else.
LEMMA Replies ==
    ASSUME TypeOK, NEW rs, NEW result \in {"ok", "notfound", "fail", "gone"}, Reply(rs, result)
    PROVE  /\ req' \in [Reqs -> Calls]
           /\ \A r \in Reqs : /\ req'[r].key = req[r].key
                              /\ req[r].st # "new" => req'[r].st # "new"
                              /\ r \in rs => req'[r].st = result
                              /\ r \notin rs => req'[r].st = req[r].st
<1>1. req \in [Reqs -> Calls]
  BY Zenon DEF TypeOK, Calls
<1>2. ASSUME NEW r \in Reqs
      PROVE  /\ req'[r] \in Calls
             /\ req'[r].key = req[r].key
             /\ req[r].st # "new" => req'[r].st # "new"
             /\ r \in rs => req'[r].st = result
             /\ r \notin rs => req'[r].st = req[r].st
  <2>1. req[r] \in Calls
    BY Zenon, <1>1
  <2>2. CASE r \in rs
    <3>1. req'[r] = [req[r] EXCEPT !.st = result]
      BY Zenon, <2>2 DEF Reply
    <3> QED
      BY Zenon, <2>1, <2>2, <3>1 DEF Calls
  <2>3. CASE r \notin rs
    <3>1. req'[r] = req[r]
      BY Zenon, <2>3 DEF Reply
    <3> QED
      BY Zenon, <2>1, <2>3, <3>1
  <2> QED
    BY Zenon, <2>2, <2>3
<1>3. req' \in [Reqs -> Calls]
  <2>1. req' = [r \in Reqs |-> req'[r]]
    BY Zenon DEF Reply
  <2> QED
    BY Zenon, <1>2, <2>1
<1> QED
  BY Zenon, <1>2, <1>3

\* The future ends and drops everything.
LEMMA EndStep ==
    ASSUME Inv, End
    PROVE  Inv' /\ NotFailedEarly
<1> USE DEF Inv
<1>1. /\ pc' = "end" /\ reqCh' = <<>> /\ ctlCh' = <<>> /\ rspCh' = <<>>
      /\ flying' = [k \in Keys |-> 0] /\ batch' = 0 /\ wakers' = {}
      /\ cache' = [k \in Keys |-> None] /\ expired' = [k \in Keys |-> None]
      /\ doing' = [k \in Keys |-> None] /\ trash' = [k \in Keys |-> None]
      /\ UNCHANGED <<owner, updates>>
  BY Zenon DEF End
<1>2. woken' = FALSE
  BY Zenon DEF End
<1>3. /\ req' \in [Reqs -> Calls]
      /\ \A r \in Reqs : req'[r].st = "fail" => req[r].st # "waiting"
  BY Zenon, Replies DEF End
<1>4. TypeOK'
  <2>1. woken' \in BOOLEAN
    BY Zenon, <1>2
  <2>2. batch' \in 0..BatchCount
    BY <1>1, ResolverConstAssumption
  <2> QED
    BY <1>1, <1>3, <2>1, <2>2 DEF TypeOK, Calls
<1>5. Keyed' /\ NoFailedTrash' /\ CacheOrTrash' /\ FreshAnswers' /\ WakersLeft' /\ OneQueryPerKey'
  BY <1>1 DEF Keyed, NoFailedTrash, CacheOrTrash, FreshAnswers, WakersLeft, OneQueryPerKey, Alive
<1>6. NotFailedEarly
  BY Zenon, <1>3 DEF NotFailedEarly
<1> QED
  BY Zenon, <1>4, <1>5, <1>6

\* The runtime goes on to another place of poll_loop.
LEMMA PlaceSteps ==
    ASSUME Inv, UNCHANGED <<req, reqCh, rspCh, flying, cache, expired, doing, owner, updates>>,
           pc # "end" /\ pc' \in {"parked", "ctl", "rsp", "exp", "req"}, batch' \in 0..BatchCount,
           ctlCh' \in Seq({"Update", "Quit"}),
           trash' \in Tables, \A k \in Keys : trash'[k] \in {trash[k], None},
           woken' \in BOOLEAN, wakers' \subseteq Sources, WakersLeft'
    PROVE  Inv' /\ NotFailedEarly
<1> USE DEF Inv
<1>1. TypeOK'
  BY Zenon DEF TypeOK, Tables
<1>2. Keyed' /\ NoFailedTrash' /\ CacheOrTrash' /\ FreshAnswers' /\ NotFailedEarly
  BY DEF Keyed, NoFailedTrash, CacheOrTrash, FreshAnswers, NotFailedEarly
<1>3. OneQueryPerKey'
  BY Zenon DEF OneQueryPerKey, Alive
<1> QED
  BY Zenon, <1>1, <1>2, <1>3

\* A source that is found empty holds the waker from then on.
LEMMA EmptyStep ==
    ASSUME Inv, NEW source \in Sources, NEW next \in {"rsp", "exp", "parked"}, Empty(source, next),
           pc # "end",
           next = "exp" => source = "rsp" /\ rspCh = <<>>,
           next = "parked" => source = "req" /\ reqCh = <<>> /\ pc = "req"
    PROVE  Inv' /\ NotFailedEarly
<1> USE DEF Inv
<1>1. /\ UNCHANGED <<req, reqCh, rspCh, flying, cache, expired, doing, owner, updates, trash, batch, ctlCh, woken>>
      /\ pc' = next /\ wakers' = wakers \cup {source}
  BY Zenon DEF Empty, pollVars
<1>2. /\ batch' \in 0..BatchCount /\ ctlCh' \in Seq({"Update", "Quit"}) /\ woken' \in BOOLEAN
      /\ trash' \in Tables /\ wakers' \subseteq Sources
  BY Zenon, <1>1 DEF TypeOK, Tables
<1>3. WakersLeft'
  BY Zenon, <1>1 DEF WakersLeft
<1> QED
  BY Zenon, <1>1, <1>2, <1>3, PlaceSteps

\* The first poll, the start of a later one, and the poll of the control channel.
LEMMA PollSteps ==
    ASSUME Inv, FirstPoll \/ FirstPollFails \/ Poll \/ PollCtl
    PROVE  Inv' /\ NotFailedEarly
<1> USE DEF Inv
<1>1. CASE FirstPoll
  <2>1. /\ UNCHANGED <<req, reqCh, rspCh, flying, cache, expired, doing, owner, updates, trash, batch, ctlCh,
                       woken, wakers>>
        /\ pc = "init" /\ pc' = "ctl"
    BY Zenon, <1>1 DEF FirstPoll, pollVars
  <2>2. /\ batch' \in 0..BatchCount /\ ctlCh' \in Seq({"Update", "Quit"}) /\ woken' \in BOOLEAN
        /\ trash' \in Tables /\ wakers' \subseteq Sources
    BY Zenon, <2>1 DEF TypeOK, Tables
  <2>3. WakersLeft'
    BY Zenon, <2>1 DEF WakersLeft
  <2> QED
    BY Zenon, <2>1, <2>2, <2>3, PlaceSteps
<1>2. CASE FirstPollFails
  BY Zenon, <1>2, EndStep DEF FirstPollFails
<1>3. CASE Poll
  <2>1. /\ UNCHANGED <<req, reqCh, rspCh, flying, cache, expired, doing, owner, updates, batch, ctlCh, wakers>>
        /\ pc = "parked" /\ pc' = "ctl" /\ clean_trash
    BY Zenon, <1>3 DEF Poll
  <2>2. woken' \in BOOLEAN
    <3>1. woken' = FALSE
      BY Zenon, <1>3 DEF Poll
    <3> QED
      BY Zenon, <3>1
  <2>3. /\ batch' \in 0..BatchCount /\ ctlCh' \in Seq({"Update", "Quit"}) /\ wakers' \subseteq Sources
    BY Zenon, <2>1 DEF TypeOK
  <2>4. trash' \in Tables /\ \A k \in Keys : trash'[k] \in {trash[k], None}
    BY Zenon, <2>1 DEF clean_trash, TypeOK, Tables
  <2>5. WakersLeft'
    BY Zenon, <2>1 DEF WakersLeft
  <2> QED
    BY Zenon, <2>1, <2>2, <2>3, <2>4, <2>5, PlaceSteps
<1>4. CASE PollCtl
  <2>1. CASE ctlCh = <<>> /\ Empty("ctl", "rsp")
    BY Zenon, <1>4, <2>1, EmptyStep DEF PollCtl, Sources
  <2>2. CASE End
    BY Zenon, <2>2, EndStep
  <2>3. CASE /\ ctlCh # <<>> /\ ctlCh' = Tail(ctlCh) /\ pc' = "rsp"
             /\ UNCHANGED <<req, reqCh, rspCh, flying, batch, pollVars, woken, wakers, owner, updates>>
    <3>1. UNCHANGED <<req, reqCh, rspCh, flying, cache, expired, doing, owner, updates, trash, batch, woken, wakers>>
      BY Zenon, <2>3 DEF pollVars
    <3>2. ctlCh' \in Seq({"Update", "Quit"})
      BY <2>3 DEF TypeOK
    <3>3. /\ batch' \in 0..BatchCount /\ woken' \in BOOLEAN
          /\ trash' \in Tables /\ wakers' \subseteq Sources
      BY Zenon, <3>1 DEF TypeOK, Tables
    <3>4. WakersLeft' /\ pc # "end"
      BY Zenon, <1>4, <2>3 DEF WakersLeft, PollCtl
    <3> QED
      BY Zenon, <2>3, <3>1, <3>2, <3>3, <3>4, PlaceSteps
  <2> QED
    BY Zenon, <1>4, <2>1, <2>2, <2>3 DEF PollCtl
<1> QED
  BY Zenon, <1>1, <1>2, <1>3, <1>4

\* The first response, and the others.
LEMMA FirstResponse ==
    ASSUME Inv, Alive, rspCh # <<>>, rspCh' = Tail(rspCh)
    PROVE  /\ Head(rspCh).key \in Keys /\ Head(rspCh).rec \in Fresh
           /\ rspCh' \in Seq(Message)
           /\ doing[Head(rspCh).key] # None /\ flying[Head(rspCh).key] = 0
           /\ \A i, j \in DOMAIN rspCh' : rspCh'[i].key = rspCh'[j].key => i = j
           /\ \A k \in Keys : (\E i \in DOMAIN rspCh' : rspCh'[i].key = k)
                                <=> k # Head(rspCh).key /\ \E i \in DOMAIN rspCh : rspCh[i].key = k
<1> USE DEF Inv
<1>1. rspCh \in Seq(Message) /\ rspCh # <<>>
  BY Zenon DEF FreshAnswers, Message
<1>2. /\ Head(rspCh) = rspCh[1] /\ 1 \in DOMAIN rspCh /\ Head(rspCh) \in Message
      /\ rspCh' \in Seq(Message)
      /\ \A i \in DOMAIN rspCh' : i \in Nat /\ i + 1 \in DOMAIN rspCh /\ rspCh'[i] = rspCh[i + 1] /\ i + 1 # 1
      /\ \A i \in DOMAIN rspCh : i = 1 \/ (i - 1 \in DOMAIN rspCh' /\ rspCh'[i - 1] = rspCh[i])
  BY <1>1
<1>3. Head(rspCh).key \in Keys /\ Head(rspCh).rec \in Fresh
  BY Zenon, <1>2 DEF Message
<1>4. doing[Head(rspCh).key] # None /\ flying[Head(rspCh).key] = 0
  BY <1>2, <1>3 DEF OneQueryPerKey
<1>5. \A i, j \in DOMAIN rspCh : rspCh[i].key = rspCh[j].key => i = j
  BY Zenon DEF OneQueryPerKey
<1>6. \A i, j \in DOMAIN rspCh' : rspCh'[i].key = rspCh'[j].key => i = j
  <2>1. \A i, j \in Nat : i + 1 = j + 1 => i = j
    OBVIOUS
  <2> QED
    BY <1>2, <1>5, <2>1
<1>7. \A i \in DOMAIN rspCh' : rspCh'[i].key # Head(rspCh).key
  BY <1>2, <1>5
<1>8. ASSUME NEW k \in Keys
      PROVE  (\E i \in DOMAIN rspCh' : rspCh'[i].key = k)
               <=> k # Head(rspCh).key /\ \E i \in DOMAIN rspCh : rspCh[i].key = k
  <2>1. ASSUME NEW i \in DOMAIN rspCh', rspCh'[i].key = k
        PROVE  k # Head(rspCh).key /\ \E j \in DOMAIN rspCh : rspCh[j].key = k
    BY Zenon, <1>2, <1>7, <2>1
  <2>2. ASSUME k # Head(rspCh).key, NEW i \in DOMAIN rspCh, rspCh[i].key = k
        PROVE  \E j \in DOMAIN rspCh' : rspCh'[j].key = k
    <3>1. i - 1 \in DOMAIN rspCh' /\ rspCh'[i - 1] = rspCh[i]
      BY Zenon, <1>2, <2>2
    <3> QED
      BY Zenon, <2>2, <3>1
  <2> QED
    BY Zenon, <2>1, <2>2
<1>9. rspCh' \in Seq(Message)
  BY Zenon, <1>2
<1> QED
  BY Zenon, <1>3, <1>4, <1>6, <1>8, <1>9

\* A response is handled: the calls that wait get it, or a stale record in place
\* of a failure.
LEMMA RspStep ==
    ASSUME Inv, PollRsp
    PROVE  Inv' /\ NotFailedEarly
<1> USE DEF Inv
<1>1. CASE rspCh = <<>> /\ Empty("rsp", "exp")
  BY Zenon, <1>1, EmptyStep DEF PollRsp, Sources
<1>2. CASE ~(rspCh = <<>> /\ Empty("rsp", "exp"))
  <2> DEFINE k == Head(rspCh).key
             rec == Head(rspCh).rec
  <2>1. /\ pc = "rsp" /\ rspCh # <<>> /\ rspCh' = Tail(rspCh) /\ handle_rsp(k, rec)
        /\ UNCHANGED <<reqCh, ctlCh, flying, pc, batch, woken, wakers, owner, updates>>
    BY Zenon, <1>2 DEF PollRsp
  <2>2. /\ k \in Keys /\ rec \in Fresh /\ rspCh' \in Seq(Message)
        /\ doing[k] # None /\ flying[k] = 0
        /\ \A i, j \in DOMAIN rspCh' : rspCh'[i].key = rspCh'[j].key => i = j
        /\ \A j \in Keys : (\E i \in DOMAIN rspCh' : rspCh'[i].key = j)
                             <=> j # k /\ \E i \in DOMAIN rspCh : rspCh[i].key = j
    BY Zenon, <2>1, FirstResponse DEF Alive
  <2> HIDE DEF k, rec
  <2>3. /\ rec \in Record /\ rec.exp \in Nat /\ (rec.kind = "fail" => rec.van = None)
        /\ [kind |-> rec.kind, van |-> rec.van] \in Entry /\ rec.kind \in {"ok", "notfound", "fail"}
    BY Zenon, <2>2 DEF Fresh, Record, Entry
  <2>4. Waiting(k) = doing[k] /\ doing[k] \subseteq Reqs
    BY <2>2 DEF Waiting, TypeOK
  <2>5. PICK result \in {"ok", "notfound", "fail"} :
           /\ Reply(doing[k], result)
           /\ result = "fail" => trash[k] = None
    <3>1. CASE ~is_acceptable(rec) /\ trash[k] # None
      <4>1. trash[k] \in Entry /\ trash[k].kind # "fail" /\ trash[k].kind \in {"ok", "notfound", "fail"}
        BY <2>2, <3>1 DEF TypeOK, NoFailedTrash, Entry
      <4> QED
        BY Zenon, <2>1, <2>4, <3>1, <4>1 DEF handle_rsp
    <3>2. CASE ~(~is_acceptable(rec) /\ trash[k] # None)
      BY Zenon, <2>1, <2>3, <2>4, <3>2 DEF handle_rsp, is_acceptable
    <3> QED
      BY Zenon, <3>1, <3>2
  <2>6. /\ req' \in [Reqs -> Calls]
        /\ \A r \in Reqs : /\ req'[r].key = req[r].key
                           /\ req[r].st # "new" => req'[r].st # "new"
                           /\ r \in doing[k] => req'[r].st = result
                           /\ r \notin doing[k] => req'[r].st = req[r].st
    <3>1. result \in {"ok", "notfound", "fail", "gone"} /\ Reply(doing[k], result)
      BY Zenon, <2>5
    <3> QED
      BY <3>1, Replies
  <2>7. /\ doing' \in [Keys -> (SUBSET Reqs) \cup {None}] /\ doing'[k] = None
        /\ \A j \in Keys \ {k} : doing'[j] = doing[j]
    <3>1. doing' = [doing EXCEPT ![k] = None]
      BY Zenon, <2>1 DEF handle_rsp
    <3>2. doing \in [Keys -> (SUBSET Reqs) \cup {None}]
      BY Zenon DEF TypeOK
    <3> QED
      BY <2>2, <3>1, <3>2
  <2>8. \/ UNCHANGED <<trash, cache, expired>>
        \/ /\ cache' = [cache EXCEPT ![k] = [kind |-> rec.kind, van |-> rec.van]]
           /\ expired' = [expired EXCEPT ![k] = rec.exp]
           /\ trash' \in {trash, [trash EXCEPT ![k] = None]} /\ trash'[k] = None
    BY <2>1, <2>2 DEF handle_rsp, update_cache, TypeOK, is_acceptable
  <2>9. cache' \in Tables /\ trash' \in Tables /\ expired' \in [Keys -> Nat \cup {None}]
    <3>1. cache \in Tables /\ trash \in Tables /\ expired \in [Keys -> Nat \cup {None}]
      BY Zenon DEF TypeOK, Tables
    <3>2. \A t \in Tables : [t EXCEPT ![k] = None] \in Tables
                          /\ [t EXCEPT ![k] = [kind |-> rec.kind, van |-> rec.van]] \in Tables
      BY Zenon, <2>2, <2>3 DEF Tables
    <3>3. [expired EXCEPT ![k] = rec.exp] \in [Keys -> Nat \cup {None}]
      BY Zenon, <2>2, <2>3, <3>1
    <3>4. CASE UNCHANGED <<trash, cache, expired>>
      BY Zenon, <3>1, <3>4
    <3>5. CASE ~UNCHANGED <<trash, cache, expired>>
      BY <2>8, <3>1, <3>2, <3>3, <3>5
    <3> QED
      BY Zenon, <3>4, <3>5
  <2>10. TypeOK' /\ FreshAnswers'
    <3>1. rspCh' \in Seq([key : Keys, rec : Record])
      BY Zenon, <2>2, FreshSeq
    <3>2. /\ reqCh' \in Seq(Reqs) /\ ctlCh' \in Seq({"Update", "Quit"}) /\ flying' \in [Keys -> Nat]
          /\ pc' \in {"init", "parked", "ctl", "rsp", "exp", "req", "end"} /\ batch' \in 0..BatchCount
          /\ woken' \in BOOLEAN /\ wakers' \subseteq Sources
          /\ owner' \in {"up", "joining", "joined"} /\ updates' \in 0..MaxUpdates
      BY Zenon, <2>1 DEF TypeOK
    <3> QED
      BY Zenon, <2>2, <2>6, <2>7, <2>9, <3>1, <3>2 DEF TypeOK, FreshAnswers, Message, Tables, Calls
  <2>11. Keyed'
    <3>1. \A n \in DOMAIN reqCh : reqCh[n] \in Reqs
      BY DEF TypeOK
    <3>2. \A j \in Keys : doing[j] # None => doing[j] \subseteq Reqs
      BY Zenon DEF TypeOK
    <3> QED
      BY <2>1, <2>6, <2>7, <3>1, <3>2 DEF Keyed
  <2>12. NoFailedTrash' /\ CacheOrTrash'
    <3>1. CASE UNCHANGED <<trash, cache, expired>>
      BY Zenon, <2>7, <3>1 DEF NoFailedTrash, CacheOrTrash
    <3>2. CASE ~UNCHANGED <<trash, cache, expired>>
      <4>1. /\ \A j \in Keys \ {k} : cache'[j] = cache[j] /\ trash'[j] = trash[j]
            /\ cache'[k] = [kind |-> rec.kind, van |-> rec.van] /\ trash'[k] = None
        BY SMTT(30), <2>2, <2>8, <3>2 DEF TypeOK
      <4> QED
        BY <2>3, <2>7, <4>1 DEF NoFailedTrash, CacheOrTrash
    <3> QED
      BY Zenon, <3>1, <3>2
  <2>13. OneQueryPerKey'
    <3>1. Alive /\ flying' = flying
      BY Zenon, <2>1 DEF Alive
    <3>2. ASSUME NEW j \in Keys
          PROVE  LET answered == \E i \in DOMAIN rspCh' : rspCh'[i].key = j
                 IN  /\ flying'[j] = 0 \/ (flying'[j] = 1 /\ ~answered)
                     /\ doing'[j] # None <=> flying'[j] = 1 \/ answered
      <4>1. CASE j = k
        BY <2>2, <2>7, <3>1, <4>1
      <4>2. CASE j # k
        <5>1. (\E i \in DOMAIN rspCh' : rspCh'[i].key = j) <=> \E i \in DOMAIN rspCh : rspCh[i].key = j
          BY Zenon, <2>2, <4>2
        <5>2. LET answered == \E i \in DOMAIN rspCh : rspCh[i].key = j
              IN  /\ flying[j] = 0 \/ (flying[j] = 1 /\ ~answered)
                  /\ doing[j] # None <=> flying[j] = 1 \/ answered
          BY Zenon, <3>1 DEF OneQueryPerKey
        <5>3. doing'[j] = doing[j] /\ flying'[j] = flying[j]
          BY Zenon, <2>7, <3>1, <4>2
        <5> QED
          BY Zenon, <5>1, <5>2, <5>3
      <4> QED
        BY Zenon, <4>1, <4>2
    <3> QED
      BY Zenon, <2>2, <3>2 DEF OneQueryPerKey
  <2>14. WakersLeft'
    BY Zenon, <2>1 DEF WakersLeft
  <2>15. NotFailedEarly
    <3>1. \A r \in doing[k] : req[r].key = k
      BY Zenon, <2>2 DEF Keyed
    <3> QED
      BY Zenon, <2>5, <2>6, <3>1 DEF NotFailedEarly
  <2> QED
    BY Zenon, <2>10, <2>11, <2>12, <2>13, <2>14, <2>15
<1> QED
  BY Zenon, <1>1, <1>2

\* A cached record expires into the trash, unless it cannot be served any more.
LEMMA ExpiredStep ==
    ASSUME Inv, PollExpired
    PROVE  Inv' /\ NotFailedEarly
<1> USE DEF Inv
<1>1. CASE /\ pc' = "req" /\ batch' = BatchCount
           /\ wakers' = IF \E k \in Keys : expired[k] # None THEN wakers \cup {"exp"} ELSE wakers
           /\ UNCHANGED <<req, reqCh, ctlCh, rspCh, flying, pollVars, woken, owner, updates>>
  <2>1. UNCHANGED <<req, reqCh, rspCh, flying, cache, expired, doing, owner, updates, trash, ctlCh, woken>>
    BY Zenon, <1>1 DEF pollVars
  <2>2. /\ batch' \in 0..BatchCount /\ ctlCh' \in Seq({"Update", "Quit"}) /\ woken' \in BOOLEAN
        /\ trash' \in Tables /\ wakers' \subseteq Sources
    BY <1>1, <2>1, ResolverConstAssumption DEF TypeOK, Tables, Sources
  <2>3. WakersLeft' /\ pc # "end"
    BY <1>1, <2>1 DEF WakersLeft, PollExpired
  <2> QED
    BY Zenon, <1>1, <2>1, <2>2, <2>3, PlaceSteps
<1>2. ASSUME NEW k \in Keys, expired[k] = 0, handle_expired(k),
             UNCHANGED <<req, reqCh, ctlCh, rspCh, flying, pc, batch, doing, woken, wakers, owner, updates>>
      PROVE  Inv' /\ NotFailedEarly
  <2>1. /\ cache' \in Tables /\ trash' \in Tables /\ expired' \in [Keys -> Nat \cup {None}]
        /\ cache'[k] = None
        /\ \A j \in Keys \ {k} : cache'[j] = cache[j] /\ trash'[j] = trash[j]
        /\ trash'[k] = trash[k] \/ (trash'[k] = cache[k] /\ cache[k] # None /\ cache[k].van # None)
    BY Zenon, <1>2 DEF handle_expired, TypeOK, Tables
  <2>2. TypeOK' /\ FreshAnswers'
    BY Zenon, <1>2, <2>1 DEF TypeOK, FreshAnswers, Tables
  <2>3. CacheOrTrash'
    BY Zenon, <1>2, <2>1 DEF CacheOrTrash
  <2>4. NoFailedTrash'
    <3>1. \A j \in Keys : cache'[j] # None => cache'[j] = cache[j]
      BY Zenon, <2>1
    <3>2. trash'[k] # None => trash'[k].kind # "fail"
      BY Zenon, <2>1 DEF NoFailedTrash
    <3>3. \A j \in Keys \ {k} : trash'[j] = trash[j]
      BY Zenon, <2>1
    <3> QED
      BY <3>1, <3>2, <3>3 DEF NoFailedTrash
  <2>5. Keyed' /\ OneQueryPerKey' /\ WakersLeft' /\ NotFailedEarly
    BY <1>2 DEF Keyed, OneQueryPerKey, Alive, WakersLeft, NotFailedEarly
  <2> QED
    BY Zenon, <2>2, <2>3, <2>4, <2>5
<1> QED
  BY Zenon, <1>1, <1>2 DEF PollExpired

\* A request is answered from the tables, or waits for a query of its key.
LEMMA ReqStep ==
    ASSUME Inv, PollReq
    PROVE  Inv' /\ NotFailedEarly
<1> USE DEF Inv
<1>1. CASE reqCh = <<>> /\ Empty("req", "parked")
  BY Zenon, <1>1, EmptyStep DEF PollReq, Sources
<1>2. CASE /\ batch = 0 /\ pc' = "ctl"
           /\ UNCHANGED <<req, reqCh, ctlCh, rspCh, flying, batch, pollVars, woken, wakers, owner, updates>>
  <2>1. UNCHANGED <<req, reqCh, rspCh, flying, cache, expired, doing, owner, updates, trash, ctlCh, batch, woken,
                    wakers>>
    BY Zenon, <1>2 DEF pollVars
  <2>2. /\ batch' \in 0..BatchCount /\ ctlCh' \in Seq({"Update", "Quit"}) /\ woken' \in BOOLEAN
        /\ trash' \in Tables /\ wakers' \subseteq Sources
    BY Zenon, <2>1 DEF TypeOK, Tables
  <2>3. WakersLeft' /\ pc # "end"
    BY Zenon, <1>2 DEF WakersLeft, PollReq
  <2> QED
    BY Zenon, <1>2, <2>1, <2>2, <2>3, PlaceSteps
<1>3. CASE /\ batch > 0 /\ reqCh # <<>>
           /\ reqCh' = Tail(reqCh) /\ batch' = batch - 1
           /\ handle_req(Head(reqCh))
           /\ UNCHANGED <<ctlCh, rspCh, pc, cache, expired, trash, woken, wakers, owner, updates>>
  <2> DEFINE r == Head(reqCh)
             k == req[r].key
  <2>1. /\ r \in Reqs /\ k \in Keys /\ req[r].st # "new" /\ reqCh' \in Seq(Reqs)
        /\ \A n \in DOMAIN reqCh' : n + 1 \in DOMAIN reqCh /\ reqCh'[n] = reqCh[n + 1]
    <3>1. reqCh \in Seq(Reqs) /\ reqCh # <<>> /\ 1 \in DOMAIN reqCh /\ r = reqCh[1]
      BY <1>3 DEF TypeOK
    <3>2. /\ r \in Reqs /\ reqCh' \in Seq(Reqs)
          /\ \A n \in DOMAIN reqCh' : n + 1 \in DOMAIN reqCh /\ reqCh'[n] = reqCh[n + 1]
      BY <1>3, <3>1
    <3> QED
      BY Zenon, <3>1, <3>2 DEF Keyed
  <2>2. handle_req(r) /\ pc = "req"
    BY Zenon, <1>3 DEF PollReq
  <2>3. batch' \in 0..BatchCount
    BY <1>3, ResolverConstAssumption DEF TypeOK
  <2> HIDE DEF r
  \* who gets an answer, and what it is
  <2>4. PICK rs \in {{}, {r}}, result \in {"ok", "notfound", "fail"} :
          /\ req' = req \/ Reply(rs, result)
          /\ rs = {} => req' = req
          /\ result = "fail" => trash[k] = None
    <3>1. CASE cache[k] # None /\ Reply({r}, cache[k].kind)
      <4>1. cache[k] \in Entry /\ cache[k].kind \in {"ok", "notfound", "fail"} /\ trash[k] = None
        BY <2>1, <3>1 DEF TypeOK, Entry, CacheOrTrash
      <4> QED
        BY Zenon, <3>1, <4>1
    <3>2. CASE trash[k] # None /\ Reply({r}, trash[k].kind)
      <4>1. trash[k] \in Entry /\ trash[k].kind \in {"ok", "notfound"}
        BY Zenon, <2>1, <3>2 DEF TypeOK, Entry, NoFailedTrash
      <4> QED
        BY Zenon, <3>2, <4>1
    <3>3. CASE req' = req
      BY Zenon, <3>3
    <3> QED
      BY Zenon, <2>2, <3>1, <3>2, <3>3 DEF handle_req
  <2>5. /\ req' \in [Reqs -> Calls]
        /\ \A x \in Reqs : /\ req'[x].key = req[x].key
                           /\ req[x].st # "new" => req'[x].st # "new"
                           /\ req'[x].st = req[x].st \/ (x = r /\ req'[x].st = result)
    <3>1. CASE req' = req
      BY Zenon, <3>1 DEF TypeOK, Calls
    <3>2. CASE Reply(rs, result)
      BY <3>2, Replies
    <3> QED
      BY Zenon, <2>4, <3>1, <3>2
  \* the query that is sent when there is none
  <2>6. \/ UNCHANGED <<doing, flying>>
        \/ /\ cache[k] = None /\ doing[k] = None /\ query(k)
           /\ doing' \in {[doing EXCEPT ![k] = {}], [doing EXCEPT ![k] = {r}]}
        \/ /\ cache[k] = None /\ doing[k] # None /\ UNCHANGED flying
           /\ doing' = [doing EXCEPT ![k] = doing[k] \cup {r}]
    <3>1. doing[k] = None => Waiting(k) = {}
      BY Zenon DEF Waiting
    <3>2. doing[k] # None => Waiting(k) = doing[k]
      BY Zenon DEF Waiting
    <3> QED
      BY Zenon, <2>2, <3>1, <3>2 DEF handle_req
  <2> HIDE DEF k
  <2>7. /\ doing' \in [Keys -> (SUBSET Reqs) \cup {None}]
        /\ \A j \in Keys \ {k} : doing'[j] = doing[j]
        /\ doing'[k] = doing[k] \/ (cache[k] = None /\ doing'[k] # None)
        /\ \A j \in Keys : doing'[j] # None =>
             \A x \in doing'[j] : (doing[j] # None /\ x \in doing[j]) \/ (j = k /\ x = r)
    <3>1. CASE UNCHANGED <<doing, flying>>
      BY Zenon, <3>1 DEF TypeOK
    <3>2. CASE cache[k] = None /\ doing' = [doing EXCEPT ![k] = {}]
      BY <2>1, <3>2, Absent DEF TypeOK
    <3>3. CASE cache[k] = None /\ doing' = [doing EXCEPT ![k] = {r}]
      BY SMTT(30), <2>1, <3>3, Absent DEF TypeOK
    <3>4. CASE cache[k] = None /\ doing[k] # None /\ doing' = [doing EXCEPT ![k] = doing[k] \cup {r}]
      <4>1. doing[k] \cup {r} \in SUBSET Reqs
        BY Zenon, <2>1, <3>4 DEF TypeOK
      <4> QED
        BY <2>1, <3>4, <4>1, Absent DEF TypeOK
    <3> QED
      BY Zenon, <2>6, <3>1, <3>2, <3>3, <3>4
  <2>8. /\ flying' \in [Keys -> Nat]
        /\ \A j \in Keys \ {k} : flying'[j] = flying[j]
        /\ \/ flying'[k] = flying[k] /\ (doing'[k] = None <=> doing[k] = None)
           \/ flying'[k] = flying[k] + 1 /\ doing[k] = None /\ doing'[k] # None
    <3>1. CASE UNCHANGED <<doing, flying>>
      BY Zenon, <3>1 DEF TypeOK
    <3>2. CASE doing[k] = None /\ query(k) /\ doing' \in {[doing EXCEPT ![k] = {}], [doing EXCEPT ![k] = {r}]}
      BY SMTT(30), <2>1, <3>2, Absent DEF TypeOK, query
    <3>3. CASE doing[k] # None /\ UNCHANGED flying /\ doing' = [doing EXCEPT ![k] = doing[k] \cup {r}]
      <4>1. doing[k] \cup {r} \in SUBSET Reqs /\ doing[k] \cup {r} # None
        BY <2>1, <3>3, Absent DEF TypeOK
      <4> QED
        BY Zenon, <2>1, <3>3, <4>1 DEF TypeOK
    <3> QED
      BY Zenon, <2>6, <3>1, <3>2, <3>3
  <2>9. TypeOK' /\ FreshAnswers'
    <3>1. /\ ctlCh' \in Seq({"Update", "Quit"}) /\ rspCh' \in Seq([key : Keys, rec : Record])
          /\ cache' \in [Keys -> Entry \cup {None}] /\ expired' \in [Keys -> Nat \cup {None}]
          /\ trash' \in [Keys -> Entry \cup {None}]
          /\ pc' \in {"init", "parked", "ctl", "rsp", "exp", "req", "end"}
          /\ woken' \in BOOLEAN /\ wakers' \subseteq Sources
          /\ owner' \in {"up", "joining", "joined"} /\ updates' \in 0..MaxUpdates
      BY Zenon, <1>3 DEF TypeOK
    <3>2. FreshAnswers'
      BY Zenon, <1>3 DEF FreshAnswers
    <3>3. /\ req' \in [Reqs -> Calls] /\ reqCh' \in Seq(Reqs)
          /\ doing' \in [Keys -> (SUBSET Reqs) \cup {None}] /\ flying' \in [Keys -> Nat]
      BY Zenon, <2>1, <2>5, <2>7, <2>8
    <3> QED
      BY Zenon, <2>3, <3>1, <3>2, <3>3 DEF TypeOK, Calls
  <2>10. Keyed'
    <3>1. \A n \in DOMAIN reqCh : reqCh[n] \in Reqs
      BY DEF TypeOK
    <3>2. \A j \in Keys : doing[j] # None => doing[j] \subseteq Reqs
      BY Zenon DEF TypeOK
    <3>3. \A n \in DOMAIN reqCh' : req'[reqCh'[n]].key \in Keys /\ req'[reqCh'[n]].st # "new"
      BY SMTT(30), <2>1, <2>5, <3>1 DEF Keyed
    <3>4. req[r].key = k
      BY Zenon DEF k
    <3>5. ASSUME NEW j \in Keys, doing'[j] # None, NEW x \in doing'[j]
          PROVE  req'[x].key = j /\ req'[x].st # "new"
      <4>1. x \in Reqs /\ req[x].key = j /\ req[x].st # "new"
        BY <2>1, <2>7, <3>2, <3>4, <3>5 DEF Keyed
      <4> QED
        BY Zenon, <2>5, <4>1
    <3> QED
      BY Zenon, <3>3, <3>5 DEF Keyed
  <2>11. NoFailedTrash' /\ WakersLeft'
    BY Zenon, <1>3, <2>2 DEF NoFailedTrash, WakersLeft
  <2>12. CacheOrTrash'
    BY Zenon, <1>3, <2>1, <2>7 DEF CacheOrTrash
  <2>13. OneQueryPerKey'
    <3>1. Alive /\ Alive' /\ rspCh' = rspCh
      BY Zenon, <1>3, <2>2 DEF Alive
    <3>2. ASSUME NEW j \in Keys
          PROVE  LET answered == \E i \in DOMAIN rspCh : rspCh[i].key = j
                 IN  /\ flying'[j] = 0 \/ (flying'[j] = 1 /\ ~answered)
                     /\ doing'[j] # None <=> flying'[j] = 1 \/ answered
      <4>1. CASE j # k
        <5>1. doing'[j] = doing[j] /\ flying'[j] = flying[j]
          BY Zenon, <2>7, <2>8, <4>1
        <5> QED
          BY Zenon, <3>1, <5>1 DEF OneQueryPerKey
      <4>2. CASE j = k /\ flying'[k] = flying[k] /\ (doing'[k] = None <=> doing[k] = None)
        BY Zenon, <3>1, <4>2 DEF OneQueryPerKey
      <4>3. CASE j = k /\ flying'[k] = flying[k] + 1 /\ doing[k] = None /\ doing'[k] # None
        <5>1. flying[j] = 0 /\ ~\E i \in DOMAIN rspCh : rspCh[i].key = j
          BY Zenon, <3>1, <4>3 DEF OneQueryPerKey
        <5>2. flying'[j] = 1 /\ doing'[j] # None
          BY <4>3, <5>1
        <5> QED
          BY Zenon, <5>1, <5>2
      <4> QED
        BY Zenon, <2>8, <4>1, <4>2, <4>3
    <3> QED
      BY <3>1, <3>2 DEF OneQueryPerKey
  <2>14. NotFailedEarly
    BY Zenon, <2>1, <2>4, <2>5 DEF NotFailedEarly, k
  <2> QED
    BY Zenon, <2>9, <2>10, <2>11, <2>12, <2>13, <2>14
<1> QED
  BY Zenon, <1>1, <1>2, <1>3 DEF PollReq

-----------------------------------------------------------------------------
(* The theorems *)

\* Every step preserves the invariant and is not too early with a failure.
LEMMA EveryStep ==
    ASSUME Inv, [Next]_vars
    PROVE  Inv' /\ NotFailedEarly
<1>1. CASE UNCHANGED vars
  <2> USE <1>1 DEF vars, Inv
  <2>1. TypeOK' /\ FreshAnswers'
    BY DEF TypeOK, FreshAnswers
  <2>2. Keyed' /\ NoFailedTrash' /\ WakersLeft'
    BY DEF Keyed, NoFailedTrash, WakersLeft
  <2>3. OneQueryPerKey' /\ CacheOrTrash' /\ NotFailedEarly
    BY DEF OneQueryPerKey, Alive, CacheOrTrash, NotFailedEarly
  <2> QED
    BY Zenon, <2>1, <2>2, <2>3
<1>2. CASE Runtime
  BY Zenon, <1>2, PollSteps, RspStep, ExpiredStep, ReqStep DEF Runtime
<1>3. CASE ~UNCHANGED vars /\ ~Runtime
  BY Zenon, <1>3, GetStep, DriverStep, OwnerSteps, TickStep DEF Next
<1> QED
  BY Zenon, <1>1, <1>2, <1>3

\* The invariant holds at the start.
LEMMA InitInv == Init => Inv
<1> SUFFICES ASSUME Init PROVE Inv
  OBVIOUS
<1>1. woken \in BOOLEAN
  <2>1. woken = FALSE
    BY Zenon DEF Init
  <2> QED
    BY Zenon, <2>1
<1>2. batch \in 0..BatchCount /\ updates \in 0..MaxUpdates
  <2>1. batch = 0 /\ updates = 0
    BY Zenon DEF Init
  <2> QED
    BY <2>1, ResolverConstAssumption
<1>3. TypeOK
  <2>1. /\ req \in [Reqs -> [st : {"new", "waiting", "ok", "notfound", "fail", "gone"}, key : Keys \cup {None}]]
        /\ flying \in [Keys -> Nat] /\ doing \in [Keys -> (SUBSET Reqs) \cup {None}]
    BY Zenon DEF Init
  <2>2. reqCh \in Seq(Reqs) /\ ctlCh \in Seq({"Update", "Quit"}) /\ rspCh \in Seq([key : Keys, rec : Record])
    BY DEF Init
  <2> QED
    BY Zenon, <1>1, <1>2, <2>1, <2>2 DEF Init, TypeOK
<1>4. FreshAnswers /\ WakersLeft
  BY DEF Init, FreshAnswers, WakersLeft
<1>5. Keyed /\ NoFailedTrash /\ CacheOrTrash
  BY SMTT(30) DEF Init, Keyed, NoFailedTrash, CacheOrTrash
<1>6. OneQueryPerKey
  BY SMTT(30) DEF Init, OneQueryPerKey
<1> QED
  BY Zenon, <1>3, <1>4, <1>5, <1>6 DEF Inv

\* The inductive invariant holds of every behaviour, whatever the keys, the calls,
\* the ttls of the server and the limits of the configuration are.
THEOREM AlwaysInv == Spec => []Inv
<1>1. Inv /\ [Next]_vars => Inv'
  BY Zenon, EveryStep
<1> QED
  BY <1>1, InitInv, PTL DEF Spec

\* A name that is being resolved has exactly one driver query on its way or one
\* response not yet handled, and other names have none (handle_req, handle_rsp).
THEOREM AlwaysOneQueryPerKey == Spec => []OneQueryPerKey
<1>1. Inv => OneQueryPerKey
  BY Zenon DEF Inv
<1> QED
  BY <1>1, AlwaysInv, PTL

\* The timer e fits what is cached, c.
Fits(c, e) ==
    /\ c # None <=> e # None
    /\ c # None /\ c.kind = "ok" => c.van \in Nat /\ e <= MaxTtl /\ e <= c.van

Timed == \A k \in Keys : Fits(cache[k], expired[k])

\* The clock takes the timer of a record and its vanish time down together.
LEMMA ClockFits ==
    ASSUME NEW c \in Entry \cup {None}, NEW e \in Nat \cup {None}, Fits(c, e)
    PROVE  Fits(Older(c), LessOne(e))
<1>1. CASE c = None
  BY Zenon, <1>1, OlderType, LessOneType DEF Fits
<1>2. CASE c # None
  <2>1. c \in Entry /\ e \in Nat
    BY Zenon, <1>2 DEF Fits
  <2>2. Older(c) # None /\ LessOne(e) # None /\ Older(c).kind = c.kind
    BY Zenon, <2>1, OlderType, LessOneType, Absent
  <2>3. Older(c).van = LessOne(c.van)
    BY Zenon, <1>2, <2>1 DEF Older, Entry
  <2>4. ASSUME c.kind = "ok"
        PROVE  LessOne(c.van) \in Nat /\ LessOne(e) <= MaxTtl /\ LessOne(e) <= LessOne(c.van)
    <3>1. c.van \in Nat /\ e <= MaxTtl /\ e <= c.van
      BY Zenon, <1>2, <2>4 DEF Fits
    <3> QED
      BY <2>1, <3>1, LessOneType, LessOneLess, ResolverConstAssumption
  <2> QED
    BY Zenon, <2>2, <2>3, <2>4 DEF Fits
<1> QED
  BY Zenon, <1>1, <1>2

\* Every step keeps the timers of the cache right.
LEMMA TimedStep ==
    ASSUME Inv, Timed, [Next]_vars
    PROVE  Timed'
<1>1. TypeOK
  BY Zenon DEF Inv
<1>2. CASE UNCHANGED <<cache, expired>>
  BY Zenon, <1>2 DEF Timed
<1>3. CASE Tick
  <2>1. ASSUME NEW k \in Keys PROVE Fits(cache'[k], expired'[k])
    <3>1. cache'[k] = Older(cache[k]) /\ expired'[k] = LessOne(expired[k])
      BY Zenon, <1>3 DEF Tick
    <3>2. cache[k] \in Entry \cup {None} /\ expired[k] \in Nat \cup {None} /\ Fits(cache[k], expired[k])
      BY Zenon, <1>1 DEF TypeOK, Timed
    <3> QED
      BY Zenon, <3>1, <3>2, ClockFits
  <2> QED
    BY Zenon, <2>1 DEF Timed
<1>4. CASE End
  BY Zenon, <1>4 DEF End, Timed, Fits
<1>5. CASE PollRsp /\ ~UNCHANGED <<cache, expired>>
  <2> DEFINE k == Head(rspCh).key
             rec == Head(rspCh).rec
  <2>1. /\ pc = "rsp" /\ rspCh # <<>> /\ rspCh' = Tail(rspCh)
        /\ handle_rsp(k, rec)
    BY Zenon, <1>5 DEF PollRsp, Empty, pollVars
  <2>2. k \in Keys /\ rec \in Fresh
    BY Zenon, <2>1, FirstResponse DEF Alive
  <2> HIDE DEF k, rec
  <2>3. /\ cache' = [cache EXCEPT ![k] = [kind |-> rec.kind, van |-> rec.van]]
        /\ expired' = [expired EXCEPT ![k] = rec.exp]
    BY Zenon, <1>5, <2>1 DEF handle_rsp, update_cache
  <2>4. /\ rec \in Record
        /\ rec.kind = "ok" => rec.van \in Nat /\ rec.exp <= MaxTtl /\ rec.exp <= rec.van
        /\ [kind |-> rec.kind, van |-> rec.van] \in Entry /\ rec.exp \in Nat
    BY Zenon, <2>2 DEF Fresh, Record, Entry
  <2>5. Fits([kind |-> rec.kind, van |-> rec.van], rec.exp)
    BY Zenon, <2>4, Absent DEF Fits
  <2>6. \A j \in Keys : IF j = k THEN /\ cache'[j] = [kind |-> rec.kind, van |-> rec.van]
                                      /\ expired'[j] = rec.exp
                                 ELSE cache'[j] = cache[j] /\ expired'[j] = expired[j]
    BY Zenon, <1>1, <2>3 DEF TypeOK
  <2> QED
    BY Zenon, <2>5, <2>6 DEF Timed
<1>6. CASE PollExpired /\ ~UNCHANGED <<cache, expired>>
  <2>1. PICK k \in Keys : handle_expired(k)
    BY Zenon, <1>6 DEF PollExpired, pollVars
  <2>2. \A j \in Keys : IF j = k THEN cache'[j] = None /\ expired'[j] = None
                                 ELSE cache'[j] = cache[j] /\ expired'[j] = expired[j]
    BY Zenon, <1>1, <2>1 DEF TypeOK, handle_expired
  <2> QED
    BY Zenon, <2>2 DEF Timed, Fits
<1>7. Next => UNCHANGED <<cache, expired>> \/ Tick \/ End \/ PollRsp \/ PollExpired
  BY Zenon DEF Next, Get, DriverAnswer, UpdateConfig, Shutdown, Joined, Runtime, FirstPoll, FirstPollFails,
               Poll, PollCtl, PollReq, Empty, pollVars
<1> QED
  BY Zenon, <1>2, <1>3, <1>4, <1>5, <1>6, <1>7 DEF vars

\* What is cached has its timer and nothing else has one, so that no record is
\* served for good; an address expires within positive_max_ttl, whatever ttl the
\* server sent, and before the trash would forget it (resolved, update_cache,
\* handle_expired).
THEOREM ExpiryAlwaysMatches == Spec => []ExpiryMatches
<1>1. Init => Timed
  BY Zenon DEF Init, Timed, Fits
<1>2. Inv /\ Timed /\ [Next]_vars => Timed'
  BY Zenon, TimedStep
<1>3. Timed => ExpiryMatches
  BY Zenon DEF Timed, Fits, ExpiryMatches
<1> QED
  BY <1>1, <1>2, <1>3, AlwaysInv, PTL DEF Spec

\* No record is in the cache and in the trash, and nobody waits for a cached name
\* (handle_rsp, handle_expired, handle_req).
THEOREM AlwaysCacheOrTrash == Spec => []CacheOrTrash
<1>1. Inv => CacheOrTrash
  BY Zenon DEF Inv
<1> QED
  BY <1>1, AlwaysInv, PTL

\* poll_loop parks with no wake-up on its way only when both channels that feed
\* it are empty.
THEOREM NeverLosesWakeup == Spec => []NoLostWakeup
<1>1. Inv => NoLostWakeup
  BY Zenon DEF Inv, WakersLeft, NoLostWakeup
<1> QED
  BY <1>1, AlwaysInv, PTL

\* No call is told of a failure while a stale record of its name is in the trash
\* (handle_rsp, handle_req).
THEOREM StaleServedFirst == Spec => StaleBeforeFailure
<1>1. Inv /\ [Next]_vars
        => [\A r \in Reqs : req[r].st = "waiting" /\ req'[r].st = "fail" => trash[req[r].key] = None]_vars
  BY Zenon, EveryStep DEF NotFailedEarly
<1> QED
  BY <1>1, AlwaysInv, PTL DEF Spec, StaleBeforeFailure

-----------------------------------------------------------------------------
(* The single-flight service *)

FlightOf == [k \in Keys |-> Flight(k)]
WaitOf == [k \in Keys |-> Waiting(k)]

\* One name goes from one place to the next.
Moves(k, place, waiting) ==
    /\ FlightOf' = [FlightOf EXCEPT ![k] = place] /\ WaitOf' = [WaitOf EXCEPT ![k] = waiting]

\* What makes a step of the runtime a step of the service: a query is started, ...
LEMMA ServiceAsk ==
    ASSUME NEW k \in Keys, NEW rs, rs = {} \/ \E r \in Reqs : rs = {r},
           Alive, Alive' = Alive, FlightOf[k] = "idle", Moves(k, "asked", rs)
    PROVE  SF!Next
<1>1. SF!Ask(k, rs)
  BY Zenon DEF SF!Ask, FlightOf, WaitOf, Moves
<1> QED
  BY Zenon, <1>1 DEF SF!Next

\* ... a call joins the one that is on its way, ...
LEMMA ServiceJoin ==
    ASSUME NEW k \in Keys, NEW r \in Reqs, Alive' = Alive, FlightOf[k] # "idle",
           FlightOf' = FlightOf, WaitOf' = [WaitOf EXCEPT ![k] = WaitOf[k] \cup {r}]
    PROVE  SF!Next
<1>1. SF!Join(k, r)
  BY Zenon DEF SF!Join, FlightOf, WaitOf
<1> QED
  BY Zenon, <1>1 DEF SF!Next

\* ... the driver answers, ...
LEMMA ServiceAnswer ==
    ASSUME NEW k \in Keys, Alive, Alive' = Alive, FlightOf[k] = "asked",
           FlightOf' = [FlightOf EXCEPT ![k] = "answered"], WaitOf' = WaitOf
    PROVE  SF!Next
<1>1. SF!Answer(k)
  BY Zenon DEF SF!Answer, FlightOf, WaitOf
<1> QED
  BY Zenon, <1>1 DEF SF!Next

\* ... the answer releases the calls that wait, ...
LEMMA ServiceDeliver ==
    ASSUME NEW k \in Keys, Alive' = Alive, FlightOf[k] = "answered", Moves(k, "idle", {})
    PROVE  SF!Next
<1>1. SF!Deliver(k)
  BY Zenon DEF SF!Deliver, FlightOf, WaitOf, Moves
<1> QED
  BY Zenon, <1>1 DEF SF!Next

\* ... or the end of the runtime does.
LEMMA ServiceClose ==
    ASSUME End
    PROVE  SF!Next
<1>1. /\ ~Alive' /\ rspCh' = <<>> /\ flying' = [k \in Keys |-> 0] /\ doing' = [k \in Keys |-> None]
  BY Zenon DEF End, Alive
<1>2. Alive' = FALSE
  BY Zenon, <1>1 DEF Alive
<1>3. ASSUME NEW k \in Keys PROVE Flight(k)' = "idle" /\ Waiting(k)' = {}
  BY <1>1 DEF Flight, Answered, Waiting
<1>4. FlightOf' = [k \in Keys |-> "idle"] /\ WaitOf' = [k \in Keys |-> {}]
  BY Zenon, <1>3 DEF FlightOf, WaitOf
<1>5. SF!Close
  BY Zenon, <1>2, <1>4 DEF SF!Close, FlightOf, WaitOf
<1> QED
  BY Zenon, <1>5 DEF SF!Next

\* Where the query of a name is, by the table and the channel.
LEMMA FlightCases ==
    ASSUME Inv, Alive, NEW k \in Keys
    PROVE  /\ FlightOf[k] = "idle" <=> doing[k] = None
           /\ FlightOf[k] = "answered" <=> Answered(k)
           /\ FlightOf[k] = "asked" <=> flying[k] = 1
           /\ flying[k] \in {0, 1}
  BY DEF Inv, FlightOf, Flight, OneQueryPerKey, Answered

\* A step that changes neither the queries nor the responses nor who waits.
LEMMA ServiceIdle ==
    ASSUME UNCHANGED <<flying, doing>>, Alive' = Alive, \A k \in Keys : Answered(k)' <=> Answered(k)
    PROVE  UNCHANGED <<FlightOf, WaitOf, Alive>>
  BY Zenon DEF FlightOf, Flight, WaitOf, Waiting

\* A driver answers the one query of its name.
LEMMA AnswerService ==
    ASSUME Inv, NEW k \in Keys, DriverAnswer(k)
    PROVE  SF!Next
<1>1. Alive /\ Alive' = Alive /\ flying[k] > 0 /\ doing' = doing /\ flying' = [flying EXCEPT ![k] = @ - 1]
  BY Zenon DEF DriverAnswer, Alive, pollVars
<1>2. PICK rec \in Answers : rspCh' = Append(rspCh, [key |-> k, rec |-> rec])
  BY Zenon DEF DriverAnswer
<1>3. FlightOf[k] = "asked"
  BY <1>1, FlightCases
<1>4. \A j \in Keys : Answered(j)' <=> j = k \/ Answered(j)
  <2>1. rspCh \in Seq(Message) /\ [key |-> k, rec |-> rec] \in Message
    BY Zenon, AnswersFresh DEF Inv, FreshAnswers, Message
  <2>2. Len(rspCh) \in Nat /\ DOMAIN rspCh = 1..Len(rspCh) /\ DOMAIN rspCh' = 1..(Len(rspCh) + 1)
    BY <1>2, <2>1
  <2>3. rspCh'[Len(rspCh) + 1].key = k /\ \A i \in DOMAIN rspCh : rspCh'[i] = rspCh[i]
    BY <1>2, <2>1, <2>2
  <2> QED
    BY <2>2, <2>3 DEF Answered
<1>5. \A j \in Keys : FlightOf'[j] = IF j = k THEN "answered" ELSE FlightOf[j]
  BY Zenon, <1>1, <1>4 DEF FlightOf, Flight, Inv, TypeOK
<1>6. FlightOf' = [FlightOf EXCEPT ![k] = "answered"] /\ WaitOf' = WaitOf
  BY Zenon, <1>1, <1>5 DEF FlightOf, WaitOf, Waiting
<1> QED
  BY Zenon, <1>1, <1>3, <1>6, ServiceAnswer

\* The runtime handles a response.
LEMMA DeliverService ==
    ASSUME Inv, PollRsp, rspCh # <<>>
    PROVE  SF!Next
<1> DEFINE k == Head(rspCh).key
<1>1. /\ Alive /\ Alive' = Alive /\ rspCh' = Tail(rspCh) /\ flying' = flying
      /\ doing' = [doing EXCEPT ![k] = None]
  BY Zenon DEF PollRsp, Alive, handle_rsp
<1>2. /\ k \in Keys /\ flying[k] = 0
      /\ \A j \in Keys : Answered(j)' <=> j # k /\ Answered(j)
  BY Zenon, <1>1, FirstResponse DEF Answered
<1>3. FlightOf[k] = "answered"
  <2>1. rspCh \in Seq(Message)
    BY Zenon DEF Inv, FreshAnswers, Message
  <2>2. Answered(k)
    BY <2>1 DEF Answered
  <2> QED
    BY Zenon, <1>1, <1>2, <2>2, FlightCases
<1> HIDE DEF k
<1>4. \A j \in Keys : FlightOf'[j] = IF j = k THEN "idle" ELSE FlightOf[j]
  BY <1>1, <1>2 DEF FlightOf, Flight
<1>5. \A j \in Keys : WaitOf'[j] = IF j = k THEN {} ELSE WaitOf[j]
  BY Zenon, <1>1 DEF WaitOf, Waiting, Inv, TypeOK
<1>6. Moves(k, "idle", {})
  BY Zenon, <1>4, <1>5 DEF Moves, FlightOf, WaitOf
<1> QED
  BY Zenon, <1>1, <1>2, <1>3, <1>6, ServiceDeliver

\* The runtime takes a request: it is answered at once, joins a query or starts one.
LEMMA RequestService ==
    ASSUME Inv, PollReq, batch > 0, reqCh # <<>>
    PROVE  SF!Next \/ UNCHANGED <<FlightOf, WaitOf, Alive>>
<1> DEFINE r == Head(reqCh)
           k == req[r].key
<1>1. Alive /\ Alive' = Alive /\ rspCh' = rspCh /\ handle_req(r)
  BY SMTT(30) DEF PollReq, Alive, Empty, Inv, TypeOK
<1>2. r \in Reqs /\ k \in Keys
  <2>1. reqCh \in Seq(Reqs) /\ 1 \in DOMAIN reqCh /\ r = reqCh[1]
    BY DEF Inv, TypeOK
  <2> QED
    BY <2>1 DEF Inv, Keyed
<1>3. \/ UNCHANGED <<doing, flying>>
      \/ doing[k] = None /\ query(k) /\ (doing' = [doing EXCEPT ![k] = {}] \/ doing' = [doing EXCEPT ![k] = {r}])
      \/ doing[k] # None /\ UNCHANGED flying /\ doing' = [doing EXCEPT ![k] = doing[k] \cup {r}]
  BY Zenon, <1>1 DEF handle_req, Waiting
<1>4. doing \in [Keys -> (SUBSET Reqs) \cup {None}] /\ flying \in [Keys -> Nat]
  BY Zenon DEF Inv, TypeOK
<1> HIDE DEF r, k
<1>5. CASE UNCHANGED <<doing, flying>>
  BY Zenon, <1>1, <1>5, ServiceIdle DEF Answered
<1>6. ASSUME NEW rs \in SUBSET Reqs, rs = {} \/ rs = {r}, doing[k] = None, query(k), doing' = [doing EXCEPT ![k] = rs]
      PROVE  SF!Next
  <2>1. FlightOf[k] = "idle" /\ ~Answered(k) /\ flying[k] = 0
    BY Zenon, <1>1, <1>2, <1>6, FlightCases
  <2>2. \A j \in Keys : FlightOf'[j] = IF j = k THEN "asked" ELSE FlightOf[j]
    BY <1>1, <1>2, <1>4, <1>6, <2>1 DEF FlightOf, Flight, Answered, query
  <2>3. \A j \in Keys : WaitOf'[j] = IF j = k THEN rs ELSE WaitOf[j]
    BY Zenon, <1>2, <1>4, <1>6, Absent DEF WaitOf, Waiting
  <2>4. Moves(k, "asked", rs)
    BY Zenon, <2>2, <2>3 DEF Moves, FlightOf, WaitOf
  <2> QED
    BY Zenon, <1>1, <1>2, <1>6, <2>1, <2>4, ServiceAsk
<1>7. CASE doing[k] # None /\ UNCHANGED flying /\ doing' = [doing EXCEPT ![k] = doing[k] \cup {r}]
  <2>1. FlightOf[k] # "idle" /\ WaitOf[k] = doing[k]
    BY Zenon, <1>1, <1>2, <1>7, FlightCases DEF WaitOf, Waiting
  <2>2. FlightOf' = FlightOf
    BY Zenon, <1>1, <1>7 DEF FlightOf, Flight, Answered
  <2>3. doing[k] \cup {r} \in SUBSET Reqs
    BY Zenon, <1>2, <1>4, <1>7
  <2>4. \A j \in Keys : WaitOf'[j] = IF j = k THEN WaitOf[k] \cup {r} ELSE WaitOf[j]
    BY Zenon, <1>2, <1>4, <1>7, <2>1, <2>3, Absent DEF WaitOf, Waiting
  <2>5. WaitOf' = [WaitOf EXCEPT ![k] = WaitOf[k] \cup {r}]
    BY Zenon, <2>4 DEF WaitOf
  <2> QED
    BY Zenon, <1>1, <1>2, <2>1, <2>2, <2>5, ServiceJoin
<1>8. {} \in SUBSET Reqs /\ {r} \in SUBSET Reqs
  BY Zenon, <1>2
<1> QED
  BY Zenon, <1>3, <1>5, <1>6, <1>7, <1>8

\* Every step of the runtime, the drivers and the owner is a step of the service,
\* or one that it does not show.
LEMMA ServiceStep ==
    ASSUME Inv, [Next]_vars
    PROVE  SF!Next \/ UNCHANGED <<FlightOf, WaitOf, Alive>>
<1>1. CASE UNCHANGED vars
  BY Zenon, <1>1, ServiceIdle DEF vars, Alive, Answered
<1>2. CASE (\E r \in Reqs, k \in Keys : Get(r, k)) \/ UpdateConfig \/ Shutdown \/ Joined
  BY Zenon, <1>2, ServiceIdle DEF Get, UpdateConfig, Shutdown, Joined, pollVars, Alive, Answered
<1>3. CASE Tick
  <2>1. UNCHANGED <<flying, doing, pc>> /\ rspCh' = [i \in DOMAIN rspCh |-> [rspCh[i] EXCEPT !.rec = OlderRecord(@)]]
    BY Zenon, <1>3 DEF Tick
  <2>2. rspCh \in Seq(Message)
    BY Zenon DEF Inv, FreshAnswers, Message
  <2>3. ASSUME NEW i \in DOMAIN rspCh PROVE rspCh'[i].key = rspCh[i].key
    <3>1. rspCh[i] \in Message
      BY <2>2
    <3> QED
      BY Zenon, <2>1, <3>1 DEF Message
  <2>4. DOMAIN rspCh' = DOMAIN rspCh
    BY Zenon, <2>1
  <2>5. \A k \in Keys : Answered(k)' <=> Answered(k)
    BY Zenon, <2>3, <2>4 DEF Answered
  <2> QED
    BY Zenon, <2>1, <2>5, ServiceIdle DEF Alive
<1>4. CASE FirstPoll \/ Poll \/ PollExpired
  BY Zenon, <1>4, ServiceIdle DEF FirstPoll, Poll, PollExpired, pollVars, Alive, Answered
<1>5. CASE FirstPollFails \/ PollCtl
  <2>1. CASE End
    BY Zenon, <2>1, ServiceClose
  <2>2. CASE ~End
    BY Zenon, <1>5, <2>2, ServiceIdle DEF FirstPollFails, PollCtl, Empty, pollVars, Alive, Answered
  <2> QED
    BY Zenon, <2>1, <2>2
<1>6. CASE PollRsp
  <2>1. CASE rspCh = <<>>
    BY Zenon, <1>6, <2>1, ServiceIdle DEF PollRsp, Empty, pollVars, Alive, Answered
  <2> QED
    BY Zenon, <1>6, <2>1, DeliverService
<1>7. CASE PollReq
  <2>1. CASE ~(batch > 0 /\ reqCh # <<>>)
    BY Zenon, <1>7, <2>1, ServiceIdle DEF PollReq, Empty, pollVars, Alive, Answered
  <2> QED
    BY Zenon, <1>7, <2>1, RequestService
<1> QED
  BY Zenon, <1>1, <1>2, <1>3, <1>4, <1>5, <1>6, <1>7, AnswerService DEF Next, Runtime

\* The resolver's runtime and its driver tasks implement the single-flight service,
\* for any number of names and calls: a name has at most one query on its way, a
\* call joins it, and its answer or the end releases all (handle_req, handle_rsp).
THEOREM ResolverIsSingleFlight == Spec => ImplementsSingleFlight
<1>1. Init => SF!Init
  <2> SUFFICES ASSUME Init PROVE SF!Init
    OBVIOUS
  <2>1. DOMAIN rspCh = {} /\ flying = [k \in Keys |-> 0] /\ doing = [k \in Keys |-> None]
    BY DEF Init
  <2>2. Alive = TRUE
    BY Zenon DEF Init, Alive
  <2>3. ASSUME NEW k \in Keys PROVE Flight(k) = "idle" /\ Waiting(k) = {}
    <3>1. ~Answered(k) /\ flying[k] = 0
      BY Zenon, <2>1 DEF Answered
    <3> QED
      BY <2>1, <3>1 DEF Flight, Waiting
  <2>4. FlightOf = [k \in Keys |-> "idle"] /\ WaitOf = [k \in Keys |-> {}]
    BY Zenon, <2>3 DEF FlightOf, WaitOf
  <2> QED
    BY <2>2, <2>4, Zenon DEF SF!Init, FlightOf, WaitOf
<1>2. Inv /\ [Next]_vars => [SF!Next]_(SF!sfVars)
  <2> SUFFICES ASSUME Inv, [Next]_vars PROVE SF!Next \/ UNCHANGED SF!sfVars
    OBVIOUS
  <2>1. SF!Next \/ UNCHANGED <<FlightOf, WaitOf, Alive>>
    BY Zenon, ServiceStep
  <2> QED
    BY Zenon, <2>1 DEF SF!sfVars, FlightOf, WaitOf
<1> QED
  BY <1>1, <1>2, AlwaysInv, PTL DEF Spec, ImplementsSingleFlight, SF!Spec
=============================================================================
