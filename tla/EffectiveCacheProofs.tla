------------------------ MODULE EffectiveCacheProofs ------------------------
(***************************************************************************)
(* Proofs about EffectiveCache for every number of keys and calls, every   *)
(* batch size and every choice of the timing constants.  Then about        *)
(* RouteQuery, for any number of ids as well: the route_query escaper's    *)
(* query task is a correct user of the effective cache; its specification  *)
(* implies EffectiveCache's, so that the theorems about the cache hold of  *)
(* the escaper.                                                            *)
(***************************************************************************)
EXTENDS RouteQuery, TLAPS

-----------------------------------------------------------------------------
(* Channels: what sending (Append) and receiving (Head, Tail) do to the    *)
(* messages of a channel and to their being distinct.                      *)

\* Sending adds the message and nothing else.
LEMMA RangeAppend ==
    ASSUME NEW S, NEW s \in Seq(S), NEW x \in S
    PROVE  /\ Append(s, x) \in Seq(S)
           /\ Range(Append(s, x)) = Range(s) \cup {x}
<1> DEFINE t == Append(s, x)
<1>1. /\ t \in Seq(S) /\ Len(t) = Len(s) + 1 /\ Len(s) \in Nat
      /\ \A i \in 1..Len(s) : t[i] = s[i]
      /\ t[Len(s) + 1] = x
  OBVIOUS
<1>2. Range(s) = {s[i] : i \in 1..Len(s)} /\ Range(t) = {t[i] : i \in 1..Len(t)}
  <2>1. DOMAIN s = 1..Len(s) /\ DOMAIN t = 1..Len(t)
    BY <1>1
  <2> QED
    BY Zenon, <2>1 DEF Range
<1> HIDE DEF t
<1>3. \A y \in Range(t) : y \in Range(s) \cup {x}
  BY <1>1, <1>2
<1>4. \A y \in Range(s) \cup {x} : y \in Range(t)
  <2>1. x \in Range(t)
    BY <1>1, <1>2
  <2>2. \A y \in Range(s) : y \in Range(t)
    BY <1>1, <1>2
  <2> QED
    BY Zenon, <2>1, <2>2
<1> QED
  BY Zenon, <1>1, <1>3, <1>4 DEF t

\* What was sent last is last, and the others are where they were.
LEMMA AppendElements ==
    ASSUME NEW S, NEW s \in Seq(S), NEW x \in S
    PROVE  \A i \in DOMAIN Append(s, x) : (i \in DOMAIN s /\ Append(s, x)[i] = s[i]) \/ Append(s, x)[i] = x
OBVIOUS

\* Sending what is not in the channel keeps its messages distinct.
LEMMA InjectiveAppend ==
    ASSUME NEW S, NEW s \in Seq(S), NEW x \in S, IsInjective(s), x \notin Range(s)
    PROVE  IsInjective(Append(s, x))
<1> DEFINE t == Append(s, x)
<1>1. /\ DOMAIN t = 1..(Len(s) + 1) /\ Len(s) \in Nat /\ DOMAIN s = 1..Len(s)
      /\ \A i \in 1..Len(s) : t[i] = s[i]
      /\ t[Len(s) + 1] = x
  OBVIOUS
<1>2. \A i \in 1..Len(s) : s[i] # x
  BY Zenon, <1>1 DEF Range
<1>3. \A i, j \in 1..Len(s) : s[i] = s[j] => i = j
  BY Zenon, <1>1 DEF IsInjective
<1> HIDE DEF t
<1>4. \A i, j \in 1..(Len(s) + 1) : t[i] = t[j] => i = j
  BY <1>1, <1>2, <1>3
<1> QED
  BY Zenon, <1>1, <1>4 DEF IsInjective, t

\* Receiving takes the head out and leaves the other messages.
LEMMA RangeTail ==
    ASSUME NEW S, NEW s \in Seq(S), s # <<>>
    PROVE  /\ Head(s) \in S
           /\ Tail(s) \in Seq(S)
           /\ Range(s) = Range(Tail(s)) \cup {Head(s)}
<1> DEFINE t == Tail(s)
<1>1. /\ Head(s) \in S /\ t \in Seq(S) /\ Len(t) = Len(s) - 1 /\ Len(s) \in Nat \ {0}
      /\ \A i \in 1..Len(t) : t[i] = s[i + 1]
      /\ Head(s) = s[1]
  OBVIOUS
<1>2. Range(s) = {s[i] : i \in 1..Len(s)} /\ Range(t) = {t[i] : i \in 1..Len(t)}
  <2>1. DOMAIN s = 1..Len(s) /\ DOMAIN t = 1..Len(t)
    BY <1>1
  <2> QED
    BY Zenon, <2>1 DEF Range
<1> HIDE DEF t
<1>3. \A y \in Range(s) : y \in Range(t) \cup {Head(s)}
  <2> TAKE y \in Range(s)
  <2>1. PICK i \in 1..Len(s) : y = s[i]
    BY Zenon, <1>2
  <2>2. CASE i = 1
    BY Zenon, <2>1, <2>2, <1>1
  <2>3. CASE i # 1
    <3>1. i - 1 \in 1..Len(t) /\ t[i - 1] = s[i]
      BY <2>3, <1>1
    <3> QED
      BY Zenon, <3>1, <2>1, <1>2
  <2> QED
    BY Zenon, <2>2, <2>3
<1>4. \A y \in Range(t) \cup {Head(s)} : y \in Range(s)
  <2>1. Head(s) \in Range(s)
    BY <1>1, <1>2
  <2>2. \A i \in 1..Len(t) : i + 1 \in 1..Len(s)
    BY <1>1
  <2> QED
    BY Zenon, <1>1, <1>2, <2>1, <2>2
<1> QED
  BY Zenon, <1>1, <1>3, <1>4 DEF t

\* In a channel of distinct messages the one received does not occur again.
LEMMA InjectiveTail ==
    ASSUME NEW S, NEW s \in Seq(S), s # <<>>, IsInjective(s)
    PROVE  /\ IsInjective(Tail(s))
           /\ Head(s) \notin Range(Tail(s))
<1> DEFINE t == Tail(s)
<1>1. /\ t \in Seq(S) /\ DOMAIN t = 1..(Len(s) - 1) /\ Len(s) \in Nat \ {0}
      /\ DOMAIN s = 1..Len(s)
      /\ \A i \in 1..(Len(s) - 1) : t[i] = s[i + 1]
      /\ Head(s) = s[1]
  OBVIOUS
<1>2. \A i, j \in 1..Len(s) : s[i] = s[j] => i = j
  BY Zenon, <1>1 DEF IsInjective
<1> HIDE DEF t
<1>3. \A i, j \in 1..(Len(s) - 1) : t[i] = t[j] => i = j
  BY <1>1, <1>2
<1>4. \A i \in 1..(Len(s) - 1) : t[i] # s[1]
  BY <1>1, <1>2
<1> QED
  BY <1>1, <1>3, <1>4 DEF IsInjective, Range, t

\* Channels of the same length with the same messages in the same places are equal.
LEMMA SameChannel ==
    ASSUME NEW S, NEW s \in Seq(S), NEW t \in Seq(S), Len(s) = Len(t), \A i \in 1..Len(s) : s[i] = t[i]
    PROVE  s = t
<1>1. s = [i \in 1..Len(s) |-> s[i]] /\ t = [i \in 1..Len(t) |-> t[i]]
  OBVIOUS
<1> QED
  BY Zenon, <1>1

\* An empty channel has no messages.
LEMMA RangeEmpty == Range(<<>>) = {} /\ IsInjective(<<>>)
  BY DEF Range, IsInjective

-----------------------------------------------------------------------------
(* The keys of the answers on their way *)

Msg == [key : Keys, data : Data]

\* Projecting an answer channel to its keys gives a channel of keys.
LEMMA KeysOfType ==
    ASSUME NEW ch \in Seq(Msg)
    PROVE  /\ KeysOf(ch) \in Seq(Keys)
           /\ Len(KeysOf(ch)) = Len(ch)
           /\ \A i \in 1..Len(ch) : KeysOf(ch)[i] = ch[i].key
<1>1. DOMAIN ch = 1..Len(ch) /\ Len(ch) \in Nat
  OBVIOUS
<1>2. \A i \in 1..Len(ch) : ch[i] \in Msg
  BY <1>1
<1>3. \A i \in 1..Len(ch) : ch[i].key \in Keys
  BY Zenon, <1>2 DEF Msg
<1>4. KeysOf(ch) = [i \in 1..Len(ch) |-> ch[i].key]
  BY Zenon, <1>1 DEF KeysOf
<1> QED
  BY <1>1, <1>3, <1>4

\* An answer sent is a key sent.
LEMMA KeysOfAppend ==
    ASSUME NEW ch \in Seq(Msg), NEW m \in Msg
    PROVE  KeysOf(Append(ch, m)) = Append(KeysOf(ch), m.key)
<1>1. /\ Append(ch, m) \in Seq(Msg) /\ Len(Append(ch, m)) = Len(ch) + 1
      /\ \A i \in 1..Len(ch) : Append(ch, m)[i] = ch[i]
      /\ Append(ch, m)[Len(ch) + 1] = m
      /\ Len(ch) \in Nat
  OBVIOUS
<1>2. m.key \in Keys
  BY Zenon DEF Msg
<1>3. /\ Append(KeysOf(ch), m.key) \in Seq(Keys)
      /\ Len(Append(KeysOf(ch), m.key)) = Len(ch) + 1
      /\ \A i \in 1..Len(ch) : Append(KeysOf(ch), m.key)[i] = ch[i].key
      /\ Append(KeysOf(ch), m.key)[Len(ch) + 1] = m.key
  BY <1>2, KeysOfType
<1>4. /\ KeysOf(Append(ch, m)) \in Seq(Keys)
      /\ Len(KeysOf(Append(ch, m))) = Len(ch) + 1
      /\ \A i \in 1..(Len(ch) + 1) : KeysOf(Append(ch, m))[i] = Append(ch, m)[i].key
  BY Zenon, <1>1, KeysOfType
<1>5. \A i \in 1..(Len(ch) + 1) : KeysOf(Append(ch, m))[i] = Append(KeysOf(ch), m.key)[i]
  BY <1>1, <1>3, <1>4
<1> QED
  BY <1>1, <1>3, <1>4, <1>5, SameChannel

\* An answer received is a key received.
LEMMA KeysOfTail ==
    ASSUME NEW ch \in Seq(Msg), ch # <<>>
    PROVE  /\ KeysOf(ch) # <<>>
           /\ Head(KeysOf(ch)) = Head(ch).key
           /\ KeysOf(Tail(ch)) = Tail(KeysOf(ch))
<1>1. /\ Tail(ch) \in Seq(Msg) /\ Len(Tail(ch)) = Len(ch) - 1 /\ Len(ch) \in Nat \ {0}
      /\ \A i \in 1..Len(Tail(ch)) : Tail(ch)[i] = ch[i + 1]
      /\ Head(ch) = ch[1]
  OBVIOUS
<1>2. KeysOf(ch) \in Seq(Keys) /\ Len(KeysOf(ch)) = Len(ch) /\ KeysOf(ch) # <<>>
  BY Zenon, <1>1, KeysOfType
<1>3. /\ Tail(KeysOf(ch)) \in Seq(Keys)
      /\ Len(Tail(KeysOf(ch))) = Len(ch) - 1
      /\ \A i \in 1..(Len(ch) - 1) : Tail(KeysOf(ch))[i] = KeysOf(ch)[i + 1]
      /\ Head(KeysOf(ch)) = KeysOf(ch)[1]
  BY <1>2
<1>4. /\ KeysOf(Tail(ch)) \in Seq(Keys)
      /\ Len(KeysOf(Tail(ch))) = Len(ch) - 1
      /\ \A i \in 1..(Len(ch) - 1) : KeysOf(Tail(ch))[i] = Tail(ch)[i].key
  BY Zenon, <1>1, KeysOfType
<1>5. \A i \in 1..(Len(ch) - 1) : KeysOf(Tail(ch))[i] = Tail(KeysOf(ch))[i]
  BY <1>1, <1>3, <1>4, KeysOfType
<1>6. Head(KeysOf(ch)) = Head(ch).key
  BY <1>1, <1>3, KeysOfType
<1> QED
  BY SMTT(60), <1>1, <1>2, <1>3, <1>4, <1>5, <1>6, SameChannel

-----------------------------------------------------------------------------
(* Type correctness *)

\* Settling calls keeps the table of calls well-typed.
LEMMA SettleType ==
    ASSUME TypeOK, NEW rs, NEW st \in {"some", "none"}
    PROVE  /\ Settle(rs, st) \in [Reqs -> ReqState]
           /\ \A r \in Reqs : /\ Settle(rs, st)[r].key = req[r].key
                              /\ Settle(rs, st)[r].only = req[r].only
                              /\ Settle(rs, st)[r].st = "waiting" =>
                                   req[r].st = "waiting" /\ r \notin rs
<1> DEFINE new(r) == Settle(rs, st)[r]
<1>1. ASSUME NEW r \in Reqs
      PROVE  /\ new(r) \in ReqState
             /\ new(r).key = req[r].key /\ new(r).only = req[r].only
             /\ new(r).st = "waiting" => req[r].st = "waiting" /\ r \notin rs
  <2>1. req[r] \in ReqState
    BY Zenon DEF TypeOK
  <2>2. CASE r \in rs /\ req[r].st = "waiting"
    <3>1. new(r) = [req[r] EXCEPT !.st = st]
      BY Zenon, <2>2 DEF Settle
    <3> HIDE DEF new
    <3> QED
      BY Zenon, <2>1, <3>1 DEF ReqState
  <2>3. CASE ~(r \in rs /\ req[r].st = "waiting")
    <3>1. new(r) = req[r]
      BY Zenon, <2>3 DEF Settle
    <3> HIDE DEF new
    <3> QED
      BY Zenon, <2>1, <2>3, <3>1
  <2> QED
    BY Zenon, <2>2, <2>3
<1>2. Settle(rs, st) = [r \in Reqs |-> new(r)]
  BY Zenon DEF Settle
<1> HIDE DEF new
<1>3. Settle(rs, st) \in [Reqs -> ReqState] /\ \A r \in Reqs : Settle(rs, st)[r] = new(r)
  BY Zenon, <1>1, <1>2
<1> QED
  BY Zenon, <1>1, <1>3

\* A step that settles calls leaves what they ask for alone and makes none wait.
LEMMA SettleStep ==
    ASSUME TypeOK, NEW rs, NEW st \in {"some", "none"}, req' = Settle(rs, st)
    PROVE  \A q \in Reqs : /\ req'[q].key = req[q].key
                           /\ req'[q].only = req[q].only
                           /\ req'[q].st = "waiting" => req[q].st = "waiting" /\ q \notin rs
<1>1. \A q \in Reqs : /\ Settle(rs, st)[q].key = req[q].key
                      /\ Settle(rs, st)[q].only = req[q].only
                      /\ Settle(rs, st)[q].st = "waiting" => req[q].st = "waiting" /\ q \notin rs
  BY SettleType
<1> QED
  BY Zenon, <1>1

\* The waiters of a key are a set of calls, or absent.
LEMMA WaitersType ==
    /\ None \in Waiters
    /\ \A rs \in SUBSET Reqs : rs \in Waiters /\ rs # None
    /\ \A w \in Waiters : w # None => w \in SUBSET Reqs
<1>1. None \in Waiters
  BY Zenon DEF Waiters
<1>2. ASSUME NEW rs \in SUBSET Reqs PROVE rs \in Waiters /\ rs # None
  BY Zenon, ConstAssumption DEF Waiters
<1>3. ASSUME NEW w \in Waiters, w # None PROVE w \in SUBSET Reqs
  BY Zenon, <1>3 DEF Waiters
<1> QED
  BY Zenon, <1>1, <1>2, <1>3

\* The data of an answer is well-typed.
LEMMA DataType ==
    /\ \A ttl \in Nat : NewData(ttl) \in Data /\ EmptyData(ttl) \in Data
    /\ Answers \subseteq Data
    /\ EmptyData(ProtectiveTtl) \in Data
<1>1. \A ttl \in Nat : ttl + VanishWait \in Nat
  BY ConstAssumption
<1>2. \A ttl \in Nat : NewData(ttl) \in Data /\ EmptyData(ttl) \in Data
  BY Zenon, <1>1 DEF NewData, EmptyData, Data, Ticks
<1>3. Answers \subseteq Data
  BY Zenon, <1>2, ConstAssumption DEF Answers
<1> QED
  BY Zenon, <1>2, <1>3, ConstAssumption

\* A tick keeps deadlines well-typed, present or absent ...
LEMMA LessType ==
    \A n \in Ticks \cup {None} : Less(n) \in Ticks \cup {None} /\ (Less(n) = None <=> n = None)
  BY ConstAssumption DEF Less, Ticks

\* ... and so it does the records.
LEMMA OlderType ==
    /\ Older(None) = None
    /\ \A d \in Data : Older(d) \in Data /\ Older(d).van = Less(d.van) /\ d # None
<1>1. ASSUME NEW d \in Data PROVE d # None
  BY Zenon, ConstAssumption
<1>2. ASSUME NEW n \in Nat PROVE Less(n) \in Nat
  BY DEF Less
<1>3. ASSUME NEW d \in Data PROVE Older(d) \in Data /\ Older(d).van = Less(d.van)
  <2>1. Older(d) = [d EXCEPT !.exp = Less(@), !.van = Less(@)]
    BY Zenon, <1>1 DEF Older
  <2>2. d.exp \in Nat /\ d.van \in Nat
    BY Zenon DEF Data, Ticks
  <2> QED
    BY Zenon, <2>1, <2>2, <1>2 DEF Data, Ticks
<1> QED
  BY Zenon, <1>1, <1>3 DEF Older

\* Sending an answer keeps its channel well-typed.
LEMMA SendRspType ==
    ASSUME TypeOK, NEW k \in Keys, NEW data \in Data, SendRsp(k, data)
    PROVE  rspCh' \in Seq(Msg)
<1>1. [key |-> k, data |-> data] \in Msg
  BY Zenon DEF Msg
<1> QED
  <2>1. rspCh \in Seq(Msg)
    BY Zenon DEF TypeOK, Msg
  <2>2. CASE Running
    <3>1. rspCh' = Append(rspCh, [key |-> k, data |-> data])
      BY Zenon, <2>2 DEF SendRsp
    <3> QED
      BY <1>1, <2>1, <3>1
  <2>3. CASE ~Running
    BY Zenon, <2>1, <2>3 DEF SendRsp
  <2> QED
    BY Zenon, <2>2, <2>3

\* The batch loop is entered, and entered again, only with requests left of the
\* batch: what makes the bound of the counter inductive.
BatchLeft == pc = "req" => batch > 0

\* The first message of a non-empty answer channel is well-typed.
LEMMA HeadRsp ==
    ASSUME TypeOK, rspCh # <<>>
    PROVE  /\ Head(rspCh).key \in Keys
           /\ Head(rspCh).data \in Data
           /\ Head(rspCh).data.van \in Ticks
           /\ Tail(rspCh) \in Seq(Msg)
<1>1. rspCh \in Seq(Msg)
  BY Zenon DEF TypeOK, Msg
<1>2. Head(rspCh) \in Msg /\ Tail(rspCh) \in Seq(Msg)
  BY <1>1
<1> QED
  BY Zenon, <1>2 DEF Msg, Data

\* A tick ages the answers on their way and leaves their keys alone.
LEMMA TickRsp ==
    ASSUME TypeOK, Tick
    PROVE  rspCh' \in Seq(Msg) /\ KeysOf(rspCh') = KeysOf(rspCh)
<1>1. rspCh \in Seq(Msg) /\ DOMAIN rspCh = 1..Len(rspCh) /\ Len(rspCh) \in Nat
  BY DEF TypeOK, Msg
<1>2. ASSUME NEW i \in 1..Len(rspCh)
      PROVE  /\ [rspCh[i] EXCEPT !.data = Older(@)] \in Msg
             /\ [rspCh[i] EXCEPT !.data = Older(@)].key = rspCh[i].key
  <2>1. rspCh[i] \in Msg
    BY <1>1
  <2>2. Older(rspCh[i].data) \in Data
    BY Zenon, <2>1, OlderType DEF Msg
  <2> QED
    BY Zenon, <2>1, <2>2 DEF Msg
<1>3. rspCh' = [i \in 1..Len(rspCh) |-> [rspCh[i] EXCEPT !.data = Older(@)]]
  BY Zenon, <1>1 DEF Tick
<1>4. rspCh' \in Seq(Msg) /\ DOMAIN rspCh' = DOMAIN rspCh
  BY <1>1, <1>2, <1>3
<1>5. \A i \in DOMAIN rspCh : rspCh'[i].key = rspCh[i].key
  BY Zenon, <1>1, <1>2, <1>3
<1> QED
  BY Zenon, <1>4, <1>5 DEF KeysOf

\* Every action of every task keeps the state well-typed.
LEMMA TypeInductive == TypeOK /\ BatchLeft /\ [Next]_vars => TypeOK' /\ BatchLeft'
<1> SUFFICES ASSUME TypeOK, BatchLeft, [Next]_vars PROVE TypeOK' /\ BatchLeft'
  OBVIOUS
<1> DEFINE Goal == TypeOK' /\ BatchLeft'
<1>1. ASSUME NEW r \in Reqs, do_fetch(r) PROVE Goal
  <2>1. \A st \in {"waiting", "none"} : [req EXCEPT ![r].st = st] \in [Reqs -> ReqState]
    BY Zenon, <1>1 DEF TypeOK, ReqState
  <2>2. req' \in [Reqs -> ReqState]
    BY Zenon, <1>1, <2>1 DEF do_fetch
  <2>3. reqCh' \in Seq(Reqs)
    <3>1. Append(reqCh, r) \in Seq(Reqs) /\ reqCh \in Seq(Reqs)
      BY <1>1 DEF TypeOK
    <3> QED
      BY Zenon, <1>1, <3>1 DEF do_fetch
  <2> QED
    BY Zenon, <1>1, <2>2, <2>3 DEF TypeOK, BatchLeft, do_fetch, cacheVars, queryVars
<1>2. ASSUME NEW r \in Reqs, FetchTimeout(r) PROVE Goal
  BY Zenon, <1>2, SettleType DEF TypeOK, BatchLeft, FetchTimeout, cacheVars, queryVars
<1>3. CASE DropHandles
  BY Zenon, <1>3 DEF TypeOK, BatchLeft, DropHandles, cacheVars, queryVars
<1>4. ASSUME NEW how \in {"done", "panic"}, NEW answered, CacheStops(how, answered)
      PROVE  Goal
  <2>1. req' \in [Reqs -> ReqState]
    BY <1>4, SettleType DEF CacheStops
  <2>2. reqCh' \in Seq(Reqs) /\ rspCh' \in Seq([key : Keys, data : Data])
    BY <1>4 DEF CacheStops
  <2>3. /\ doing' \in [Keys -> Waiters]
        /\ cache' \in [Keys -> Data \cup {None}]
        /\ vanish' \in [Keys -> Ticks \cup {None}]
    BY Zenon, <1>4, WaitersType DEF CacheStops
  <2> QED
    BY Zenon, <1>4, <2>1, <2>2, <2>3 DEF TypeOK, BatchLeft, CacheStops, queryVars
<1>5. CASE handle_rsp
  <2>1. rspCh' \in Seq([key : Keys, data : Data])
    BY Zenon, <1>5, HeadRsp DEF handle_rsp, Msg
  <2>2. req' \in [Reqs -> ReqState]
    BY <1>5, SettleType DEF handle_rsp, TypeOK
  <2>3. doing' \in [Keys -> Waiters]
    <3>1. \A k \in Keys : [doing EXCEPT ![k] = None] \in [Keys -> Waiters]
      BY Zenon, WaitersType DEF TypeOK
    <3> QED
      BY <1>5, <3>1, HeadRsp DEF handle_rsp, TypeOK
  <2>4. cache' \in [Keys -> Data \cup {None}] /\ vanish' \in [Keys -> Ticks \cup {None}]
    <3>1. \A k \in Keys, d \in Data :
             [cache EXCEPT ![k] = d] \in [Keys -> Data \cup {None}]
      BY Zenon DEF TypeOK
    <3>2. \A k \in Keys, n \in Ticks :
             [vanish EXCEPT ![k] = n] \in [Keys -> Ticks \cup {None}]
      BY Zenon DEF TypeOK
    <3> QED
      BY Zenon, <1>5, <3>1, <3>2, HeadRsp DEF handle_rsp, TypeOK
  <2> QED
    BY Zenon, <1>5, <2>1, <2>2, <2>3, <2>4 DEF TypeOK, BatchLeft, handle_rsp, queryVars
<1>6. CASE RspPending
  BY Zenon, <1>6 DEF TypeOK, BatchLeft, RspPending, queryVars
<1>7. CASE RspClosed
  BY Zenon, <1>7, <1>4 DEF RspClosed
<1>8. ASSUME NEW k \in Keys, handle_vanish(k) PROVE Goal
  BY Zenon, <1>8 DEF TypeOK, BatchLeft, handle_vanish, queryVars
<1>9. CASE VanishPending
  BY ConstAssumption, <1>9 DEF TypeOK, BatchLeft, VanishPending, queryVars
<1>10. CASE handle_req
  <2> DEFINE r == Head(reqCh)
             k == req[r].key
  <2>1. r \in Reqs /\ reqCh' \in Seq(Reqs) /\ k \in Keys
    BY <1>10 DEF handle_req, TypeOK, ReqState
  <2>2. BatchStep
    BY Zenon, <1>10 DEF handle_req, ReqCacheOnly, ReqCached, ReqQuery
  <2>3. pc' \in {"rsp", "req"} /\ batch' \in 0..BatchCount /\ BatchLeft'
    BY ConstAssumption, <1>10, <2>2 DEF BatchStep, handle_req, TypeOK, BatchLeft
  <2>4. req' \in [Reqs -> ReqState]
    <3>1. CASE ReqCacheOnly(r)
      BY Zenon, <3>1, SettleType DEF ReqCacheOnly
    <3>2. CASE ReqCached(r)
      BY Zenon, <3>2, SettleType DEF ReqCached
    <3>3. CASE ReqQuery(r)
      BY Zenon, <3>3 DEF ReqQuery, TypeOK
    <3> QED
      BY Zenon, <1>10, <3>1, <3>2, <3>3 DEF handle_req
  <2>5. ASSUME NEW rs \in SUBSET Reqs, SendReq(k, rs)
        PROVE  doing' \in [Keys -> Waiters] /\ queryCh' \in Seq(Keys)
    BY <2>1, <2>5, WaitersType DEF SendReq, TypeOK
  <2>6. doing' \in [Keys -> Waiters] /\ queryCh' \in Seq(Keys)
    <3>1. CASE ReqCacheOnly(r)
      BY Zenon, <3>1 DEF ReqCacheOnly, TypeOK
    <3>2. CASE ReqCached(r)
      BY <3>2, <2>5 DEF ReqCached, TypeOK
    <3>3. CASE ReqQuery(r)
      <4>1. CASE doing[k] = None
        BY <3>3, <4>1, <2>1, <2>5 DEF ReqQuery
      <4>2. CASE doing[k] # None
        <5>1. doing[k] \in Waiters
          BY Zenon, <2>1 DEF TypeOK
        <5>2. doing[k] \cup {r} \in SUBSET Reqs
          BY Zenon, <4>2, <2>1, <5>1, WaitersType
        <5>3. [doing EXCEPT ![k] = @ \cup {r}] \in [Keys -> Waiters]
          BY Zenon, <5>2, <2>1, WaitersType DEF TypeOK
        <5> QED
          BY Zenon, <3>3, <4>2, <5>3 DEF ReqQuery, TypeOK
      <4> QED
        BY Zenon, <4>1, <4>2
    <3> QED
      BY Zenon, <1>10, <3>1, <3>2, <3>3 DEF handle_req
  <2> QED
    BY Zenon, <1>10, <2>1, <2>3, <2>4, <2>6 DEF TypeOK, handle_req, queryVars
<1>11. CASE SendReqUnreachable
  BY Zenon, <1>11, <1>4 DEF SendReqUnreachable
<1>12. CASE ReqPending
  BY Zenon, <1>12 DEF TypeOK, BatchLeft, ReqPending, queryVars
<1>13. CASE ReqClosed
  BY Zenon, <1>13, <1>4 DEF ReqClosed
<1>14. CASE QueryReq
  <2>1. Head(queryCh) \in Keys /\ queryCh' \in Seq(Keys)
    BY <1>14 DEF QueryReq, TypeOK
  <2>2. doingCache' \in SUBSET Keys /\ timeoutQ' \in [Keys -> Ticks \cup {None}]
    BY ZenonT(40), <1>14, <2>1, ConstAssumption DEF QueryReq, should_send_raw_query, TypeOK, Ticks
  <2> QED
    BY Zenon, <1>14, <2>1, <2>2 DEF TypeOK, BatchLeft, QueryReq, cacheVars
<1>15. CASE QueryReqFail
  <2>1. Head(queryCh) \in Keys /\ queryCh' \in Seq(Keys)
    BY <1>15 DEF QueryReqFail, TypeOK
  <2>2. rspCh' \in Seq(Msg)
    BY Zenon, <1>15, <2>1, SendRspType, DataType DEF QueryReqFail
  <2> QED
    BY Zenon, <1>15, <2>1, <2>2 DEF TypeOK, BatchLeft, QueryReqFail, cacheVars, queryVars, Msg
<1>16. ASSUME NEW k \in Keys, NEW data \in Answers, QueryRsp(k, data) PROVE Goal
  <2>1. rspCh' \in Seq(Msg)
    <3>1. CASE k \in doingCache
      <4>1. SendRsp(k, data)
        BY Zenon, <1>16, <3>1 DEF QueryRsp, send_rsp_data
      <4> QED
        BY Zenon, <1>16, <4>1, SendRspType, DataType
    <3>2. CASE k \notin doingCache
      BY Zenon, <1>16, <3>2 DEF QueryRsp, send_rsp_data, TypeOK, Msg
    <3> QED
      BY Zenon, <3>1, <3>2
  <2>2. doingCache' \in SUBSET Keys /\ timeoutQ' \in [Keys -> Ticks \cup {None}]
    BY Zenon, <1>16 DEF QueryRsp, send_rsp_data, TypeOK
  <2> QED
    BY Zenon, <1>16, <2>1, <2>2 DEF TypeOK, BatchLeft, QueryRsp, cacheVars, Msg
<1>17. ASSUME NEW k \in Keys, QueryExpired(k) PROVE Goal
  <2>1. rspCh' \in Seq(Msg)
    BY Zenon, <1>17, SendRspType, DataType DEF QueryExpired, TypeOK, Msg
  <2>2. doingCache' \in SUBSET Keys /\ timeoutQ' \in [Keys -> Ticks \cup {None}]
    BY Zenon, <1>17 DEF QueryExpired, TypeOK
  <2> QED
    BY Zenon, <1>17, <2>1, <2>2 DEF TypeOK, BatchLeft, QueryExpired, cacheVars, Msg
<1>18. CASE QueryStops
  <2>1. queryCh' \in Seq(Keys) /\ doingCache' \in SUBSET Keys
    BY <1>18 DEF QueryStops
  <2>2. timeoutQ' \in [Keys -> Ticks \cup {None}]
    BY Zenon, <1>18 DEF QueryStops
  <2> QED
    BY Zenon, <1>18, <2>1, <2>2 DEF TypeOK, BatchLeft, QueryStops, cacheVars
<1>19. CASE Tick
  <2>1. rspCh' \in Seq([key : Keys, data : Data])
    BY Zenon, <1>19, TickRsp DEF Msg
  <2>2. /\ cache' \in [Keys -> Data \cup {None}]
        /\ vanish' \in [Keys -> Ticks \cup {None}]
        /\ timeoutQ' \in [Keys -> Ticks \cup {None}]
    BY Zenon, <1>19, LessType, OlderType DEF Tick, TypeOK
  <2> QED
    BY Zenon, <1>19, <2>1, <2>2 DEF TypeOK, BatchLeft, Tick
<1>20. CASE UNCHANGED vars
  BY Zenon, <1>20 DEF TypeOK, BatchLeft, vars
<1> QED
  BY Zenon, <1>1, <1>2, <1>3, <1>5, <1>6, <1>7, <1>8, <1>9, <1>10, <1>11, <1>12, <1>13,
     <1>14, <1>15, <1>16, <1>17, <1>18, <1>19, <1>20
     DEF Next, poll_loop, QueryClosed, QuerySocketError

\* The state that create_effective_cache sets up is well-typed.
LEMMA TypeInit == Init => TypeOK /\ BatchLeft
<1> SUFFICES ASSUME Init PROVE TypeOK /\ BatchLeft
  OBVIOUS
<1>1. req \in [Reqs -> ReqState]
  BY Zenon DEF Init, ReqState
<1>2. doing \in [Keys -> Waiters]
  BY Zenon, WaitersType DEF Init
<1>3. /\ cache \in [Keys -> Data \cup {None}]
      /\ vanish \in [Keys -> Ticks \cup {None}]
      /\ timeoutQ \in [Keys -> Ticks \cup {None}]
  BY Zenon DEF Init
<1> QED
  BY <1>1, <1>2, <1>3, ConstAssumption DEF Init, TypeOK, BatchLeft

\* TypeOK holds in every reachable state of the cache and its query task.
THEOREM TypeCorrect == Spec => []TypeOK
  BY TypeInit, TypeInductive, PTL DEF Spec

-----------------------------------------------------------------------------
(* The timers *)

\* Every action keeps the DelayQueues in step with the tables.
LEMMA TimersInductive == TypeOK /\ TimersTrack /\ [Next]_vars => TimersTrack'
<1> SUFFICES ASSUME TypeOK, TimersTrack, [Next]_vars PROVE TimersTrack'
  OBVIOUS
<1>1. CASE UNCHANGED <<cache, vanish, doingCache, timeoutQ>>
  BY Zenon, <1>1 DEF TimersTrack
<1>2. CASE \E how, answered : CacheStops(how, answered)
  BY Zenon, <1>2 DEF CacheStops, queryVars, TimersTrack
<1>3. CASE handle_rsp
  <2>1. UNCHANGED <<doingCache, timeoutQ>>
    BY Zenon, <1>3 DEF handle_rsp, queryVars
  <2>2. \A k \in Keys : vanish'[k] = IF cache'[k] = None THEN None ELSE cache'[k].van
    <3> DEFINE h == Head(rspCh).key
               data == Head(rspCh).data
    <3>1. h \in Keys /\ data # None
      BY Zenon, <1>3, HeadRsp, OlderType DEF handle_rsp
    <3>2. \/ cache' = [cache EXCEPT ![h] = data] /\ vanish' = [vanish EXCEPT ![h] = data.van]
          \/ UNCHANGED <<cache, vanish>>
      BY Zenon, <1>3 DEF handle_rsp
    <3> HIDE DEF h, data
    <3> QED
      BY <3>1, <3>2 DEF TimersTrack, TypeOK
  <2> QED
    BY Zenon, <2>1, <2>2 DEF TimersTrack
<1>4. ASSUME NEW k \in Keys, handle_vanish(k) PROVE TimersTrack'
  BY Zenon, <1>4 DEF handle_vanish, queryVars, TimersTrack, TypeOK
<1>5. CASE QueryReq
  <2>1. Head(queryCh) \in Keys
    BY <1>5 DEF QueryReq, TypeOK
  <2> QED
    BY <1>5, <2>1, ConstAssumption DEF QueryReq, should_send_raw_query, cacheVars, TimersTrack, TypeOK
<1>6. ASSUME NEW k \in Keys, NEW data, QueryRsp(k, data) PROVE TimersTrack'
  BY <1>6 DEF QueryRsp, send_rsp_data, cacheVars, TimersTrack, TypeOK
<1>7. ASSUME NEW k \in Keys, QueryExpired(k) PROVE TimersTrack'
  BY Zenon, <1>7 DEF QueryExpired, cacheVars, TimersTrack, TypeOK
<1>8. CASE QueryStops
  BY Zenon, <1>8 DEF QueryStops, cacheVars, TimersTrack
<1>9. CASE Tick
  <2>1. \A k \in Keys : vanish'[k] = IF cache'[k] = None THEN None ELSE cache'[k].van
    BY <1>9, LessType, OlderType DEF Tick, TimersTrack, TypeOK
  <2>2. \A k \in Keys : k \in doingCache' <=> timeoutQ'[k] # None
    BY Zenon, <1>9, LessType DEF Tick, TimersTrack, TypeOK
  <2> QED
    BY Zenon, <2>1, <2>2 DEF TimersTrack
<1>10. ASSUME NEW r \in Reqs, do_fetch(r) \/ FetchTimeout(r) PROVE TimersTrack'
  BY Zenon, <1>10, <1>1 DEF do_fetch, FetchTimeout, cacheVars, queryVars
<1>11. CASE handle_req
  BY Zenon, <1>11, <1>1 DEF handle_req, queryVars
<1>12. CASE DropHandles \/ RspPending \/ VanishPending \/ ReqPending \/ QueryReqFail
  BY Zenon, <1>12, <1>1 DEF DropHandles, RspPending, VanishPending, ReqPending, QueryReqFail,
                     cacheVars, queryVars
<1>13. CASE UNCHANGED vars
  BY Zenon, <1>13, <1>1 DEF vars
<1> QED
  BY Zenon, <1>2, <1>3, <1>4, <1>5, <1>6, <1>7, <1>8, <1>9, <1>10, <1>11, <1>12, <1>13
     DEF Next, poll_loop, RspClosed, SendReqUnreachable, ReqClosed, QueryClosed, QuerySocketError

\* The DelayQueues of both tasks always agree with the tables of their keys.
THEOREM TimersAgree == Spec => []TimersTrack
<1>1. Init => TimersTrack
  BY Zenon DEF Init, TimersTrack
<1> QED
  BY <1>1, TypeCorrect, TimersInductive, PTL DEF Spec

\* No step drops a record before the vanish time of its latest answer.
THEOREM RecordsAreKept == Spec => RecordKept
<1> DEFINE Kept == \A k \in Keys : cache[k] # None /\ cache'[k] = None /\ Running' => cache[k].van = 0
<1>1. TypeOK /\ TimersTrack /\ Next => Kept
  <2> SUFFICES ASSUME TypeOK, TimersTrack, Next, NEW k \in Keys,
                      cache[k] # None, cache'[k] = None, Running'
               PROVE  cache[k].van = 0
    OBVIOUS
  <2>1. CASE UNCHANGED cache
    BY Zenon, <2>1
  <2>2. CASE \E how \in {"done", "panic"} : \E answered : CacheStops(how, answered)
    BY Zenon, <2>2 DEF CacheStops, Running
  <2>3. CASE handle_rsp
    BY <2>3, HeadRsp, OlderType DEF handle_rsp, TypeOK
  <2>4. ASSUME NEW v \in Keys, handle_vanish(v) PROVE cache[k].van = 0
    BY Zenon, <2>4 DEF handle_vanish, TimersTrack, TypeOK
  <2>5. CASE Tick
    <3>1. cache[k] \in Data
      BY Zenon DEF TypeOK
    <3> QED
      BY Zenon, <3>1, <2>5, OlderType, ConstAssumption DEF Tick
  <2>6. CASE \E r \in Reqs : do_fetch(r) \/ FetchTimeout(r)
    BY Zenon, <2>6, <2>1 DEF do_fetch, FetchTimeout, cacheVars
  <2>7. CASE handle_req
    BY Zenon, <2>7, <2>1 DEF handle_req
  <2>8. CASE DropHandles \/ RspPending \/ VanishPending \/ ReqPending
    BY Zenon, <2>8, <2>1 DEF DropHandles, RspPending, VanishPending, ReqPending, cacheVars
  <2>9. CASE QueryReq \/ QueryReqFail \/ QueryStops
    BY Zenon, <2>9, <2>1 DEF QueryReq, QueryReqFail, QueryStops, cacheVars
  <2>10. CASE \E q \in Keys : QueryExpired(q) \/ \E data \in Answers : QueryRsp(q, data)
    BY Zenon, <2>10, <2>1 DEF QueryExpired, QueryRsp, cacheVars
  <2> QED
    BY Zenon, <2>2, <2>3, <2>4, <2>5, <2>6, <2>7, <2>8, <2>9, <2>10
       DEF Next, poll_loop, RspClosed, SendReqUnreachable, ReqClosed, QueryClosed, QuerySocketError
<1> QED
  BY <1>1, TypeCorrect, TimersAgree, PTL DEF Spec, RecordKept

-----------------------------------------------------------------------------
(* The waiters *)

\* What handle_req does to the table of waiters, in one fact: only the entry of
\* the request's key changes, and only by being filled or extended.
LEMMA HandleReqDoing ==
    ASSUME TypeOK, handle_req
    PROVE  LET r == Head(reqCh)
               k == req[r].key
           IN  /\ r \in Reqs /\ k \in Keys
               /\ \/ /\ doing' = doing /\ queryCh' = queryCh
                     /\ \E st \in {"some", "none"} : req' = Settle({r}, st)
                  \/ /\ doing[k] = None /\ queryUp /\ ~req[r].only
                     /\ doing' = [doing EXCEPT ![k] = {}]
                     /\ queryCh' = Append(queryCh, k)
                     /\ req' = Settle({r}, "some")
                  \/ /\ doing[k] = None /\ cache[k] = None /\ queryUp /\ ~req[r].only
                     /\ doing' = [doing EXCEPT ![k] = {r}]
                     /\ queryCh' = Append(queryCh, k)
                     /\ req' = req
                  \/ /\ doing[k] # None /\ cache[k] = None /\ ~req[r].only
                     /\ doing' = [doing EXCEPT ![k] = doing[k] \cup {r}]
                     /\ queryCh' = queryCh
                     /\ req' = req
<1> DEFINE r == Head(reqCh)
           k == req[r].key
<1>1. r \in Reqs /\ k \in Keys
  BY DEF handle_req, TypeOK, ReqState
<1>2. CASE ReqCacheOnly(r)
  BY Zenon, <1>1, <1>2 DEF ReqCacheOnly
<1>3. CASE ReqCached(r)
  <2>1. CASE cache[k].exp = 0 /\ doing[k] = None
    BY Zenon, <1>1, <1>3, <2>1 DEF ReqCached, SendReq
  <2>2. CASE ~(cache[k].exp = 0 /\ doing[k] = None)
    <3>1. doing' = doing /\ queryCh' = queryCh /\ req' = Settle({r}, "some")
      BY Zenon, <1>3, <2>2 DEF ReqCached
    <3> QED
      BY Zenon, <1>1, <3>1
  <2> QED
    BY Zenon, <2>1, <2>2
<1>4. CASE ReqQuery(r)
  BY Zenon, <1>1, <1>4 DEF ReqQuery, SendReq, handle_req
<1> QED
  BY Zenon, <1>2, <1>3, <1>4 DEF handle_req

\* Every action keeps each waiting call in the place that will answer it.
LEMMA NoLostInductive == TypeOK /\ NoLostCall /\ [Next]_vars => NoLostCall'
<1> SUFFICES ASSUME TypeOK, NoLostCall, [Next]_vars PROVE NoLostCall'
  OBVIOUS
<1>1. CASE UNCHANGED <<req, reqCh, doing>>
  BY Zenon, <1>1 DEF NoLostCall
<1>2. ASSUME NEW how, NEW answered, CacheStops(how, answered) PROVE NoLostCall'
  <2>1. \A r \in Reqs : req'[r].st # "waiting"
    BY Zenon, <1>2, SettleType DEF CacheStops
  <2> QED
    BY Zenon, <1>2, <2>1 DEF CacheStops, NoLostCall
<1>3. ASSUME NEW r \in Reqs, do_fetch(r) PROVE NoLostCall'
  <2>1. /\ doing' = doing
        /\ \A q \in Reqs : req'[q].key = req[q].key /\ req'[q].only = req[q].only
        /\ \A q \in Reqs : q # r => req'[q] = req[q]
    <3>1. \A st : LET f == [req EXCEPT ![r].st = st]
                  IN  \A q \in Reqs : /\ f[q].key = req[q].key /\ f[q].only = req[q].only
                                      /\ q # r => f[q] = req[q]
      BY DEF TypeOK, ReqState
    <3>2. \E st : req' = [req EXCEPT ![r].st = st]
      BY Zenon, <1>3 DEF do_fetch
    <3>3. doing' = doing
      BY Zenon, <1>3 DEF do_fetch, cacheVars
    <3> QED
      BY <3>1, <3>2, <3>3
  <2>2. /\ Range(reqCh) \subseteq Range(reqCh')
        /\ req'[r].st = "waiting" => r \in Range(reqCh')
    <3>1. CASE Running
      <4>1. reqCh' = Append(reqCh, r) /\ reqCh \in Seq(Reqs)
        BY Zenon, <1>3, <3>1 DEF do_fetch, TypeOK
      <4>2. Range(reqCh') = Range(reqCh) \cup {r}
        BY <4>1, RangeAppend
      <4> QED
        BY Zenon, <4>2
    <3>2. CASE ~Running
      <4>1. req'[r].st = "none"
        BY <1>3, <3>2 DEF do_fetch, TypeOK, ReqState
      <4> QED
        BY Zenon, <1>3, <3>2, <4>1 DEF do_fetch
    <3> QED
      BY Zenon, <3>1, <3>2
  <2>3. \A k \in Keys : doing[k] # None => doing[k] \in SUBSET Reqs
    BY SMTT(20), WaitersType DEF TypeOK
  <2> QED
    BY <2>1, <2>2, <2>3 DEF NoLostCall
<1>4. ASSUME NEW r \in Reqs, FetchTimeout(r) PROVE NoLostCall'
  <2>1. \A k \in Keys : doing[k] # None => doing[k] \in SUBSET Reqs
    BY WaitersType DEF TypeOK
  <2>2. doing' = doing /\ reqCh' = reqCh /\ req' = Settle({r}, "none")
    BY Zenon, <1>4 DEF FetchTimeout, cacheVars
  <2>3. \A q \in Reqs : /\ req'[q].key = req[q].key /\ req'[q].only = req[q].only
                        /\ req'[q].st = "waiting" => req[q].st = "waiting"
    BY Zenon, <2>2, SettleStep
  <2>4. ASSUME NEW q \in Reqs, req'[q].st = "waiting"
        PROVE  q \in Range(reqCh') \/ (doing'[req'[q].key] # None /\ q \in doing'[req'[q].key])
    <3>1. req[q].st = "waiting" /\ req'[q].key = req[q].key
      BY Zenon, <2>3, <2>4
    <3> QED
      BY Zenon, <2>2, <3>1 DEF NoLostCall
  <2>5. ASSUME NEW k \in Keys, doing'[k] # None, NEW q \in doing'[k]
        PROVE  req'[q].key = k /\ ~req'[q].only
    <3>1. doing[k] # None /\ q \in doing[k] /\ q \in Reqs
      BY Zenon, <2>1, <2>2, <2>5
    <3> QED
      BY Zenon, <2>3, <3>1 DEF NoLostCall
  <2> QED
    BY Zenon, <2>4, <2>5 DEF NoLostCall
<1>5. CASE handle_rsp
  <2> DEFINE k == Head(rspCh).key
  <2>1. k \in Keys /\ reqCh' = reqCh
    BY Zenon, <1>5, HeadRsp DEF handle_rsp
  <2>2. CASE doing[k] = None
    BY Zenon, <1>5, <2>1, <2>2, <1>1 DEF handle_rsp
  <2>3. CASE doing[k] # None
    <3>1. req' = Settle(doing[k], "some") /\ doing' = [doing EXCEPT ![k] = None]
      BY Zenon, <1>5, <2>3 DEF handle_rsp
    <3>2. \A j \in Keys : doing[j] # None => doing[j] \in SUBSET Reqs
      BY WaitersType DEF TypeOK
    <3> HIDE DEF k
    <3>3. \A r \in Reqs : req'[r].st = "waiting" =>
             r \in Range(reqCh') \/ (doing'[req'[r].key] # None /\ r \in doing'[req'[r].key])
      <4> SUFFICES ASSUME NEW r \in Reqs, req'[r].st = "waiting"
                   PROVE  r \in Range(reqCh') \/ (doing'[req'[r].key] # None /\ r \in doing'[req'[r].key])
        OBVIOUS
      <4>1. req'[r].key = req[r].key /\ req[r].st = "waiting" /\ r \notin doing[k] /\ req[r].key \in Keys
        BY <3>1, SettleType DEF TypeOK, ReqState
      <4>2. req[r].key # k => doing'[req[r].key] = doing[req[r].key]
        BY Zenon, <3>1, <4>1 DEF TypeOK
      <4> QED
        BY Zenon, <2>1, <4>1, <4>2 DEF NoLostCall
    <3>4. \A j \in Keys : doing'[j] # None =>
             \A r \in doing'[j] : req'[r].key = j /\ ~req'[r].only
      <4> SUFFICES ASSUME NEW j \in Keys, doing'[j] # None, NEW r \in doing'[j]
                   PROVE  req'[r].key = j /\ ~req'[r].only
        OBVIOUS
      <4>1. doing[j] # None /\ r \in doing[j] /\ r \in Reqs
        BY Zenon, <3>1, <3>2 DEF TypeOK
      <4>2. req[r].key = j /\ ~req[r].only
        BY Zenon, <4>1 DEF NoLostCall
      <4>3. req'[r].key = req[r].key /\ req'[r].only = req[r].only
        BY Zenon, <3>1, <4>1, SettleStep
      <4> QED
        BY Zenon, <4>2, <4>3
    <3> QED
      BY Zenon, <3>3, <3>4 DEF NoLostCall
  <2> QED
    BY Zenon, <2>2, <2>3

<1>6. CASE handle_req
  <2> DEFINE r == Head(reqCh)
             k == req[r].key
  <2>1. r \in Reqs /\ k \in Keys
    BY Zenon, <1>6, HandleReqDoing
  <2>2. \A j \in Keys : doing[j] # None => doing[j] \in SUBSET Reqs
    BY WaitersType DEF TypeOK
  <2>3. \A q \in Range(reqCh) : q = r \/ q \in Range(reqCh')
    BY <1>6, RangeTail DEF handle_req, TypeOK
  <2>4. {r} # None /\ {} # None /\ doing \in [Keys -> Waiters]
    BY Zenon, <2>1, WaitersType DEF TypeOK
  <2>a. ASSUME \A q \in Reqs : /\ req'[q].key = req[q].key /\ req'[q].only = req[q].only
                               /\ req'[q].st = "waiting" => req[q].st = "waiting" /\ q # r,
               \A j \in Keys : doing[j] # None => doing'[j] = doing[j],
               \A j \in Keys : doing'[j] # None =>
                   doing'[j] = {} \/ (doing[j] # None /\ doing'[j] = doing[j])
        PROVE  NoLostCall'
    <3> HIDE DEF r, k
    <3>1. ASSUME NEW q \in Reqs, req'[q].st = "waiting"
          PROVE  q \in Range(reqCh') \/ (doing'[req'[q].key] # None /\ q \in doing'[req'[q].key])
      <4>0. req[q].key \in Keys
        BY Zenon DEF TypeOK, ReqState
      <4>1. req[q].st = "waiting" /\ q # r /\ req'[q].key = req[q].key /\ req[q].key \in Keys
        BY Zenon, <2>a, <3>1, <4>0
      <4>2. q \in Range(reqCh) \/ (doing[req[q].key] # None /\ q \in doing[req[q].key])
        BY Zenon, <4>1 DEF NoLostCall
      <4> QED
        BY Zenon, <2>3, <2>a, <4>1, <4>2
    <3>2. ASSUME NEW j \in Keys, doing'[j] # None, NEW q \in doing'[j]
          PROVE  req'[q].key = j /\ ~req'[q].only
      <4>1. doing[j] # None /\ q \in doing[j] /\ q \in Reqs
        BY Zenon, <2>2, <2>a, <3>2
      <4>2. req[q].key = j /\ ~req[q].only
        BY Zenon, <4>1 DEF NoLostCall
      <4> QED
        BY Zenon, <2>a, <4>1, <4>2
    <3> QED
      BY Zenon, <3>1, <3>2 DEF NoLostCall
  <2>5. CASE /\ doing' = doing
             /\ \E st \in {"some", "none"} : req' = Settle({r}, st)
    <3> HIDE DEF r, k
    <3>1. \A q \in Reqs : /\ req'[q].key = req[q].key /\ req'[q].only = req[q].only
                          /\ req'[q].st = "waiting" => req[q].st = "waiting" /\ q # r
      BY Zenon, <2>5, SettleStep
    <3>2. \A j \in Keys : doing[j] # None => doing'[j] = doing[j]
      BY Zenon, <2>5
    <3>3. \A j \in Keys : doing'[j] # None => doing'[j] = {} \/ (doing[j] # None /\ doing'[j] = doing[j])
      BY Zenon, <2>5
    <3> QED
      BY Zenon, <2>a, <3>1, <3>2, <3>3
  <2>6. CASE /\ doing[k] = None
             /\ doing' = [doing EXCEPT ![k] = {}]
             /\ req' = Settle({r}, "some")
    <3> HIDE DEF r, k
    <3>1. \A q \in Reqs : /\ req'[q].key = req[q].key /\ req'[q].only = req[q].only
                          /\ req'[q].st = "waiting" => req[q].st = "waiting" /\ q # r
      BY Zenon, <2>6, SettleStep
    <3>2. \A j \in Keys : doing[j] # None => doing'[j] = doing[j]
      BY Zenon, <2>1, <2>4, <2>6
    <3>3. \A j \in Keys : doing'[j] # None => doing'[j] = {} \/ (doing[j] # None /\ doing'[j] = doing[j])
      BY Zenon, <2>1, <2>4, <2>6
    <3> QED
      BY Zenon, <2>a, <3>1, <3>2, <3>3
  <2>7. CASE /\ ~req[r].only /\ req' = req
             /\ \/ doing[k] = None /\ doing' = [doing EXCEPT ![k] = {r}]
                \/ doing[k] # None /\ doing' = [doing EXCEPT ![k] = doing[k] \cup {r}]
    <3>1. \A j \in Keys : j # k => doing'[j] = doing[j]
      BY Zenon, <2>1, <2>4, <2>7
    <3>2. /\ doing'[k] # None /\ r \in doing'[k]
          /\ \A q \in doing'[k] : q = r \/ (doing[k] # None /\ q \in doing[k])
          /\ doing[k] # None => doing[k] \subseteq doing'[k]
      <4>1. CASE doing[k] = None
        BY <2>1, <2>4, <2>7, <4>1
      <4>2. CASE doing[k] # None
        <5>1. doing[k] \cup {r} \in SUBSET Reqs
          BY Zenon, <2>1, <2>2, <4>2
        <5>2. doing[k] \cup {r} # None
          BY Zenon, <5>1, WaitersType
        <5>3. doing'[k] = doing[k] \cup {r}
          BY Zenon, <2>1, <2>4, <2>7, <4>2
        <5> QED
          BY Zenon, <4>2, <5>2, <5>3
      <4> QED
        BY Zenon, <4>1, <4>2
    <3>3. \A q \in Reqs : req'[q].st = "waiting" =>
             q \in Range(reqCh') \/ (doing'[req'[q].key] # None /\ q \in doing'[req'[q].key])
      <4> SUFFICES ASSUME NEW q \in Reqs, req[q].st = "waiting"
                   PROVE  q \in Range(reqCh') \/ (doing'[req[q].key] # None /\ q \in doing'[req[q].key])
        BY Zenon, <2>7
      <4>1. req[q].key \in Keys
        BY SMTT(20) DEF TypeOK, ReqState
      <4>2. q \in Range(reqCh) \/ (doing[req[q].key] # None /\ q \in doing[req[q].key])
        BY Zenon DEF NoLostCall
      <4>3. CASE q = r
        BY Zenon, <3>2, <4>3
      <4>4. CASE q # r /\ q \in Range(reqCh)
        BY Zenon, <2>3, <4>4
      <4>5. CASE q # r /\ q \notin Range(reqCh)
        BY Zenon, <3>1, <3>2, <4>1, <4>2, <4>5
      <4> QED
        BY Zenon, <4>3, <4>4, <4>5
    <3>4. \A j \in Keys : doing'[j] # None =>
             \A q \in doing'[j] : req'[q].key = j /\ ~req'[q].only
      BY Zenon, <2>7, <3>1, <3>2 DEF NoLostCall
    <3> QED
      BY Zenon, <3>3, <3>4 DEF NoLostCall
  <2>8. \/ doing' = doing /\ \E st \in {"some", "none"} : req' = Settle({r}, st)
        \/ doing[k] = None /\ doing' = [doing EXCEPT ![k] = {}] /\ req' = Settle({r}, "some")
        \/ /\ ~req[r].only /\ req' = req
           /\ \/ doing[k] = None /\ doing' = [doing EXCEPT ![k] = {r}]
              \/ doing[k] # None /\ doing' = [doing EXCEPT ![k] = doing[k] \cup {r}]
    BY Zenon, <1>6, HandleReqDoing
  <2> QED
    BY Zenon, <2>5, <2>6, <2>7, <2>8
<1>7. CASE DropHandles \/ RspPending \/ VanishPending \/ ReqPending \/ QueryStops \/ Tick
  BY Zenon, <1>7, <1>1 DEF DropHandles, RspPending, VanishPending, ReqPending, QueryStops, Tick, cacheVars
<1>8. CASE QueryReq \/ QueryReqFail
  BY Zenon, <1>8, <1>1 DEF QueryReq, QueryReqFail, cacheVars
<1>9. CASE \E k \in Keys : handle_vanish(k)
  BY Zenon, <1>9, <1>1 DEF handle_vanish
<1>10. CASE \E k \in Keys : QueryExpired(k) \/ \E data \in Answers : QueryRsp(k, data)
  BY Zenon, <1>10, <1>1 DEF QueryExpired, QueryRsp, cacheVars
<1>11. CASE UNCHANGED vars
  BY Zenon, <1>11, <1>1 DEF vars
<1> QED
  BY Zenon, <1>2, <1>3, <1>4, <1>5, <1>6, <1>7, <1>8, <1>9, <1>10, <1>11
     DEF Next, poll_loop, RspClosed, SendReqUnreachable, ReqClosed, QueryClosed, QuerySocketError

\* A call whose caller waits is always queued or among the waiters of its key.
THEOREM NoCallIsLost == Spec => []NoLostCall
<1>1. Init => NoLostCall
  BY Zenon DEF Init, NoLostCall
<1> QED
  BY <1>1, TypeCorrect, NoLostInductive, PTL DEF Spec

\* Every action keeps the keys with waiters out of the cache.
LEMMA WaitInductive == TypeOK /\ WaitOnlyUncached /\ [Next]_vars => WaitOnlyUncached'
<1> SUFFICES ASSUME TypeOK, WaitOnlyUncached, [Next]_vars PROVE WaitOnlyUncached'
  OBVIOUS
<1>1. CASE UNCHANGED <<doing, cache>>
  BY Zenon, <1>1 DEF WaitOnlyUncached
<1>2. ASSUME NEW how, NEW answered, CacheStops(how, answered) PROVE WaitOnlyUncached'
  BY Zenon, <1>2 DEF CacheStops, WaitOnlyUncached
<1>3. CASE handle_rsp
  BY <1>3, HeadRsp DEF handle_rsp, WaitOnlyUncached, TypeOK
<1>4. ASSUME NEW k \in Keys, handle_vanish(k) PROVE WaitOnlyUncached'
  BY Zenon, <1>4 DEF handle_vanish, WaitOnlyUncached, TypeOK
<1>5. CASE handle_req
  <2>1. cache' = cache
    BY Zenon, <1>5 DEF handle_req
  <2> QED
    BY <1>5, <2>1, HandleReqDoing DEF WaitOnlyUncached, TypeOK
<1>6. CASE Tick
  BY SMTT(20), <1>6, OlderType DEF Tick, WaitOnlyUncached, TypeOK
<1>7. CASE DropHandles \/ RspPending \/ VanishPending \/ ReqPending \/ QueryStops
  BY Zenon, <1>7, <1>1 DEF DropHandles, RspPending, VanishPending, ReqPending, QueryStops, cacheVars
<1>8. CASE QueryReq \/ QueryReqFail
  BY Zenon, <1>8, <1>1 DEF QueryReq, QueryReqFail, cacheVars
<1>9. CASE \E r \in Reqs : do_fetch(r) \/ FetchTimeout(r)
  BY Zenon, <1>9, <1>1 DEF do_fetch, FetchTimeout, cacheVars
<1>10. CASE \E k \in Keys : QueryExpired(k) \/ \E data \in Answers : QueryRsp(k, data)
  BY Zenon, <1>10, <1>1 DEF QueryExpired, QueryRsp, cacheVars
<1>11. CASE UNCHANGED vars
  BY Zenon, <1>11, <1>1 DEF vars
<1> QED
  BY Zenon, <1>2, <1>3, <1>4, <1>5, <1>6, <1>7, <1>8, <1>9, <1>10, <1>11
     DEF Next, poll_loop, RspClosed, SendReqUnreachable, ReqClosed, QueryClosed, QuerySocketError

\* Nobody ever waits for a key that is cached.
THEOREM NobodyWaitsForCached == Spec => []WaitOnlyUncached
<1>1. Init => WaitOnlyUncached
  BY Zenon DEF Init, WaitOnlyUncached
<1> QED
  BY <1>1, TypeCorrect, WaitInductive, PTL DEF Spec

-----------------------------------------------------------------------------
(* One query per key *)

Pending == {k \in Keys : doing[k] # None}
InFlight == Range(queryCh) \cup doingCache \cup Range(RspKeys)

\* InFlightOnce in terms of the two sets.
LEMMA InFlightMeaning ==
    InFlightOnce <=>
      (Running =>
        /\ IsInjective(queryCh) /\ IsInjective(RspKeys)
        /\ Range(queryCh) \cap doingCache = {}
        /\ Range(queryCh) \cap Range(RspKeys) = {}
        /\ doingCache \cap Range(RspKeys) = {}
        /\ InFlight \subseteq Pending /\ (queryUp => Pending = InFlight))
  BY Zenon DEF InFlightOnce, Pending, InFlight

\* The key of an answer that is sent joins the keys of the answers on their way.
LEMMA SendRspKeys ==
    ASSUME TypeOK, Running, NEW k \in Keys, NEW data \in Data, SendRsp(k, data),
           IsInjective(RspKeys), k \notin Range(RspKeys)
    PROVE  Range(RspKeys') = Range(RspKeys) \cup {k} /\ IsInjective(RspKeys')
<1> DEFINE m == [key |-> k, data |-> data]
<1>1. m \in Msg /\ m.key = k /\ rspCh \in Seq(Msg)
  BY Zenon DEF Msg, TypeOK
<1>2. rspCh' = Append(rspCh, m)
  BY Zenon DEF SendRsp
<1> HIDE DEF m
<1>3. RspKeys' = Append(RspKeys, k) /\ RspKeys \in Seq(Keys)
  BY Zenon, <1>1, <1>2, KeysOfAppend, KeysOfType DEF RspKeys
<1> QED
  BY <1>3, RangeAppend, InjectiveAppend

\* Every action keeps every pending key in exactly one place.
LEMMA InFlightInductive == TypeOK /\ InFlightOnce /\ [Next]_vars => InFlightOnce'
<1> SUFFICES ASSUME TypeOK, InFlightOnce, [Next]_vars, Running' PROVE InFlightOnce'
  BY Zenon DEF InFlightOnce
<1> DEFINE Q == Range(queryCh)
           R == Range(RspKeys)
<1>a. queryCh \in Seq(Keys) /\ rspCh \in Seq(Msg) /\ RspKeys \in Seq(Keys) /\ doingCache \subseteq Keys
  BY Zenon, KeysOfType DEF TypeOK, RspKeys, Msg
<1>b. InFlightOnce' <=>
        (Running' =>
          /\ IsInjective(queryCh') /\ IsInjective(RspKeys')
          /\ Range(queryCh') \cap doingCache' = {}
          /\ Range(queryCh') \cap Range(RspKeys') = {}
          /\ doingCache' \cap Range(RspKeys') = {}
          /\ InFlight' \subseteq Pending' /\ (queryUp' => Pending' = InFlight'))
  BY Zenon DEF InFlightOnce, Pending, InFlight
<1>1. CASE UNCHANGED <<queryCh, doingCache, RspKeys, doing, queryUp>> /\ Running
  BY Zenon, <1>1 DEF InFlightOnce
<1>2. ASSUME NEW how \in {"done", "panic"}, NEW answered, CacheStops(how, answered) PROVE FALSE
  BY Zenon, <1>2 DEF CacheStops, Running
<1>3. CASE handle_rsp
  <2> DEFINE k == Head(rspCh).key
  <2>1. /\ Running /\ rspCh # <<>> /\ k \in Keys
        /\ UNCHANGED <<queryCh, doingCache, queryUp>>
    BY Zenon, <1>3, HeadRsp DEF handle_rsp, Running, queryVars
  <2>2. RspKeys # <<>> /\ Head(RspKeys) = k /\ RspKeys' = Tail(RspKeys)
    BY Zenon, <1>3, <1>a, KeysOfTail DEF handle_rsp, RspKeys
  <2> HIDE DEF k
  <2>3. R = Range(RspKeys') \cup {k} /\ IsInjective(RspKeys') /\ k \notin Range(RspKeys')
    BY Zenon, <1>a, <2>1, <2>2, RangeTail, InjectiveTail, InFlightMeaning
  <2>4. doing[k] # None
    BY Zenon, <2>1, <2>3, InFlightMeaning DEF InFlight, Pending
  <2>5. doing' = [doing EXCEPT ![k] = None]
    BY Zenon, <1>3, <2>4 DEF handle_rsp, k
  <2>6. Pending' = Pending \ {k}
    BY Zenon, <2>1, <2>5 DEF Pending, TypeOK
  <2>7. InFlight' = InFlight \ {k}
    BY SMTT(20), <2>1, <2>3, InFlightMeaning DEF InFlight
  <2> QED
    BY Zenon, <2>1, <2>3, <2>6, <2>7, <1>b, InFlightMeaning DEF InFlight
<1>4. CASE handle_req
  <2> DEFINE k == req[Head(reqCh)].key
  <2>1. /\ Running /\ UNCHANGED <<doingCache, queryUp, RspKeys>> /\ k \in Keys
    BY Zenon, <1>4, HandleReqDoing DEF handle_req, Running, queryVars, RspKeys
  <2>2. CASE /\ queryCh' = queryCh
             /\ \A j \in Keys : doing[j] # None <=> doing'[j] # None
    <3>1. Pending' = Pending /\ InFlight' = InFlight
      BY Zenon, <2>1, <2>2 DEF Pending, InFlight
    <3> QED
      BY Zenon, <2>1, <2>2, <3>1, <1>b, InFlightMeaning
  <2>3. CASE /\ queryUp /\ queryCh' = Append(queryCh, k) /\ doing[k] = None
             /\ doing'[k] # None /\ \A j \in Keys : j # k => doing'[j] = doing[j]
    <3> HIDE DEF k
    <3>1. k \notin InFlight
      BY Zenon, <2>1, <2>3, InFlightMeaning DEF Pending
    <3>2. Range(queryCh') = Q \cup {k} /\ IsInjective(queryCh')
      BY <1>a, <2>1, <2>3, <3>1, RangeAppend, InjectiveAppend, InFlightMeaning DEF InFlight
    <3>3. Pending' = Pending \cup {k} /\ InFlight' = InFlight \cup {k}
      BY Zenon, <2>1, <2>3, <3>2 DEF Pending, InFlight
    <3> QED
      BY <2>1, <3>1, <3>2, <3>3, <1>b, InFlightMeaning DEF InFlight
  <2>4. \A rs \in SUBSET Reqs : rs # None
    BY Zenon, WaitersType
  <2>5. doing[k] # None => doing[k] \cup {Head(reqCh)} \in SUBSET Reqs
    <3>1. Head(reqCh) \in Reqs
      BY Zenon, <1>4, HandleReqDoing
    <3>2. doing[k] \in Waiters
      BY Zenon, <2>1 DEF TypeOK
    <3> HIDE DEF k
    <3> QED
      BY Zenon, <3>1, <3>2, WaitersType
  <2>6. {} # None /\ {Head(reqCh)} # None
    BY Zenon, <1>4, <2>4, HandleReqDoing
  <2> QED
    BY <1>4, <2>1, <2>2, <2>3, <2>4, <2>5, <2>6, HandleReqDoing DEF TypeOK
<1>5. CASE QueryReq
  <2> DEFINE k == Head(queryCh)
  <2>1. /\ Running /\ UNCHANGED <<doing, queryUp, RspKeys>> /\ queryCh # <<>>
        /\ queryCh' = Tail(queryCh)
    BY Zenon, <1>5 DEF QueryReq, cacheVars, Running, RspKeys
  <2>2. k \in Keys /\ Q = Range(queryCh') \cup {k}
    BY Zenon, <1>a, <2>1, RangeTail
  <2>3. IsInjective(queryCh') /\ k \notin Range(queryCh')
    BY Zenon, <1>a, <2>1, InjectiveTail, InFlightMeaning
  <2>4. doingCache' = doingCache \cup {k}
    BY Zenon, <1>5, <2>2 DEF QueryReq, should_send_raw_query
  <2> HIDE DEF k
  <2>5. Pending' = Pending /\ InFlight' = InFlight
    BY Zenon, <2>1, <2>2, <2>4 DEF Pending, InFlight
  <2> QED
    BY Zenon, <2>1, <2>2, <2>3, <2>4, <2>5, <1>b, InFlightMeaning
<1>6. CASE QueryReqFail
  <2> DEFINE k == Head(queryCh)
  <2>1. /\ Running /\ UNCHANGED <<doing, queryUp, doingCache>> /\ queryCh # <<>>
        /\ queryCh' = Tail(queryCh) /\ SendRsp(k, EmptyData(ProtectiveTtl))
    BY Zenon, <1>6 DEF QueryReqFail, cacheVars, queryVars, Running
  <2>2. k \in Keys /\ Q = Range(queryCh') \cup {k}
    BY Zenon, <1>a, <2>1, RangeTail
  <2>3. IsInjective(queryCh') /\ k \notin Range(queryCh') /\ k \notin R /\ IsInjective(RspKeys)
    BY Zenon, <1>a, <2>1, <2>2, InjectiveTail, InFlightMeaning
  <2> HIDE DEF k
  <2>4. Range(RspKeys') = R \cup {k} /\ IsInjective(RspKeys')
    BY Zenon, <2>1, <2>2, <2>3, SendRspKeys, DataType
  <2>5. Pending' = Pending /\ InFlight' = InFlight
    BY Zenon, <2>1, <2>2, <2>4 DEF Pending, InFlight
  <2> QED
    BY Zenon, <2>1, <2>2, <2>3, <2>4, <2>5, <1>b, InFlightMeaning
<1>7. ASSUME NEW k \in doingCache, NEW data \in Data, Running, SendRsp(k, data),
             doingCache' = doingCache \ {k}, UNCHANGED <<queryCh, doing, queryUp>>
      PROVE  InFlightOnce'
  <2>1. k \in Keys /\ k \notin Q /\ k \notin R /\ IsInjective(RspKeys)
    BY Zenon, <1>7, <1>a, InFlightMeaning
  <2>2. Range(RspKeys') = R \cup {k} /\ IsInjective(RspKeys')
    BY Zenon, <1>7, <2>1, SendRspKeys
  <2>3. Pending' = Pending /\ InFlight' = InFlight
    BY <1>7, <2>2 DEF Pending, InFlight
  <2> QED
    BY Zenon, <1>7, <2>1, <2>2, <2>3, <1>b, InFlightMeaning
<1>8. ASSUME NEW k \in Keys, NEW data \in Answers, QueryRsp(k, data) PROVE InFlightOnce'
  <2>1. Running /\ UNCHANGED <<queryCh, doing, queryUp>> /\ data \in Data
    BY Zenon, <1>8, DataType DEF QueryRsp, cacheVars, Running
  <2>2. CASE k \in doingCache
    BY Zenon, <1>7, <1>8, <2>1, <2>2 DEF QueryRsp, send_rsp_data
  <2>3. CASE k \notin doingCache
    BY Zenon, <1>1, <1>8, <2>1, <2>3 DEF QueryRsp, send_rsp_data, RspKeys
  <2> QED
    BY Zenon, <2>2, <2>3
<1>9. ASSUME NEW k \in Keys, QueryExpired(k) PROVE InFlightOnce'
  <2>1. Running /\ UNCHANGED <<queryCh, doing, queryUp>>
    BY Zenon, <1>9 DEF QueryExpired, cacheVars, Running
  <2>2. CASE k \in doingCache
    BY Zenon, <1>7, <1>9, <2>1, <2>2, DataType DEF QueryExpired
  <2>3. CASE k \notin doingCache
    BY Zenon, <1>1, <1>9, <2>1, <2>3 DEF QueryExpired, RspKeys
  <2> QED
    BY Zenon, <2>2, <2>3
<1>10. CASE QueryStops
  <2>1. /\ Running /\ UNCHANGED <<doing, RspKeys>>
        /\ queryCh' = <<>> /\ doingCache' = {} /\ queryUp' = FALSE
    BY Zenon, <1>10 DEF QueryStops, cacheVars, Running, RspKeys
  <2>2. Range(queryCh') = {} /\ IsInjective(queryCh')
    BY Zenon, <2>1, RangeEmpty
  <2>3. Pending' = Pending /\ InFlight' \subseteq InFlight
    BY Zenon, <2>1, <2>2 DEF Pending, InFlight
  <2> QED
    BY Zenon, <2>1, <2>2, <2>3, <1>b, InFlightMeaning
<1>11. CASE Tick
  BY Zenon, <1>11, <1>1, TickRsp DEF Tick, RspKeys, Running
<1>12. CASE RspPending \/ VanishPending \/ ReqPending \/ \E k \in Keys : handle_vanish(k)
  BY Zenon, <1>12, <1>1 DEF RspPending, VanishPending, ReqPending, handle_vanish, queryVars, Running, RspKeys
<1>13. CASE DropHandles \/ \E r \in Reqs : do_fetch(r) \/ FetchTimeout(r)
  BY Zenon, <1>13, <1>1 DEF DropHandles, do_fetch, FetchTimeout, cacheVars, queryVars, Running, RspKeys
<1>14. CASE UNCHANGED vars
  BY Zenon, <1>14, <1>1 DEF vars, Running, RspKeys
<1> QED
  BY Zenon, <1>2, <1>3, <1>4, <1>5, <1>6, <1>8, <1>9, <1>10, <1>11, <1>12, <1>13, <1>14
     DEF Next, poll_loop, RspClosed, SendReqUnreachable, ReqClosed, QueryClosed, QuerySocketError

\* Every key the cache holds calls for is in exactly one place on the way to its answer.
THEOREM OneQueryPerKey == Spec => []InFlightOnce
<1>1. Init => InFlightOnce
  <2> SUFFICES ASSUME Init PROVE InFlightOnce
    OBVIOUS
  <2>1. Range(queryCh) = {} /\ IsInjective(queryCh) /\ RspKeys = <<>> /\ doingCache = {}
    BY RangeEmpty DEF Init, RspKeys, KeysOf
  <2>2. Pending = {}
    BY SMTT(20) DEF Init, Pending
  <2> QED
    BY Zenon, <2>1, <2>2, RangeEmpty, InFlightMeaning DEF InFlight
<1> QED
  BY <1>1, TypeCorrect, InFlightInductive, PTL DEF Spec

-----------------------------------------------------------------------------
(* The cache implements the single-flight service *)

FlightOf == [k \in Keys |-> Flight(k)]
WaitOf == [k \in Keys |-> IF doing[k] = None THEN {} ELSE doing[k]]
Open == Running /\ queryUp

FlightCases ==
    \A k \in Keys :
      /\ k \in Range(RspKeys) <=> FlightOf[k] = "answered"
      /\ k \in doingCache <=> FlightOf[k] = "sent"
      /\ k \in Range(queryCh) <=> FlightOf[k] = "asked"
      /\ doing[k] = None <=> FlightOf[k] = "idle"
      /\ k \in Pending \ InFlight <=> FlightOf[k] = "lost"
      /\ queryUp => FlightOf[k] # "lost"
      /\ FlightOf[k] \in {"answered", "sent", "asked", "idle", "lost"}

\* Where the query of a key is, read off the sets that InFlightOnce keeps apart.
LEMMA FlightIsPlace == InFlightOnce /\ Running => FlightCases
<1> SUFFICES ASSUME InFlightOnce, Running, NEW k \in Keys PROVE FlightCases!(k)
  BY Zenon DEF FlightCases
<1>1. /\ Range(queryCh) \cap doingCache = {}
      /\ Range(queryCh) \cap Range(RspKeys) = {}
      /\ doingCache \cap Range(RspKeys) = {}
      /\ InFlight \subseteq Pending /\ (queryUp => Pending = InFlight)
  BY Zenon, InFlightMeaning
<1>2. FlightOf[k] = Flight(k)
  BY Zenon DEF FlightOf
<1>3. k \in InFlight => doing[k] # None
  BY Zenon, <1>1 DEF Pending
<1>4. CASE k \in Range(RspKeys)
  BY Zenon, <1>1, <1>2, <1>3, <1>4 DEF Flight, InFlight
<1>5. CASE k \in doingCache
  BY Zenon, <1>1, <1>2, <1>3, <1>5 DEF Flight, InFlight
<1>6. CASE k \in Range(queryCh)
  BY Zenon, <1>1, <1>2, <1>3, <1>6 DEF Flight, InFlight
<1>7. CASE k \notin InFlight
  BY Zenon, <1>1, <1>2, <1>7 DEF Flight, InFlight, Pending
<1>8. k \in Range(RspKeys) \/ k \in doingCache \/ k \in Range(queryCh) \/ k \notin InFlight
  BY Zenon DEF InFlight
<1> QED
  BY Zenon, <1>4, <1>5, <1>6, <1>7, <1>8

\* What makes a step of the cache a step of the service: a vacant key is asked for, ...
LEMMA ServiceAsk ==
    ASSUME NEW k \in Keys, NEW rs, rs = {} \/ \E r \in Reqs : rs = {r},
           Open, FlightOf[k] = "idle", FlightOf' = [FlightOf EXCEPT ![k] = "asked"],
           WaitOf' = [WaitOf EXCEPT ![k] = rs], Open' = Open
    PROVE  SF!Next
<1>1. SF!Ask(k, rs)
  BY Zenon DEF SF!Ask, FlightOf, WaitOf, Open
<1> QED
  BY Zenon, <1>1 DEF SF!Next

\* A further call joins the waiters of a key whose query is on its way.
LEMMA ServiceJoin ==
    ASSUME NEW k \in Keys, NEW r \in Reqs,
           FlightOf[k] # "idle", WaitOf' = [WaitOf EXCEPT ![k] = WaitOf[k] \cup {r}],
           FlightOf' = FlightOf, Open' = Open
    PROVE  SF!Next
<1>1. SF!Join(k, r)
  BY Zenon DEF SF!Join, FlightOf, WaitOf, Open
<1> QED
  BY Zenon, <1>1 DEF SF!Next

\* The query task takes the key from its channel.
LEMMA ServiceSend ==
    ASSUME NEW k \in Keys, Open, FlightOf[k] = "asked",
           FlightOf' = [FlightOf EXCEPT ![k] = "sent"], WaitOf' = WaitOf, Open' = Open
    PROVE  SF!Next
<1>1. SF!Send(k)
  BY Zenon DEF SF!Send, FlightOf, WaitOf, Open
<1> QED
  BY Zenon, <1>1 DEF SF!Next

\* The query task answers the key.
LEMMA ServiceAnswer ==
    ASSUME NEW k \in Keys, Open, FlightOf[k] \in {"asked", "sent"},
           FlightOf' = [FlightOf EXCEPT ![k] = "answered"], WaitOf' = WaitOf, Open' = Open
    PROVE  SF!Next
<1>1. SF!Answer(k)
  BY Zenon DEF SF!Answer, FlightOf, WaitOf, Open
<1> QED
  BY Zenon, <1>1 DEF SF!Next

\* The cache takes the answer and releases the waiters.
LEMMA ServiceDeliver ==
    ASSUME NEW k \in Keys, FlightOf[k] = "answered",
           FlightOf' = [FlightOf EXCEPT ![k] = "idle"],
           WaitOf' = [WaitOf EXCEPT ![k] = {}], Open' = Open
    PROVE  SF!Next
<1>1. SF!Deliver(k)
  BY Zenon DEF SF!Deliver, FlightOf, WaitOf, Open
<1> QED
  BY Zenon, <1>1 DEF SF!Next

\* The query task ends with keys unanswered.
LEMMA ServiceLose ==
    ASSUME Open, Open' = FALSE, WaitOf' = WaitOf,
           FlightOf' = [k \in Keys |-> IF FlightOf[k] \in {"asked", "sent"} THEN "lost" ELSE FlightOf[k]]
    PROVE  SF!Next
<1>1. SF!Lose
  BY Zenon DEF SF!Lose, FlightOf, WaitOf, Open
<1> QED
  BY Zenon, <1>1 DEF SF!Next

\* The cache ends and releases everybody.
LEMMA ServiceClose ==
    ASSUME Open' = FALSE, FlightOf' = [k \in Keys |-> "idle"], WaitOf' = [k \in Keys |-> {}]
    PROVE  SF!Next
<1>1. SF!Close
  BY SMTT(20) DEF SF!Close, FlightOf, WaitOf, Open
<1> QED
  BY Zenon, <1>1 DEF SF!Next

\* Every step of the cache and its query task is a step of the service or leaves
\* what the service can see unchanged.
LEMMA ServiceStep ==
    TypeOK /\ InFlightOnce /\ InFlightOnce' /\ [Next]_vars => [SF!Next]_(SF!sfVars)
<1> SUFFICES ASSUME TypeOK, InFlightOnce, InFlightOnce', [Next]_vars
             PROVE  SF!Next \/ UNCHANGED <<FlightOf, WaitOf, Open>>
  BY Zenon DEF SF!sfVars, FlightOf, WaitOf, Open
<1> DEFINE Goal == SF!Next \/ UNCHANGED <<FlightOf, WaitOf, Open>>
           Q == Range(queryCh)
           R == Range(RspKeys)
<1>a. queryCh \in Seq(Keys) /\ rspCh \in Seq(Msg) /\ RspKeys \in Seq(Keys) /\ doingCache \subseteq Keys
  BY Zenon, KeysOfType DEF TypeOK, RspKeys, Msg
<1>b. Running => FlightCases
  BY Zenon, FlightIsPlace
<1>c. Running' => FlightCases'
  <2>1. (InFlightOnce /\ Running => FlightCases)'
    BY FlightIsPlace, PTL
  <2> QED
    BY Zenon, <2>1
<1>d. /\ FlightOf = [k \in Keys |-> FlightOf[k]] /\ WaitOf = [k \in Keys |-> WaitOf[k]]
      /\ FlightOf' = [k \in Keys |-> FlightOf'[k]] /\ WaitOf' = [k \in Keys |-> WaitOf'[k]]
  BY Zenon DEF FlightOf, WaitOf
<1>e. doing' = doing => WaitOf' = WaitOf
  BY Zenon DEF WaitOf
<1>1. CASE UNCHANGED <<queryCh, doingCache, RspKeys, doing, queryUp>> /\ (Running <=> Running')
  BY <1>1 DEF FlightOf, Flight, WaitOf, Open
<1>2. CASE ~Running /\ ~Running' /\ doing' = doing
  BY Zenon, <1>2, <1>e DEF FlightOf, Flight, Open
<1>3. ASSUME NEW how \in {"done", "panic"}, NEW answered, CacheStops(how, answered) PROVE Goal
  <2>1. ~Running' /\ doing' = [k \in Keys |-> None]
    BY Zenon, <1>3 DEF CacheStops, Running
  <2>2. Open' = FALSE /\ FlightOf' = [k \in Keys |-> "idle"] /\ WaitOf' = [k \in Keys |-> {}]
    BY Zenon, <2>1 DEF FlightOf, Flight, WaitOf, Open
  <2> QED
    BY Zenon, <2>2, ServiceClose
<1>4. CASE handle_rsp
  <2> DEFINE k == Head(rspCh).key
  <2>1. /\ Running /\ Running' /\ rspCh # <<>> /\ k \in Keys
        /\ UNCHANGED <<queryCh, doingCache, queryUp>>
    BY Zenon, <1>4, HeadRsp DEF handle_rsp, Running, queryVars
  <2>2. RspKeys # <<>> /\ Head(RspKeys) = k /\ RspKeys' = Tail(RspKeys)
    BY Zenon, <1>4, <1>a, KeysOfTail DEF handle_rsp, RspKeys
  <2> HIDE DEF k
  <2>3. R = Range(RspKeys') \cup {k} /\ k \notin Range(RspKeys')
    BY Zenon, <1>a, <2>1, <2>2, RangeTail, InjectiveTail, InFlightMeaning
  <2>4. FlightOf[k] = "answered" /\ doing[k] # None
    BY SMTT(20), <2>1, <2>3, <1>b DEF FlightCases
  <2>5. doing' = [doing EXCEPT ![k] = None] /\ doing \in [Keys -> Waiters]
    BY Zenon, <1>4, <2>4 DEF handle_rsp, k, TypeOK
  <2>6. FlightOf'[k] = "idle"
    BY Zenon, <2>1, <2>5, <1>c DEF FlightCases
  <2>7. \A j \in Keys \ {k} : FlightOf'[j] = FlightOf[j]
    BY <2>1, <2>3, <2>5 DEF FlightOf, Flight
  <2>8. FlightOf' = [FlightOf EXCEPT ![k] = "idle"]
    BY Zenon, <2>1, <2>6, <2>7, <1>d
  <2>9. WaitOf' = [WaitOf EXCEPT ![k] = {}]
    BY Zenon, <2>1, <2>5, <1>d DEF WaitOf
  <2>10. Open' = Open
    BY Zenon, <2>1 DEF Open
  <2> QED
    BY Zenon, <2>1, <2>4, <2>8, <2>9, <2>10, ServiceDeliver
<1>5. CASE handle_req
  <2> DEFINE r == Head(reqCh)
             k == req[r].key
  <2>1. /\ Running /\ Running' /\ UNCHANGED <<doingCache, queryUp, RspKeys>> /\ k \in Keys /\ r \in Reqs
        /\ doing \in [Keys -> Waiters]
    <3>1. BatchStep
      BY Zenon, <1>5 DEF handle_req, ReqCacheOnly, ReqCached, ReqQuery
    <3> QED
      BY Zenon, <1>5, <3>1, HandleReqDoing DEF handle_req, Running, queryVars, RspKeys, BatchStep, TypeOK
  <2>2. CASE doing' = doing /\ queryCh' = queryCh
    BY Zenon, <2>1, <2>2, <1>1
  <2>3. ASSUME NEW rs \in SUBSET Reqs, rs = {} \/ rs = {r}, doing[k] = None, queryUp, queryCh' = Append(queryCh, k),
               doing' = [doing EXCEPT ![k] = rs]
        PROVE  Goal
    <3> HIDE DEF r, k
    <3>1. Range(queryCh') = Q \cup {k} /\ FlightOf[k] = "idle"
      BY SMTT(20), <1>a, <1>b, <2>1, <2>3, RangeAppend DEF FlightCases
    <3>2. FlightOf'[k] = "asked"
      BY Zenon, <2>1, <3>1, <1>c DEF FlightCases
    <3>3. \A j \in Keys \ {k} : FlightOf'[j] = FlightOf[j]
      BY <2>1, <2>3, <3>1 DEF FlightOf, Flight
    <3>4. FlightOf' = [FlightOf EXCEPT ![k] = "asked"]
      BY Zenon, <2>1, <3>2, <3>3, <1>d
    <3>5. WaitOf' = [WaitOf EXCEPT ![k] = rs]
      BY Zenon, <2>1, <2>3, <1>d, WaitersType DEF WaitOf
    <3>6. Open /\ Open' = Open
      BY Zenon, <2>1, <2>3 DEF Open
    <3> QED
      BY Zenon, <2>1, <2>3, <3>1, <3>4, <3>5, <3>6, ServiceAsk
  <2>4. CASE doing[k] # None /\ queryCh' = queryCh /\ doing' = [doing EXCEPT ![k] = doing[k] \cup {r}]
    <3>1. doing[k] \cup {r} \in SUBSET Reqs
      BY <2>1, <2>4, WaitersType
    <3> HIDE DEF r, k
    <3>2. doing[k] \cup {r} # None
      BY Zenon, <3>1, WaitersType
    <3>3. FlightOf[k] # "idle"
      BY Zenon, <2>1, <2>4, <1>b DEF FlightCases
    <3>4. \A j \in Keys : doing'[j] = None <=> doing[j] = None
      BY Zenon, <2>1, <2>4, <3>2
    <3>5. FlightOf' = FlightOf
      BY <2>1, <2>4, <3>4 DEF FlightOf, Flight
    <3>6. WaitOf' = [WaitOf EXCEPT ![k] = WaitOf[k] \cup {r}]
      <4>1. WaitOf[k] = doing[k] /\ WaitOf'[k] = doing[k] \cup {r}
        BY Zenon, <2>1, <2>4, <3>2 DEF WaitOf
      <4>2. \A j \in Keys \ {k} : WaitOf'[j] = WaitOf[j]
        BY Zenon, <2>1, <2>4 DEF WaitOf
      <4> QED
        BY Zenon, <2>1, <4>1, <4>2, <1>d
    <3>7. Open' = Open
      BY Zenon, <2>1 DEF Open
    <3> QED
      BY Zenon, <2>1, <3>3, <3>5, <3>6, <3>7, ServiceJoin
  <2>5. {} \in SUBSET Reqs /\ {r} \in SUBSET Reqs
    BY Zenon, <2>1
  <2>6. \/ doing' = doing /\ queryCh' = queryCh
        \/ /\ doing[k] = None /\ queryUp /\ queryCh' = Append(queryCh, k)
           /\ doing' = [doing EXCEPT ![k] = {}] \/ doing' = [doing EXCEPT ![k] = {r}]
        \/ doing[k] # None /\ queryCh' = queryCh /\ doing' = [doing EXCEPT ![k] = doing[k] \cup {r}]
    BY Zenon, <1>5, HandleReqDoing
  <2> HIDE DEF r, k
  <2>7. CASE doing[k] = None /\ queryUp /\ queryCh' = Append(queryCh, k) /\ doing' = [doing EXCEPT ![k] = {}]
    BY Zenon, <2>3, <2>5, <2>7
  <2>8. CASE doing[k] = None /\ queryUp /\ queryCh' = Append(queryCh, k) /\ doing' = [doing EXCEPT ![k] = {r}]
    BY Zenon, <2>3, <2>5, <2>8
  <2> QED
    BY SMTT(20), <2>2, <2>4, <2>6, <2>7, <2>8
<1>6. CASE QueryReq
  <2> DEFINE k == Head(queryCh)
  <2>1. /\ (Running <=> Running') /\ UNCHANGED <<doing, queryUp, RspKeys>> /\ queryCh # <<>>
        /\ queryCh' = Tail(queryCh) /\ queryUp
    BY Zenon, <1>6 DEF QueryReq, cacheVars, Running, RspKeys
  <2>2. k \in Keys /\ Q = Range(queryCh') \cup {k}
    BY Zenon, <1>a, <2>1, RangeTail
  <2>3. CASE Running
    <3>1. k \notin Range(queryCh') /\ k \notin doingCache
      BY Zenon, <1>a, <2>1, <2>2, <2>3, InjectiveTail, InFlightMeaning
    <3>2. doingCache' = doingCache \cup {k}
      BY Zenon, <1>6, <3>1 DEF QueryReq, should_send_raw_query
    <3> HIDE DEF k
    <3>3. FlightOf[k] = "asked" /\ FlightOf'[k] = "sent"
      BY Zenon, <2>1, <2>2, <2>3, <3>2, <1>b, <1>c DEF FlightCases
    <3>4. \A j \in Keys \ {k} : FlightOf'[j] = FlightOf[j]
      BY <2>1, <2>2, <3>2 DEF FlightOf, Flight
    <3>5. FlightOf' = [FlightOf EXCEPT ![k] = "sent"]
      BY Zenon, <2>2, <3>3, <3>4, <1>d
    <3>6. Open /\ Open' = Open
      BY Zenon, <2>1, <2>3 DEF Open
    <3> QED
      BY Zenon, <2>1, <2>2, <3>3, <3>5, <3>6, <1>e, ServiceSend
  <2> QED
    BY Zenon, <2>1, <2>3, <1>2
<1>7. ASSUME NEW k \in Keys, Running, Running', queryUp, UNCHANGED <<doing, queryUp>>,
             k \in Q \/ k \in doingCache,
             Q \ {k} = Range(queryCh') \ {k}, doingCache \ {k} = doingCache' \ {k},
             Range(RspKeys') = R \cup {k}
      PROVE  Goal
  <2>1. FlightOf[k] \in {"asked", "sent"} /\ FlightOf'[k] = "answered"
    BY Zenon, <1>7, <1>b, <1>c DEF FlightCases
  <2>2. \A j \in Keys \ {k} : /\ j \in Q <=> j \in Range(queryCh')
                              /\ j \in doingCache <=> j \in doingCache'
                              /\ j \in R <=> j \in Range(RspKeys')
    BY Zenon, <1>7
  <2>3. \A j \in Keys \ {k} : FlightOf'[j] = FlightOf[j]
    BY <1>7, <2>2 DEF FlightOf, Flight
  <2>4. FlightOf' = [FlightOf EXCEPT ![k] = "answered"]
    BY Zenon, <2>1, <2>3, <1>d
  <2>5. Open /\ Open' = Open
    BY Zenon, <1>7 DEF Open
  <2> QED
    BY Zenon, <1>7, <2>1, <2>4, <2>5, <1>e, ServiceAnswer
<1>8. CASE QueryReqFail
  <2> DEFINE k == Head(queryCh)
  <2>1. /\ (Running <=> Running') /\ UNCHANGED <<doing, queryUp, doingCache>> /\ queryCh # <<>>
        /\ queryCh' = Tail(queryCh) /\ SendRsp(k, EmptyData(ProtectiveTtl)) /\ queryUp
    BY Zenon, <1>8 DEF QueryReqFail, cacheVars, queryVars, Running
  <2>2. k \in Keys /\ Q = Range(queryCh') \cup {k}
    BY Zenon, <1>a, <2>1, RangeTail
  <2>3. CASE Running
    <3>1. k \notin R /\ IsInjective(RspKeys)
      BY Zenon, <1>a, <2>1, <2>2, <2>3, InFlightMeaning
    <3> HIDE DEF k
    <3>2. Range(RspKeys') = R \cup {k}
      BY Zenon, <2>1, <2>2, <2>3, <3>1, SendRspKeys, DataType
    <3> QED
      BY Zenon, <2>1, <2>2, <2>3, <3>2, <1>7
  <2> QED
    BY Zenon, <2>1, <2>3, <1>2
<1>9. ASSUME NEW k \in doingCache, NEW data \in Data, SendRsp(k, data), Running <=> Running',
             doingCache' = doingCache \ {k}, UNCHANGED <<queryCh, doing, queryUp>>, queryUp
      PROVE  Goal
  <2>1. CASE Running
    <3>1. k \in Keys /\ k \notin R /\ IsInjective(RspKeys)
      BY Zenon, <1>9, <1>a, <2>1, InFlightMeaning
    <3>2. Range(RspKeys') = R \cup {k}
      BY Zenon, <1>9, <2>1, <3>1, SendRspKeys
    <3> QED
      BY Zenon, <1>9, <2>1, <3>1, <3>2, <1>7
  <2> QED
    BY Zenon, <1>9, <2>1, <1>2
<1>10. ASSUME NEW k \in Keys, NEW data \in Answers, QueryRsp(k, data) PROVE Goal
  <2>1. (Running <=> Running') /\ UNCHANGED <<queryCh, doing, queryUp>> /\ data \in Data /\ queryUp
    BY Zenon, <1>10, DataType DEF QueryRsp, cacheVars, Running
  <2>2. CASE k \in doingCache
    BY Zenon, <1>9, <1>10, <2>1, <2>2 DEF QueryRsp, send_rsp_data
  <2>3. CASE k \notin doingCache
    BY Zenon, <1>1, <1>10, <2>1, <2>3 DEF QueryRsp, send_rsp_data, RspKeys
  <2> QED
    BY Zenon, <2>2, <2>3
<1>11. ASSUME NEW k \in Keys, QueryExpired(k) PROVE Goal
  <2>1. (Running <=> Running') /\ UNCHANGED <<queryCh, doing, queryUp>> /\ queryUp
    BY Zenon, <1>11 DEF QueryExpired, cacheVars, Running
  <2>2. CASE k \in doingCache
    BY <1>9, <1>11, <2>1, <2>2, DataType DEF QueryExpired
  <2>3. CASE k \notin doingCache
    BY Zenon, <1>1, <1>11, <2>1, <2>3 DEF QueryExpired, RspKeys
  <2> QED
    BY Zenon, <2>2, <2>3
<1>12. CASE QueryStops /\ queryUp
  <2>1. /\ (Running <=> Running') /\ UNCHANGED <<doing, RspKeys>>
        /\ queryCh' = <<>> /\ doingCache' = {} /\ queryUp' = FALSE
    BY Zenon, <1>12 DEF QueryStops, cacheVars, Running, RspKeys
  <2>2. CASE Running
    <3>1. Open /\ Open' = FALSE
      BY Zenon, <1>12, <2>1, <2>2 DEF Open
    <3>2. Range(queryCh') = {}
      BY Zenon, <2>1, RangeEmpty
    <3>3. \A k \in Keys : FlightOf'[k] = IF FlightOf[k] \in {"asked", "sent"} THEN "lost" ELSE FlightOf[k]
      BY Zenon, <1>12, <2>1, <2>2, <3>2, <1>b, <1>c DEF FlightCases, Pending, InFlight
    <3>4. FlightOf' = [k \in Keys |-> IF FlightOf[k] \in {"asked", "sent"} THEN "lost" ELSE FlightOf[k]]
      BY Zenon, <3>3, <1>d
    <3> QED
      BY Zenon, <2>1, <3>1, <3>4, <1>e, ServiceLose
  <2> QED
    BY Zenon, <2>1, <2>2, <1>2
<1>13. CASE Tick
  BY Zenon, <1>13, <1>1, TickRsp DEF Tick, RspKeys, Running
<1>14. CASE RspPending \/ VanishPending \/ ReqPending \/ \E k \in Keys : handle_vanish(k)
  BY Zenon, <1>14, <1>1 DEF RspPending, VanishPending, ReqPending, handle_vanish, queryVars, Running, RspKeys
<1>15. CASE DropHandles \/ \E r \in Reqs : do_fetch(r) \/ FetchTimeout(r)
  BY Zenon, <1>15, <1>1 DEF DropHandles, do_fetch, FetchTimeout, cacheVars, queryVars, Running, RspKeys
<1>16. CASE UNCHANGED vars
  BY Zenon, <1>16, <1>1 DEF vars, Running, RspKeys
<1> QED
  BY Zenon, <1>3, <1>4, <1>5, <1>6, <1>8, <1>10, <1>11, <1>12, <1>13, <1>14, <1>15, <1>16
     DEF Next, poll_loop, RspClosed, SendReqUnreachable, ReqClosed, QueryClosed, QuerySocketError

\* The cache and its query task implement the single-flight service.
THEOREM CacheIsSingleFlight == Spec => ImplementsSingleFlight
<1>1. Init => SF!Init
  <2> SUFFICES ASSUME Init PROVE SF!Init
    OBVIOUS
  <2>1. Running /\ queryUp /\ doing = [k \in Keys |-> None] /\ InFlightOnce /\ doingCache = {}
    <3>1. Range(queryCh) = {} /\ IsInjective(queryCh) /\ RspKeys = <<>> /\ doingCache = {}
      BY RangeEmpty DEF Init, RspKeys, KeysOf
    <3>2. Pending = {}
      BY Zenon DEF Init, Pending
    <3> QED
      BY Zenon, <3>1, <3>2, RangeEmpty, InFlightMeaning DEF InFlight, Init, Running
  <2>2. \A k \in Keys : FlightOf[k] = "idle"
    BY Zenon, <2>1, FlightIsPlace DEF FlightCases
  <2>3. FlightOf = [k \in Keys |-> "idle"]
    BY Zenon, <2>2 DEF FlightOf
  <2> QED
    BY Zenon, <2>1, <2>3 DEF SF!Init, FlightOf
<1> QED
  BY <1>1, ServiceStep, TypeCorrect, OneQueryPerKey, PTL DEF Spec, ImplementsSingleFlight, SF!Spec

-----------------------------------------------------------------------------
(* The query task of route_query. *)

\* The types of the query task's own state.
RType ==
    /\ writeQ \in Seq([key : Keys, id : Ids])
    /\ idKey \in [Ids -> Keys \cup {None}]
    /\ keyId \in [Keys -> Ids \cup {None}]

\* What RecvRsp caches is an answer in the sense of the effective cache.
LEMMA RecvRspIsQueryRsp ==
    ASSUME RType, NEW id \in Ids, NEW found \in BOOLEAN, NEW ttl \in RawTtls,
           RecvRsp(id, found, ttl)
    PROVE  idKey[id] \in Keys /\ \E data \in Answers : QueryRsp(idKey[id], data)
<1>1. idKey[id] \in Keys
  BY Zenon DEF RecvRsp, RType
<1>2. CacheTtl(ttl) \in Ttls
  BY Zenon, TtlsFit
<1>3. NewData(CacheTtl(ttl)) \in Answers /\ EmptyData(CacheTtl(ttl)) \in Answers
  BY Zenon, <1>2 DEF Answers
<1>4. QueryRsp(idKey[id], IF found THEN NewData(CacheTtl(ttl)) ELSE EmptyData(CacheTtl(ttl)))
  BY Zenon DEF RecvRsp
<1> QED
  BY Zenon, <1>1, <1>3, <1>4

\* A query that is given up counts as answered by the empty result.
LEMMA SendErrorIsQueryRsp ==
    ASSUME RType, SendError
    PROVE  Head(writeQ).key \in Keys /\ \E data \in Answers : QueryRsp(Head(writeQ).key, data)
<1>1. Head(writeQ).key \in Keys
  <2>1. writeQ # <<>> /\ writeQ \in Seq([key : Keys, id : Ids])
    BY Zenon DEF SendError, RType
  <2>2. Head(writeQ) \in [key : Keys, id : Ids]
    <3> DEFINE Entries == [key : Keys, id : Ids]
    <3>1. writeQ \in Seq(Entries) /\ writeQ # <<>>
      BY Zenon, <2>1
    <3> HIDE DEF Entries
    <3>2. Head(writeQ) \in Entries
      BY <3>1
    <3> QED
      BY Zenon, <3>2 DEF Entries
  <2> QED
    BY Zenon, <2>2
<1>2. EmptyData(ProtectiveTtl) \in Answers
  BY Zenon DEF Answers
<1> QED
  BY Zenon, <1>1, <1>2 DEF SendError

\* Every step of the query task is a step of the effective cache or leaves it
\* alone.
LEMMA RouteStep ==
    ASSUME RType, [RouteNext]_<<vars, routeVars>>
    PROVE  [Next]_vars
<1>1. CASE RecvPending \/ SendOk \/ SendDone \/ TimeoutDone \/ RecvReqPending
  BY Zenon, <1>1 DEF RecvPending, SendOk, SendDone, TimeoutDone, RecvReqPending
<1>2. CASE SendError
  BY Zenon, <1>2, SendErrorIsQueryRsp DEF Next
<1>3. CASE \E k \in Keys : TimedOut(k)
  BY Zenon, <1>3 DEF TimedOut, Next
<1>4. CASE \E id \in Ids : RouteReq(id)
  BY Zenon, <1>4 DEF RouteReq, Next
<1>5. CASE RouteReqFail \/ RecvReqClosed \/ RecvError
  BY Zenon, <1>5 DEF RouteReqFail, RecvReqClosed, RecvError, Next
<1>6. CASE \E id \in Ids, found \in BOOLEAN, ttl \in RawTtls : RecvRsp(id, found, ttl)
  BY Zenon, <1>6, RecvRspIsQueryRsp DEF Next
<1>7. CASE \/ \E r \in Reqs : do_fetch(r) \/ FetchTimeout(r)
           \/ DropHandles \/ poll_loop \/ Tick
  BY Zenon, <1>7 DEF Next
<1>8. CASE UNCHANGED <<vars, routeVars>>
  BY Zenon, <1>8
<1> QED
  BY Zenon, <1>1, <1>2, <1>3, <1>4, <1>5, <1>6, <1>7, <1>8 DEF RouteNext, QueryRuntimePoll

-----------------------------------------------------------------------------
(* The maps *)

\* An id that is in use has been drawn: what makes a fresh id fresh.
IdsDrawn == \A i \in Ids : idKey[i] # None => i \in used

\* The actions of the callers, the cache runtime and the clock leave the query
\* task's tables alone.
LEMMA OthersLeaveQuery ==
    ASSUME \/ \E r \in Reqs : do_fetch(r) \/ FetchTimeout(r)
           \/ DropHandles \/ poll_loop \/ Tick
    PROVE  UNCHANGED <<queryUp, doingCache>>
<1>1. CASE \E r \in Reqs : do_fetch(r) \/ FetchTimeout(r)
  BY Zenon, <1>1 DEF do_fetch, FetchTimeout, queryVars
<1>2. CASE DropHandles \/ Tick
  BY Zenon, <1>2 DEF DropHandles, Tick, queryVars
<1>3. CASE handle_rsp \/ RspPending \/ (\E k \in Keys : handle_vanish(k)) \/ VanishPending
  BY Zenon, <1>3 DEF handle_rsp, RspPending, handle_vanish, VanishPending, queryVars
<1>4. CASE handle_req \/ ReqPending
  BY Zenon, <1>4 DEF handle_req, ReqPending, queryVars
<1>5. CASE RspClosed \/ SendReqUnreachable \/ ReqClosed
  BY Zenon, <1>5 DEF RspClosed, SendReqUnreachable, ReqClosed, CacheStops, queryVars
<1> QED
  BY Zenon, <1>1, <1>2, <1>3, <1>4, <1>5 DEF poll_loop

\* A query that has failed takes its key, and the id of the key, out of the maps.
LEMMA FailedLeavesMaps ==
    ASSUME TypeOK, RType, IdsDrawn, MapsAgree, queryUp, NEW k \in Keys,
           handle_query_failed(k), UNCHANGED <<used, queryUp>>, doingCache' = doingCache \ {k}
    PROVE  /\ idKey' \in [Ids -> Keys \cup {None}] /\ keyId' \in [Keys -> Ids \cup {None}]
           /\ IdsDrawn' /\ MapsAgree'
<1>1. CASE keyId[k] = None
  <2>1. keyId' = keyId /\ idKey' = idKey /\ doingCache' = doingCache
    BY <1>1 DEF handle_query_failed, RType, MapsAgree, TypeOK
  <2> QED
    BY Zenon, <2>1 DEF RType, IdsDrawn, MapsAgree
<1>2. CASE keyId[k] # None
  <2> DEFINE i == keyId[k]
  <2>1. i \in Ids /\ idKey[i] = k
    BY <1>2 DEF RType, MapsAgree
  <2>2. idKey' = [idKey EXCEPT ![i] = None] /\ keyId' = [keyId EXCEPT ![k] = None]
    BY Zenon, <1>2 DEF handle_query_failed
  <2>3. idKey' \in [Ids -> Keys \cup {None}] /\ keyId' \in [Keys -> Ids \cup {None}]
    BY Zenon, <2>1, <2>2 DEF RType
  <2>4. IdsDrawn'
    BY Zenon, <2>1, <2>2 DEF RType, IdsDrawn
  <2> HIDE DEF i
  <2>5. MapsAgree'
    BY <2>1, <2>2, RouteAssumption DEF RType, MapsAgree
  <2> QED
    BY Zenon, <2>3, <2>4, <2>5
<1> QED
  BY Zenon, <1>1, <1>2

\* Every step of the query task and of everything around it keeps the maps.
LEMMA MapsInductive ==
    ASSUME TypeOK, TimersTrack, RType, IdsDrawn, MapsAgree, [RouteNext]_<<vars, routeVars>>
    PROVE  RType' /\ IdsDrawn' /\ MapsAgree'
<1> DEFINE Goal == RType' /\ IdsDrawn' /\ MapsAgree'
<1>1. CASE RecvPending \/ SendDone \/ TimeoutDone \/ RecvReqPending
  BY Zenon, <1>1 DEF RecvPending, SendDone, TimeoutDone, RecvReqPending, vars, RType, IdsDrawn, MapsAgree
<1>2. CASE SendOk
  <2>1. Tail(writeQ) \in Seq([key : Keys, id : Ids])
    BY <1>2 DEF SendOk, RType
  <2> QED
    BY Zenon, <1>2, <2>1 DEF SendOk, vars, RType, IdsDrawn, MapsAgree
<1>3. CASE SendError
  <2> DEFINE k == Head(writeQ).key
  <2>1. k \in Keys
    BY Zenon, <1>3, SendErrorIsQueryRsp
  <2>2. Tail(writeQ) \in Seq([key : Keys, id : Ids])
    BY <1>3 DEF SendError, RType
  <2>3. handle_query_failed(k) /\ UNCHANGED <<used, queryUp>> /\ queryUp /\ writeQ' = Tail(writeQ)
    BY Zenon, <1>3 DEF SendError, QueryRsp
  <2>4. doingCache' = doingCache \ {k}
    BY Zenon, <1>3, <2>1 DEF SendError, QueryRsp, send_rsp_data
  <2> HIDE DEF k
  <2> QED
    BY Zenon, <2>1, <2>2, <2>3, <2>4, FailedLeavesMaps DEF RType
<1>4. ASSUME NEW k \in Keys, TimedOut(k) PROVE Goal
  <2>1. handle_query_failed(k) /\ UNCHANGED <<used, queryUp, writeQ>> /\ queryUp
    BY Zenon, <1>4 DEF TimedOut, QueryExpired
  <2>2. doingCache' = doingCache \ {k}
    BY Zenon, <1>4 DEF TimedOut, QueryExpired
  <2> QED
    BY Zenon, <2>1, <2>2, FailedLeavesMaps DEF RType
<1>5. ASSUME NEW id \in Ids, RouteReq(id) PROVE Goal
  <2> DEFINE k == Head(queryCh)
  <2>1. k \in Keys /\ queryUp /\ queryUp' = queryUp
    BY <1>5 DEF RouteReq, QueryReq, TypeOK
  <2>2. CASE k \in doingCache
    <3>1. UNCHANGED <<used, idKey, keyId, writeQ, doingCache>>
      BY Zenon, <1>5, <2>2 DEF RouteReq, QueryReq, should_send_raw_query
    <3> QED
      BY Zenon, <3>1, <2>1 DEF RType, IdsDrawn, MapsAgree
  <2>3. CASE k \notin doingCache
    <3>1. /\ used' = used \cup {id} /\ id \notin used
          /\ idKey' = [idKey EXCEPT ![id] = k]
          /\ keyId' = [keyId EXCEPT ![k] = id]
          /\ writeQ' = Append(writeQ, [key |-> k, id |-> id])
          /\ doingCache' = doingCache \cup {k}
      BY Zenon, <1>5, <2>3 DEF RouteReq, QueryReq, should_send_raw_query
    <3>2. keyId[k] = None /\ idKey[id] = None
      BY Zenon, <2>1, <2>3, <3>1 DEF MapsAgree, IdsDrawn
    <3> HIDE DEF k
    <3>3. writeQ' \in Seq([key : Keys, id : Ids])
      BY <2>1, <3>1 DEF RType
    <3>4. RType'
      BY Zenon, <2>1, <3>1, <3>3 DEF RType
    <3>5. IdsDrawn'
      BY Zenon, <2>1, <3>1 DEF IdsDrawn, RType
    <3>6. MapsAgree'
      BY <2>1, <3>1, <3>2, RouteAssumption DEF MapsAgree, RType
    <3> QED
      BY Zenon, <3>4, <3>5, <3>6
  <2> QED
    BY Zenon, <2>2, <2>3
<1>6. CASE RouteReqFail
  BY Zenon, <1>6 DEF RouteReqFail, QueryReqFail, queryVars, RType, IdsDrawn, MapsAgree
<1>7. CASE RecvReqClosed \/ RecvError
  BY <1>7 DEF RecvReqClosed, RecvError, QueryClosed, QuerySocketError, QueryStops, routeVars,
              RType, IdsDrawn, MapsAgree
<1>8. ASSUME NEW id \in Ids, NEW found \in BOOLEAN, NEW ttl \in RawTtls, RecvRsp(id, found, ttl)
      PROVE  Goal
  <2> DEFINE k == idKey[id]
  <2>1. k \in Keys /\ keyId[k] = id /\ queryUp
    BY <1>8 DEF RecvRsp, RType, MapsAgree
  <2>2. handle_query_failed(k)
    BY Zenon, <1>8, <2>1, RouteAssumption DEF RecvRsp, handle_query_failed
  <2>3. UNCHANGED <<used, queryUp, writeQ>>
    BY Zenon, <1>8 DEF RecvRsp, QueryRsp
  <2>4. doingCache' = doingCache \ {k}
    BY Zenon, <1>8, <2>1 DEF RecvRsp, QueryRsp, send_rsp_data
  <2> HIDE DEF k
  <2> QED
    BY Zenon, <2>1, <2>2, <2>3, <2>4, FailedLeavesMaps DEF RType
<1>9. CASE /\ \/ \E r \in Reqs : do_fetch(r) \/ FetchTimeout(r)
              \/ DropHandles \/ poll_loop \/ Tick
           /\ UNCHANGED routeVars
  <2>1. UNCHANGED <<queryUp, doingCache>>
    BY Zenon, <1>9, OthersLeaveQuery
  <2> QED
    BY Zenon, <1>9, <2>1 DEF routeVars, RType, IdsDrawn, MapsAgree
<1>10. CASE UNCHANGED <<vars, routeVars>>
  BY Zenon, <1>10 DEF vars, routeVars, RType, IdsDrawn, MapsAgree
<1> QED
  BY Zenon, <1>1, <1>2, <1>3, <1>4, <1>5, <1>6, <1>7, <1>8, <1>9, <1>10 DEF RouteNext, QueryRuntimePoll

-----------------------------------------------------------------------------
(* The ttl of what is served *)

\* The longest an answer may be served, and TtlBounded for it.
Top == IF ProtectiveTtl > MaximumTtl THEN ProtectiveTtl ELSE MaximumTtl
Bounded(data) == data.exp <= Top

\* TtlBounded says that every cached record and every answer on its way is bounded.
LEMMA TtlBoundedMeans ==
    TtlBounded <=> /\ \A k \in Keys : cache[k] # None => Bounded(cache[k])
                   /\ \A i \in DOMAIN rspCh : Bounded(rspCh[i].data)
  BY Zenon DEF TtlBounded, Top, Bounded

\* What the query task answers with is bounded, whatever the peer's ttl.
LEMMA AnswersBounded ==
    /\ Bounded(EmptyData(ProtectiveTtl))
    /\ \A ttl \in RawTtls : Bounded(NewData(CacheTtl(ttl))) /\ Bounded(EmptyData(CacheTtl(ttl)))
<1>1. Top \in Nat /\ ProtectiveTtl <= Top /\ MaximumTtl <= Top
  BY RouteAssumption, ConstAssumption DEF Top
<1>2. \A ttl \in RawTtls : CacheTtl(ttl) <= Top
  BY <1>1, RouteAssumption, ConstAssumption DEF CacheTtl
<1>3. \A ttl : NewData(ttl).exp = ttl /\ EmptyData(ttl).exp = ttl
  BY Zenon DEF NewData, EmptyData
<1> QED
  BY Zenon, <1>1, <1>2, <1>3 DEF Bounded

\* Ageing a record keeps it bounded.
LEMMA OlderBounded == \A d \in Data : Bounded(d) => Bounded(Older(d))
<1> SUFFICES ASSUME NEW d \in Data, Bounded(d) PROVE Bounded(Older(d))
  OBVIOUS
<1>1. d.exp \in Nat /\ d # None
  BY Zenon, ConstAssumption DEF Data, Ticks
<1>2. Older(d).exp = Less(d.exp)
  BY Zenon, <1>1 DEF Older, Data
<1>3. Less(d.exp) <= d.exp /\ Less(d.exp) \in Nat
  BY <1>1 DEF Less
<1>4. Top \in Nat
  BY Zenon, RouteAssumption, ConstAssumption DEF Top
<1> QED
  BY <1>1, <1>2, <1>3, <1>4 DEF Bounded

\* Sending a bounded answer keeps the channel bounded.
LEMMA SendBounded ==
    ASSUME TypeOK, TtlBounded, NEW k \in Keys, NEW data \in Data, Bounded(data),
           SendRsp(k, data) \/ UNCHANGED rspCh, UNCHANGED cache
    PROVE  TtlBounded'
<1>1. CASE UNCHANGED rspCh
  BY Zenon, <1>1 DEF TtlBounded
<1>2. CASE rspCh' = Append(rspCh, [key |-> k, data |-> data])
  <2>1. rspCh \in Seq(Msg) /\ [key |-> k, data |-> data] \in Msg
    BY Zenon DEF TypeOK, Msg
  <2>2. \A i \in DOMAIN rspCh' : \/ i \in DOMAIN rspCh /\ rspCh'[i] = rspCh[i]
                                 \/ rspCh'[i] = [key |-> k, data |-> data]
    BY SMTT(30), <1>2, <2>1, AppendElements
  <2>3. \A i \in DOMAIN rspCh' : rspCh'[i].data.exp <= Top
    BY SMTT(30), <2>2, TtlBoundedMeans DEF Bounded
  <2> QED
    BY Zenon, <2>3 DEF TtlBounded, Top
<1> QED
  BY Zenon, <1>1, <1>2 DEF SendRsp

\* The cache runtime only moves an answer into the cache, and drops some.
LEMMA PollBounded ==
    ASSUME TypeOK, TtlBounded, poll_loop
    PROVE  TtlBounded'
<1>1. CASE handle_rsp
  <2> DEFINE h == Head(rspCh).key
             data == Head(rspCh).data
  <2>1. rspCh \in Seq(Msg) /\ rspCh # <<>> /\ rspCh' = Tail(rspCh)
    BY Zenon, <1>1 DEF handle_rsp, TypeOK, Msg
  <2>2. data.exp <= Top
    BY <2>1, TtlBoundedMeans DEF Bounded
  <2>3. \A i \in DOMAIN rspCh' : rspCh'[i].data.exp <= Top
    <3>1. \A i \in DOMAIN rspCh' : i + 1 \in DOMAIN rspCh /\ rspCh'[i] = rspCh[i + 1]
      BY <2>1
    <3> QED
      BY Zenon, <3>1, TtlBoundedMeans DEF Bounded
  <2>4. cache' = [cache EXCEPT ![h] = data] \/ UNCHANGED cache
    BY Zenon, <1>1 DEF handle_rsp
  <2> HIDE DEF h, data
  <2>5. \A k \in Keys : cache'[k] # None => cache'[k].exp <= Top
    BY Zenon, <2>2, <2>4, TtlBoundedMeans DEF TypeOK, Bounded
  <2> QED
    BY Zenon, <2>3, <2>5 DEF TtlBounded, Top
<1>2. CASE \E how, answered : CacheStops(how, answered)
  BY SMTT(30), <1>2 DEF CacheStops, TtlBounded
<1>3. ASSUME NEW k \in Keys, handle_vanish(k) PROVE TtlBounded'
  BY Zenon, <1>3 DEF handle_vanish, TtlBounded, TypeOK
<1>4. CASE RspPending \/ VanishPending \/ handle_req \/ ReqPending
  BY Zenon, <1>4 DEF RspPending, VanishPending, handle_req, ReqPending, TtlBounded
<1> QED
  BY Zenon, <1>1, <1>2, <1>3, <1>4 DEF poll_loop, RspClosed, SendReqUnreachable, ReqClosed

\* A tick ages every record.
LEMMA TickBounded ==
    ASSUME TypeOK, TtlBounded, Tick
    PROVE  TtlBounded'
<1>1. ASSUME NEW k \in Keys, cache'[k] # None PROVE cache'[k].exp <= Top
  <2>1. cache'[k] = Older(cache[k]) /\ cache[k] # None
    BY Zenon, <1>1, OlderType DEF Tick
  <2>2. cache[k] \in Data /\ Bounded(cache[k])
    BY Zenon, <2>1, TtlBoundedMeans DEF TypeOK
  <2>3. Bounded(Older(cache[k]))
    BY Zenon, <2>2, OlderBounded
  <2> QED
    BY Zenon, <2>1, <2>3 DEF Bounded
<1>2. ASSUME NEW i \in DOMAIN rspCh' PROVE rspCh'[i].data.exp <= Top
  <2>1. i \in DOMAIN rspCh /\ rspCh'[i] = [rspCh[i] EXCEPT !.data = Older(@)]
    BY Zenon DEF Tick
  <2>2. rspCh[i] \in Msg
    <3>1. rspCh \in Seq(Msg)
      BY Zenon DEF TypeOK, Msg
    <3> QED
      BY <2>1, <3>1
  <2>3. rspCh[i].data \in Data /\ Bounded(rspCh[i].data)
    BY Zenon, <2>1, <2>2, TtlBoundedMeans DEF Msg
  <2>4. rspCh'[i].data = Older(rspCh[i].data)
    BY Zenon, <2>1, <2>2 DEF Msg
  <2> QED
    BY Zenon, <2>3, <2>4, OlderBounded DEF Bounded
<1> QED
  BY Zenon, <1>1, <1>2 DEF TtlBounded, Top

\* Every step of the query task and of everything around it keeps the bound.
LEMMA TtlInductive ==
    ASSUME TypeOK, RType, TtlBounded, [RouteNext]_<<vars, routeVars>>
    PROVE  TtlBounded'
<1> DEFINE empty == EmptyData(ProtectiveTtl)
<1>1. empty \in Data /\ Bounded(empty)
  BY Zenon, DataType, AnswersBounded
<1>2. CASE UNCHANGED <<cache, rspCh>>
  BY Zenon, <1>2 DEF TtlBounded
<1>3. CASE RecvPending \/ SendOk \/ SendDone \/ TimeoutDone \/ RecvReqPending
  BY Zenon, <1>2, <1>3 DEF RecvPending, SendOk, SendDone, TimeoutDone, RecvReqPending, vars
<1>4. CASE SendError
  <2>1. Head(writeQ).key \in Keys
    BY Zenon, <1>4, SendErrorIsQueryRsp
  <2>2. UNCHANGED cache /\ (SendRsp(Head(writeQ).key, empty) \/ UNCHANGED rspCh)
    BY Zenon, <1>4 DEF SendError, QueryRsp, send_rsp_data, cacheVars
  <2> QED
    BY Zenon, <1>1, <2>1, <2>2, SendBounded
<1>5. ASSUME NEW k \in Keys, TimedOut(k) PROVE TtlBounded'
  <2>1. UNCHANGED cache /\ (SendRsp(k, empty) \/ UNCHANGED rspCh)
    BY Zenon, <1>5 DEF TimedOut, QueryExpired, cacheVars
  <2> QED
    BY Zenon, <1>1, <2>1, SendBounded
<1>6. ASSUME NEW id \in Ids, RouteReq(id) PROVE TtlBounded'
  BY Zenon, <1>2, <1>6 DEF RouteReq, QueryReq, cacheVars
<1>7. CASE RouteReqFail
  <2>1. Head(queryCh) \in Keys
    BY <1>7 DEF RouteReqFail, QueryReqFail, TypeOK
  <2>2. UNCHANGED cache /\ SendRsp(Head(queryCh), empty)
    BY Zenon, <1>7 DEF RouteReqFail, QueryReqFail, cacheVars
  <2> QED
    BY Zenon, <1>1, <2>1, <2>2, SendBounded
<1>8. CASE RecvReqClosed \/ RecvError
  BY Zenon, <1>2, <1>8 DEF RecvReqClosed, RecvError, QueryClosed, QuerySocketError, QueryStops, cacheVars
<1>9. ASSUME NEW id \in Ids, NEW found \in BOOLEAN, NEW ttl \in RawTtls, RecvRsp(id, found, ttl)
      PROVE  TtlBounded'
  <2> DEFINE data == IF found THEN NewData(CacheTtl(ttl)) ELSE EmptyData(CacheTtl(ttl))
  <2>1. CacheTtl(ttl) \in Nat
    BY Zenon, RouteAssumption, ConstAssumption DEF CacheTtl
  <2>2. data \in Data /\ Bounded(data)
    BY Zenon, <2>1, DataType, AnswersBounded
  <2>3. idKey[id] \in Keys /\ UNCHANGED cache
    BY Zenon, <1>9 DEF RecvRsp, RType, QueryRsp, cacheVars
  <2>4. SendRsp(idKey[id], data) \/ UNCHANGED rspCh
    BY Zenon, <1>9 DEF RecvRsp, QueryRsp, send_rsp_data
  <2> HIDE DEF data
  <2> QED
    BY Zenon, <2>2, <2>3, <2>4, SendBounded
<1>10. CASE \/ \E r \in Reqs : do_fetch(r) \/ FetchTimeout(r)
            \/ DropHandles
  BY Zenon, <1>2, <1>10 DEF do_fetch, FetchTimeout, DropHandles, cacheVars
<1>11. CASE UNCHANGED <<vars, routeVars>>
  BY Zenon, <1>2, <1>11 DEF vars
<1> QED
  BY Zenon, <1>3, <1>4, <1>5, <1>6, <1>7, <1>8, <1>9, <1>10, <1>11, PollBounded, TickBounded
     DEF RouteNext, QueryRuntimePoll

-----------------------------------------------------------------------------
(* The rest of the types *)

\* The place in the poll loop, the ids drawn and the ids sent.
Places == qpc \in {"recv", "send", "timeout", "req"} /\ used \in SUBSET Ids /\ wire \in SUBSET Ids

\* The poll loop keeps to its places, and only ids are drawn and sent.
LEMMA PlacesInductive ==
    ASSUME RType, Places, [RouteNext]_<<vars, routeVars>>
    PROVE  Places'
<1>1. CASE RecvPending \/ SendDone \/ TimeoutDone \/ RecvReqPending
  BY Zenon, <1>1 DEF RecvPending, SendDone, TimeoutDone, RecvReqPending, Places
<1>2. CASE SendOk
  <2> DEFINE Queries == [key : Keys, id : Ids]
  <2>1. writeQ # <<>> /\ writeQ \in Seq(Queries)
    BY Zenon, <1>2 DEF SendOk, RType
  <2> HIDE DEF Queries
  <2>2. Head(writeQ) \in Queries
    BY <2>1
  <2>3. Head(writeQ).id \in Ids
    BY Zenon, <2>2 DEF Queries
  <2> QED
    BY Zenon, <1>2, <2>3 DEF SendOk, Places
<1>3. CASE SendError \/ \E k \in Keys : TimedOut(k)
  BY Zenon, <1>3 DEF SendError, TimedOut, Places
<1>4. CASE \E id \in Ids : RouteReq(id)
  BY Zenon, <1>4 DEF RouteReq, Places
<1>5. CASE RouteReqFail
  BY Zenon, <1>5 DEF RouteReqFail, Places
<1>6. CASE \E id \in Ids, found \in BOOLEAN, ttl \in RawTtls : RecvRsp(id, found, ttl)
  BY Zenon, <1>6 DEF RecvRsp, Places
<1>7. CASE UNCHANGED routeVars
  BY Zenon, <1>7 DEF routeVars, Places
<1> QED
  BY Zenon, <1>1, <1>2, <1>3, <1>4, <1>5, <1>6, <1>7 DEF RouteNext, QueryRuntimePoll, RecvReqClosed, RecvError

-----------------------------------------------------------------------------
(* The theorems *)

\* The inductive invariant: the effective cache's types and timers, and the maps.
RouteInv == TypeOK /\ BatchLeft /\ TimersTrack /\ RType /\ Places /\ IdsDrawn /\ MapsAgree /\ TtlBounded

\* RouteInv holds in every reachable state of the escaper's query task.
THEOREM AlwaysRouteInv == RouteSpec => []RouteInv
<1>1. RouteInit => RouteInv
  <2> SUFFICES ASSUME RouteInit PROVE RouteInv
    OBVIOUS
  <2>1. TypeOK /\ BatchLeft /\ TimersTrack
    BY Zenon, TypeInit DEF RouteInit, Init, TimersTrack
  <2>2. RType /\ IdsDrawn /\ MapsAgree
    BY RouteAssumption DEF RouteInit, Init, RType, IdsDrawn, MapsAgree
  <2>3. TtlBounded
    <3>1. cache = [k \in Keys |-> None] /\ rspCh = <<>>
      BY Zenon DEF RouteInit, Init
    <3>2. DOMAIN rspCh = {} /\ \A k \in Keys : cache[k] = None
      BY <3>1
    <3> QED
      BY Zenon, <3>2 DEF TtlBounded
  <2>4. Places
    BY Zenon DEF RouteInit, Places
  <2> QED
    BY Zenon, <2>1, <2>2, <2>3, <2>4 DEF RouteInv
<1>2. RouteInv /\ [RouteNext]_<<vars, routeVars>> => RouteInv'
  BY Zenon, RouteStep, TypeInductive, TimersInductive, MapsInductive, PlacesInductive, TtlInductive DEF RouteInv
<1> QED
  BY <1>1, <1>2, PTL DEF RouteSpec

\* The state of the query task is well-typed, as is the cache's.
THEOREM RouteTypeCorrect == RouteSpec => []RouteTypeOK
<1>1. RouteInv => RouteTypeOK
  BY Zenon DEF RouteInv, RType, Places, RouteTypeOK
<1> QED
  BY <1>1, AlwaysRouteInv, PTL

\* For every set of keys and ids: the maps of the query task are inverse to each
\* other and know exactly the keys that have an unanswered query.
THEOREM MapsAlwaysAgree == RouteSpec => []MapsAgree
<1>1. RouteInv => MapsAgree
  BY Zenon DEF RouteInv
<1> QED
  BY <1>1, AlwaysRouteInv, PTL

\* For every ttl a peer may send: nothing is served for longer than the maximum.
THEOREM TtlAlwaysBounded == RouteSpec => []TtlBounded
<1>1. RouteInv => TtlBounded
  BY Zenon DEF RouteInv
<1> QED
  BY <1>1, AlwaysRouteInv, PTL

\* The query task implements the effective cache's specification of its user.
THEOREM RouteImplements == RouteSpec => ImplementsEffectiveCache
<1>1. RouteInit => Init
  BY Zenon DEF RouteInit
<1>2. RouteInv /\ [RouteNext]_<<vars, routeVars>> => [Next]_vars
  BY Zenon, RouteStep DEF RouteInv
<1> QED
  BY <1>1, <1>2, AlwaysRouteInv, PTL DEF RouteSpec, Spec, ImplementsEffectiveCache

\* So what is proved of the effective cache holds of the escaper: no call is
\* lost, and the escaper's cache is a single-flight cache.
THEOREM RouteInherits ==
    RouteSpec => []NoLostCall /\ []InFlightOnce /\ ImplementsSingleFlight
  BY RouteImplements, NoCallIsLost, OneQueryPerKey, CacheIsSingleFlight, PTL
     DEF ImplementsEffectiveCache

=============================================================================
