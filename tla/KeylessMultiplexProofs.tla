----------------------- MODULE KeylessMultiplexProofs -----------------------
(***************************************************************************)
(* Proofs about KeylessMultiplex for every number of requests and every    *)
(* max_request_count: however answers, ticks and the ends of the two tasks *)
(* are ordered, a client gets the answer to its own request or an error,   *)
(* and no request is lost.                                                 *)
(***************************************************************************)
EXTENDS KeylessMultiplex, TLAPS

-----------------------------------------------------------------------------
(* The inductive invariant *)

\* Request r is in the tables under id i.
InTable(i, r) == cur[i] = r \/ old[i] = r

\* Something of request r goes by the id i: an entry of a table, a message on
\* either side of the network, or what the send task writes.
Mentions(i, r) ==
    \/ InTable(i, r)
    \/ [id |-> i, of |-> r] \in peer
    \/ \E n \in DOMAIN wire : wire[n] = [id |-> i, of |-> r]
    \/ partial = [id |-> i, of |-> r]
    \/ send = "write" /\ msgId = i /\ writing = r

\* The id of the next request is the number of requests taken, within the limit.
Counters ==
    /\ send = "select" => msgId = count /\ count < MaxRequests
    /\ send = "write" => count = msgId + 1 /\ writing \in Reqs

\* The queue holds each request once, and those that nobody has taken.
Queued ==
    /\ \A n \in DOMAIN queue : out[queue[n]] = "queue"
    /\ \A m, n \in DOMAIN queue : queue[m] = queue[n] => m = n

\* Ids and requests correspond, and the id of the next request is not in use.
OneId ==
    \A i \in Ids, r \in Reqs : Mentions(i, r) =>
        /\ out[r] \notin {"new", "queue"}
        /\ send = "select" => i < msgId
        /\ send = "write" => i <= msgId
        /\ \A j \in Ids, q \in Reqs : Mentions(j, q) => (i = j <=> r = q)

\* An id is in one table, and the requests in the tables are the waiting ones.
Tabled ==
    /\ \A i \in Ids : cur[i] = None \/ old[i] = None
    /\ \A r \in Reqs : out[r] = "wait" <=> \E i \in Ids : InTable(i, r)

\* A request in the current table has seen no tick, one in the old table one.
Ages ==
    /\ \A r \in Reqs : out[r] \in {"new", "queue"} => age[r] = 0
    /\ \A r \in Reqs : out[r] = "timeout" => age[r] = 2
    /\ \A i \in Ids : cur[i] # None => age[cur[i]] = 0
    /\ \A i \in Ids : old[i] # None => age[old[i]] = 1

\* Why the receive task is where it is, and what is then left in the tables.
Ends ==
    /\ send = "end" /\ recv = "end" => ~has_pending
    /\ recv = "offline" => send = "end"
    /\ recv \in {"pending", "await"} => quit
    /\ recv = "drain" /\ ~failed /\ ~quit => send = "end" /\ ~has_pending

-----------------------------------------------------------------------------
(* What the operations on the tables do *)

\* A step in which only waiting requests change, and are settled.
OnlySettles ==
    /\ out' \in [Reqs -> {"new", "queue", "wait"} \cup Settled]
    /\ \A r \in Reqs : out'[r] # out[r] => out[r] = "wait" /\ out'[r] \in Settled

\* A step after which the tables are well-formed and hold nothing new.
TablesShrink ==
    /\ cur' \in [Ids -> Reqs \cup {None}] /\ old' \in [Ids -> Reqs \cup {None}]
    /\ Tabled'
    /\ \A i \in Ids, r \in Reqs : InTable(i, r)' => InTable(i, r)

\* What a table holds.
LEMMA HeldMeans ==
    ASSUME NEW t \in [Ids -> Reqs \cup {None}]
    PROVE  /\ Held(t) \subseteq Reqs
           /\ \A r \in Reqs : r \in Held(t) <=> \E i \in Ids : t[i] = r
  BY Zenon, KeylessAssumption DEF Held

\* Nothing is pending when no id is in a table.
LEMMA PendingMeans ==
    ASSUME TypeOK
    PROVE  has_pending <=> \E i \in Ids, r \in Reqs : InTable(i, r)
<1>1. /\ Held(cur) \subseteq Reqs /\ \A r \in Reqs : r \in Held(cur) <=> \E i \in Ids : cur[i] = r
      /\ Held(old) \subseteq Reqs /\ \A r \in Reqs : r \in Held(old) <=> \E i \in Ids : old[i] = r
  BY Zenon, HeldMeans DEF TypeOK
<1> QED
  BY Zenon, <1>1 DEF has_pending, InTable

\* fetch_request and what is done with the request it returns: an answer for it
\* is passed on, or its failure.
LEMMA FetchStep ==
    ASSUME TypeOK, OneId, Tabled, Ages, NEW id \in Ids, NEW v \in {"answer", "error"},
           fetch_request(id), Finish(Fetched(id), v), UNCHANGED age
    PROVE  /\ OnlySettles /\ TablesShrink /\ Ages'
           /\ \A r \in Reqs : r \in Fetched(id) <=> InTable(id, r)
<1>1. \A r \in Reqs : r \in Fetched(id) <=> InTable(id, r)
  BY KeylessAssumption DEF Fetched, InTable, TypeOK, Tabled
<1>2. \A i, j \in Ids, r \in Reqs : InTable(i, r) /\ InTable(j, r) => i = j
  BY DEF OneId, Mentions
<1>3. /\ cur' \in [Ids -> Reqs \cup {None}] /\ old' \in [Ids -> Reqs \cup {None}]
      /\ \A i \in Ids \ {id} : cur'[i] = cur[i] /\ old'[i] = old[i]
      /\ cur'[id] = None /\ old'[id] = None
  BY Zenon DEF fetch_request, TypeOK, Tabled
<1>4. \A i \in Ids, r \in Reqs : InTable(i, r)' <=> InTable(i, r) /\ i # id
  BY Zenon, <1>3, KeylessAssumption DEF InTable
<1>5. \A r \in Reqs : out'[r] = IF InTable(id, r) THEN v ELSE out[r]
  BY Zenon, <1>1 DEF Finish
<1>6. OnlySettles
  <2>1. out' \in [Reqs -> {"new", "queue", "wait"} \cup Settled]
    BY Zenon DEF Finish, Settled, TypeOK
  <2> QED
    BY Zenon, <2>1, <1>5 DEF OnlySettles, Tabled, Settled
<1>7. Tabled'
  <2>1. \A i \in Ids : cur'[i] = None \/ old'[i] = None
    BY Zenon, <1>3 DEF Tabled
  <2>2. \A r \in Reqs : out'[r] = "wait" <=> \E i \in Ids : InTable(i, r)'
    BY <1>2, <1>4, <1>5 DEF Tabled
  <2> QED
    BY Zenon, <2>1, <2>2 DEF Tabled, InTable
<1>8. Ages'
  <2>1. \A r \in Reqs : out'[r] = out[r] \/ out'[r] \in {"answer", "error"}
    BY Zenon, <1>5
  <2>2. \A i \in Ids : (cur'[i] = cur[i] \/ cur'[i] = None) /\ (old'[i] = old[i] \/ old'[i] = None)
    BY Zenon, <1>3
  <2> QED
    BY <2>1, <2>2 DEF Ages
<1> QED
  BY Zenon, <1>1, <1>3, <1>4, <1>6, <1>7, <1>8 DEF TablesShrink

\* rotate_timeout: the requests of the old table time out, at their second tick.
LEMMA RotateStep ==
    ASSUME TypeOK, OneId, Tabled, Ages, rotate_timeout
    PROVE  OnlySettles /\ TablesShrink /\ Ages' /\ age' \in [Reqs -> 0 .. 2]
<1>1. /\ \A r \in Reqs : r \in Held(cur) <=> \E i \in Ids : cur[i] = r
      /\ \A r \in Reqs : r \in Held(old) <=> \E i \in Ids : old[i] = r
  BY Zenon, HeldMeans DEF TypeOK
<1>2. /\ cur' \in [Ids -> Reqs \cup {None}] /\ old' \in [Ids -> Reqs \cup {None}]
      /\ \A i \in Ids : cur'[i] = None /\ old'[i] = cur[i]
  BY Zenon DEF rotate_timeout, TypeOK
<1>3. \A i \in Ids, r \in Reqs : InTable(i, r)' <=> cur[i] = r
  BY Zenon, <1>2, KeylessAssumption DEF InTable
<1>4. \A r \in Reqs : out'[r] = IF \E i \in Ids : old[i] = r THEN "timeout" ELSE out[r]
  BY Zenon, <1>1 DEF rotate_timeout, Finish
<1>5. \A r \in Reqs : (\E i \in Ids : old[i] = r) /\ (\E i \in Ids : cur[i] = r) => FALSE
  BY KeylessAssumption DEF OneId, Mentions, InTable, Tabled
<1>6. OnlySettles
  <2>1. out' \in [Reqs -> {"new", "queue", "wait"} \cup Settled]
    BY Zenon DEF rotate_timeout, Finish, Settled, TypeOK
  <2> QED
    BY Zenon, <2>1, <1>4 DEF OnlySettles, Tabled, InTable, Settled
<1>7. Tabled'
  <2>1. \A r \in Reqs : out'[r] = "wait" <=> \E i \in Ids : InTable(i, r)'
    BY <1>3, <1>4, <1>5 DEF Tabled, InTable
  <2> QED
    BY Zenon, <2>1, <1>2 DEF Tabled, InTable
<1>8. \A r \in Reqs : age'[r] = IF \E i \in Ids : InTable(i, r) THEN age[r] + 1 ELSE age[r]
  BY Zenon, <1>1 DEF rotate_timeout, Older, InTable
<1>9. \A r \in Reqs : age'[r] \in 0 .. 2
  <2> SUFFICES ASSUME NEW r \in Reqs PROVE age'[r] \in 0 .. 2
    OBVIOUS
  <2>1. (\E i \in Ids : InTable(i, r)) => age[r] \in 0 .. 1
    BY KeylessAssumption DEF InTable, Ages
  <2> QED
    BY <1>8, <2>1 DEF TypeOK
<1>10. age' \in [Reqs -> 0 .. 2]
  BY Zenon, <1>9 DEF rotate_timeout, Older
<1>11. Ages'
  <2>1. ASSUME NEW r \in Reqs PROVE out'[r] \in {"new", "queue"} => age'[r] = 0
    BY Zenon, <1>4, <1>8 DEF Ages, Tabled
  <2>2. ASSUME NEW r \in Reqs PROVE out'[r] = "timeout" => age'[r] = 2
    <3>1. CASE \E i \in Ids : old[i] = r
      BY <3>1, <1>8, KeylessAssumption DEF Ages, InTable
    <3>2. CASE ~\E i \in Ids : old[i] = r
      BY Zenon, <3>2, <1>4, <1>8 DEF Ages, Tabled
    <3> QED
      BY Zenon, <3>1, <3>2
  <2>3. ASSUME NEW i \in Ids, old'[i] # None PROVE age'[old'[i]] = 1
    <3>1. old'[i] = cur[i] /\ cur[i] \in Reqs /\ age[cur[i]] = 0 /\ InTable(i, cur[i])
      BY Zenon, <2>3, <1>2 DEF TypeOK, Ages, InTable
    <3> QED
      BY <3>1, <1>8
  <2> QED
    BY Zenon, <1>2, <2>1, <2>2, <2>3 DEF Ages
<1> QED
  BY Zenon, <1>2, <1>3, <1>6, <1>7, <1>10, <1>11 DEF TablesShrink, InTable

\* The tables are dropped: what is left in them fails.
LEMMA ReleaseStep ==
    ASSUME TypeOK, OneId, Tabled, Ages, Release(TRUE), UNCHANGED age
    PROVE  /\ OnlySettles /\ TablesShrink /\ Ages'
           /\ \A i \in Ids, r \in Reqs : ~InTable(i, r)'
<1>1. /\ \A r \in Reqs : r \in Held(cur) <=> \E i \in Ids : cur[i] = r
      /\ \A r \in Reqs : r \in Held(old) <=> \E i \in Ids : old[i] = r
  BY Zenon, HeldMeans DEF TypeOK
<1>2. /\ cur' \in [Ids -> Reqs \cup {None}] /\ old' \in [Ids -> Reqs \cup {None}]
      /\ \A i \in Ids : cur'[i] = None /\ old'[i] = None
  BY Zenon DEF Release
<1>3. \A i \in Ids, r \in Reqs : ~InTable(i, r)'
  BY Zenon, <1>2, KeylessAssumption DEF InTable
<1>4. \A r \in Reqs : out'[r] = IF \E i \in Ids : InTable(i, r) THEN "error" ELSE out[r]
  BY <1>1 DEF Release, Finish, InTable
<1>5. OnlySettles
  <2>1. out' \in [Reqs -> {"new", "queue", "wait"} \cup Settled]
    BY DEF Release, Finish, Settled, TypeOK
  <2> QED
    BY Zenon, <2>1, <1>4 DEF OnlySettles, Tabled, Settled
<1>6. Tabled'
  <2>1. \A r \in Reqs : out'[r] # "wait"
    BY Zenon, <1>4 DEF Tabled
  <2> QED
    BY Zenon, <2>1, <1>2, <1>3 DEF Tabled, InTable
<1>7. Ages'
  BY Zenon, <1>2, <1>4 DEF Ages
<1> QED
  BY Zenon, <1>2, <1>3, <1>5, <1>6, <1>7 DEF TablesShrink

\* Nothing is done to the tables.
LEMMA QuietStep ==
    ASSUME TypeOK, Tabled, Ages, UNCHANGED <<out, age, cur, old>>
    PROVE  OnlySettles /\ TablesShrink /\ Ages'
<1>1. OnlySettles
  BY Zenon DEF OnlySettles, TypeOK
<1>2. TablesShrink
  BY Zenon DEF TablesShrink, TypeOK, Tabled, InTable
<1> QED
  BY Zenon, <1>1, <1>2 DEF Ages

\* The send task ends, and drops the tables when it is the last of the two.
LEMMA SendReleases ==
    ASSUME TypeOK, OneId, Tabled, Ages, Release(recv = "end"), UNCHANGED age
    PROVE  /\ OnlySettles /\ TablesShrink /\ Ages'
           /\ recv = "end" => \A i \in Ids, r \in Reqs : ~InTable(i, r)'
<1>1. CASE recv = "end"
  <2>1. Release(TRUE)
    BY Zenon, <1>1 DEF Release
  <2> QED
    BY Zenon, <2>1, ReleaseStep
<1>2. CASE recv # "end"
  <2>1. UNCHANGED <<out, age, cur, old>>
    BY Zenon, <1>2 DEF Release, tables
  <2> QED
    BY Zenon, <1>2, <2>1, QuietStep
<1> QED
  BY Zenon, <1>1, <1>2

\* Where nothing new is mentioned, ids and requests still correspond, and the
\* queue is as good as before.
LEMMA Corresponds ==
    ASSUME TypeOK, OneId, Queued, OnlySettles, UNCHANGED queue,
           \A i \in Ids, r \in Reqs : Mentions(i, r)' => Mentions(i, r),
           send' = "select" => \/ send = "select" /\ msgId' = msgId
                               \/ send = "write" /\ msgId' = msgId + 1,
           send' = "write" => send = "write" /\ msgId' = msgId
    PROVE  OneId' /\ Queued'
<1>1. \A r \in Reqs : out[r] \notin {"new", "queue"} => out'[r] \notin {"new", "queue"}
  BY Zenon DEF OnlySettles, Settled
<1>2. \A r \in Reqs : out[r] = "queue" => out'[r] = "queue"
  BY Zenon DEF OnlySettles
<1>3. Queued'
  <2>1. \A n \in DOMAIN queue : queue[n] \in Reqs
    BY DEF TypeOK
  <2> QED
    BY Zenon, <1>2, <2>1 DEF Queued
<1>4. ASSUME NEW i \in Ids, NEW r \in Reqs, Mentions(i, r)'
      PROVE  /\ out'[r] \notin {"new", "queue"}
             /\ send' = "select" => i < msgId'
             /\ send' = "write" => i <= msgId'
             /\ \A j \in Ids, q \in Reqs : Mentions(j, q)' => (i = j <=> r = q)
  <2>1. Mentions(i, r)
    BY Zenon, <1>4
  <2>2. /\ out[r] \notin {"new", "queue"}
        /\ send = "select" => i < msgId
        /\ send = "write" => i <= msgId
        /\ \A j \in Ids, q \in Reqs : Mentions(j, q) => (i = j <=> r = q)
    BY Zenon, <2>1 DEF OneId
  <2>3. i \in Nat /\ msgId \in Nat
    BY KeylessAssumption DEF Ids, TypeOK
  <2> QED
    BY <1>1, <2>2, <2>3
<1>5. OneId'
  BY Zenon, <1>4 DEF OneId
<1> QED
  BY Zenon, <1>3, <1>5

\* What PendingMeans says holds after a step, too.
LEMMA PendingAfter ==
    ASSUME TablesShrink
    PROVE  has_pending' <=> \E i \in Ids, r \in Reqs : InTable(i, r)'
<1>1. /\ Held(cur') \subseteq Reqs /\ \A r \in Reqs : r \in Held(cur') <=> \E i \in Ids : cur'[i] = r
      /\ Held(old') \subseteq Reqs /\ \A r \in Reqs : r \in Held(old') <=> \E i \in Ids : old'[i] = r
  BY Zenon, HeldMeans DEF TablesShrink
<1> QED
  BY Zenon, <1>1 DEF has_pending, InTable

\* Tables that hold nothing new are empty when they were.
LEMMA StaysEmpty ==
    ASSUME TypeOK, TablesShrink
    PROVE  ~has_pending => ~has_pending'
  BY Zenon, PendingMeans, PendingAfter DEF TablesShrink

-----------------------------------------------------------------------------
(* The steps *)

Inv == TypeOK /\ Counters /\ Queued /\ OneId /\ Tabled /\ Ages /\ Ends /\ OwnResponse

\* A request joins the end of the queue.
LEMMA Appended ==
    ASSUME NEW s \in Seq(Reqs), NEW r \in Reqs
    PROVE  /\ Append(s, r) \in Seq(Reqs) /\ Len(s) \in Nat
           /\ DOMAIN s = 1 .. Len(s) /\ DOMAIN Append(s, r) = 1 .. (Len(s) + 1)
           /\ \A n \in DOMAIN s : Append(s, r)[n] = s[n]
           /\ Append(s, r)[Len(s) + 1] = r
  OBVIOUS

\* The clients, the pool and the server.
LEMMA OutsideSteps ==
    ASSUME Inv, \/ \E r \in Reqs : keyless(r)
                \/ Quit \/ PeerClose
                \/ \E m \in peer : PeerAnswer(m)
    PROVE  Inv'
<1> USE DEF Inv
<1>1. ASSUME NEW r \in Reqs, keyless(r) PROVE Inv'
  <2> USE <1>1 DEF keyless, sendVars, tables, recvVars, netVars
  <2>1. /\ out' \in [Reqs -> {"new", "queue", "wait"} \cup Settled]
        /\ out[r] = "new" /\ out'[r] \in {"queue", "error"}
        /\ \A q \in Reqs \ {r} : out'[q] = out[q]
    BY Zenon DEF TypeOK, Settled
  <2>2. queue' = queue \/ (queue' = Append(queue, r) /\ out'[r] = "queue")
    BY Zenon DEF TypeOK
  <2>3. queue \in Seq(Reqs) /\ queue' \in Seq(Reqs)
    <3>1. queue \in Seq(Reqs)
      BY Zenon DEF TypeOK
    <3>2. Append(queue, r) \in Seq(Reqs)
      BY Zenon, <3>1, Appended
    <3> QED
      BY Zenon, <2>2, <3>1, <3>2
  <2>4. TypeOK'
    BY <2>1, <2>3 DEF TypeOK
  <2>5. ASSUME queue' = queue PROVE Queued'
    <3>1. \A n \in DOMAIN queue : queue[n] \in Reqs /\ out[queue[n]] = "queue"
      BY <2>3 DEF Queued
    <3> QED
      BY Zenon, <2>1, <2>5, <3>1 DEF Queued
  <2>6. ASSUME queue' = Append(queue, r), out'[r] = "queue" PROVE Queued'
    <3>1. \A n \in DOMAIN queue : queue[n] \in Reqs /\ queue[n] # r
      BY <2>1, <2>3 DEF Queued
    <3>2. DOMAIN queue' = 1 .. (Len(queue) + 1) /\ DOMAIN queue = 1 .. Len(queue) /\ Len(queue) \in Nat
      BY Zenon, <2>3, <2>6, Appended
    <3>3. /\ \A n \in DOMAIN queue : Append(queue, r)[n] = queue[n]
          /\ Append(queue, r)[Len(queue) + 1] = r
      BY <2>3, Appended
    <3>4. /\ \A n \in DOMAIN queue : queue'[n] = queue[n]
          /\ queue'[Len(queue) + 1] = r
      BY Zenon, <2>6, <3>3
    <3>5. \A n \in DOMAIN queue' : n \in DOMAIN queue \/ n = Len(queue) + 1
      BY <3>2
    <3>6. ASSUME NEW m \in DOMAIN queue', NEW n \in DOMAIN queue', queue'[m] = queue'[n] PROVE m = n
      BY <3>1, <3>4, <3>5, <3>6 DEF Queued
    <3>7. ASSUME NEW n \in DOMAIN queue' PROVE out'[queue'[n]] = "queue"
      BY <2>1, <2>6, <3>1, <3>4, <3>5 DEF Queued
    <3> QED
      BY Zenon, <3>6, <3>7 DEF Queued
  <2>7. Queued'
    BY Zenon, <2>2, <2>5, <2>6
  <2>8. \A i \in Ids, q \in Reqs : Mentions(i, q)' <=> Mentions(i, q)
    BY DEF Mentions, InTable
  <2>9. \A i \in Ids, q \in Reqs : Mentions(i, q) => out'[q] = out[q]
    BY <2>1 DEF OneId
  <2>10. OneId'
    BY <2>8, <2>9 DEF OneId
  <2>11. Tabled'
    <3>1. \A q \in Reqs : (\E i \in Ids : InTable(i, q)') <=> (\E i \in Ids : InTable(i, q))
      BY Zenon DEF InTable
    <3>2. \A q \in Reqs : out'[q] = "wait" <=> out[q] = "wait"
      BY Zenon, <2>1
    <3> QED
      BY Zenon, <3>1, <3>2 DEF Tabled, InTable
  <2>12. Ages'
    BY Zenon, <2>1 DEF Ages, TypeOK
  <2>13. Counters' /\ Ends' /\ OwnResponse'
    BY Zenon DEF Counters, Ends, has_pending, OwnResponse
  <2> QED
    BY Zenon, <2>4, <2>7, <2>10, <2>11, <2>12, <2>13
<1>2. CASE Quit
  <2> USE <1>2 DEF Quit, sendVars, tables, recvVars, netVars
  <2>1. TypeOK'
    BY DEF TypeOK
  <2>2. OneId'
    <3>1. \A i \in Ids, r \in Reqs : Mentions(i, r)' <=> Mentions(i, r)
      BY DEF Mentions, InTable
    <3> QED
      BY <3>1 DEF OneId
  <2>3. Queued' /\ Tabled' /\ Ages' /\ Counters' /\ OwnResponse'
    BY DEF Queued, Tabled, InTable, Ages, Counters, OwnResponse
  <2>4. Ends'
    BY Zenon DEF Ends, has_pending
  <2> QED
    BY Zenon, <2>1, <2>2, <2>3, <2>4
<1>3. ASSUME PeerClose \/ \E m \in peer : PeerAnswer(m) PROVE Inv'
  <2>1. UNCHANGED <<out, got, age, queue, quit, sendVars, tables, recvVars>>
    BY Zenon, <1>3 DEF PeerClose, PeerAnswer
  <2> USE <2>1 DEF sendVars, tables, recvVars
  <2>2. /\ peer' \in SUBSET Message /\ wire' \in Seq(Message) /\ open' \in BOOLEAN
        /\ \A m \in peer' : m \in peer
        /\ \A n \in DOMAIN wire' : wire'[n] \in peer \/ \E k \in DOMAIN wire : wire'[n] = wire[k]
    <3>1. CASE PeerClose
      <4>1. open' = FALSE /\ peer' = {} /\ wire' = wire
        BY Zenon, <3>1 DEF PeerClose
      <4> QED
        BY Zenon, <4>1 DEF TypeOK
    <3>2. ASSUME NEW m \in peer, PeerAnswer(m)
          PROVE  /\ peer' \in SUBSET Message /\ wire' \in Seq(Message)
                 /\ \A x \in peer' : x \in peer
                 /\ \A n \in DOMAIN wire' : \/ wire'[n] \in peer
                                            \/ \E k \in DOMAIN wire : wire'[n] = wire[k]
      <4>1. wire \in Seq(Message) /\ m \in Message /\ wire' = Append(wire, m) /\ peer' = peer \ {m}
        BY Zenon, <3>2 DEF PeerAnswer, TypeOK
      <4>2. \A n \in DOMAIN wire' : (n \in DOMAIN wire /\ wire'[n] = wire[n]) \/ wire'[n] = m
        BY <4>1
      <4>3. wire' \in Seq(Message)
        BY <4>1
      <4> QED
        BY Zenon, <4>1, <4>2, <4>3 DEF TypeOK
    <3>3. ASSUME NEW m \in peer, PeerAnswer(m) PROVE open' \in BOOLEAN
      BY Zenon, <3>3 DEF PeerAnswer, TypeOK
    <3> QED
      BY Zenon, <1>3, <3>1, <3>2, <3>3
  <2>3. TypeOK'
    BY <2>2 DEF TypeOK
  <2>4. \A i \in Ids, r \in Reqs : Mentions(i, r)' => Mentions(i, r)
    BY <2>2 DEF Mentions, InTable
  <2>5. OnlySettles
    BY Zenon DEF OnlySettles, TypeOK
  <2>6. OneId' /\ Queued'
    BY Zenon, <2>4, <2>5, Corresponds
  <2>7. Tabled' /\ Ages' /\ Counters' /\ OwnResponse' /\ Ends'
    BY DEF Tabled, InTable, Ages, Counters, OwnResponse, Ends, has_pending
  <2> QED
    BY Zenon, <2>3, <2>6, <2>7
<1> QED
  BY Zenon, <1>1, <1>2, <1>3

\* The send task takes a request and enters it under the next id: nobody knows
\* the id yet, and nothing of the request has been seen.
LEMMA TakeStep == ASSUME Inv, Take PROVE Inv'
<1> USE DEF Inv
<1> DEFINE r == Head(queue)
<1>1. /\ queue \in Seq(Reqs) /\ queue # <<>> /\ r \in Reqs /\ out[r] = "queue"
      /\ queue' = Tail(queue) /\ queue' \in Seq(Reqs)
      /\ \A n \in DOMAIN queue' : n + 1 \in DOMAIN queue /\ queue'[n] = queue[n + 1] /\ queue'[n] # r
  <2>1. queue \in Seq(Reqs) /\ queue # <<>> /\ queue' = Tail(queue)
    BY Zenon DEF Take, TypeOK
  <2>2. /\ r \in Reqs /\ r = queue[1] /\ 1 \in DOMAIN queue /\ queue' \in Seq(Reqs)
        /\ \A n \in DOMAIN queue' : n + 1 \in DOMAIN queue /\ queue'[n] = queue[n + 1] /\ n \in 1 .. Len(queue)
    BY <2>1
  <2> HIDE DEF r
  <2> QED
    BY <2>1, <2>2 DEF Queued
<1>2. /\ send = "select" /\ send' = "write" /\ writing' = r /\ count' = count + 1 /\ msgId' = msgId
      /\ cur' = [cur EXCEPT ![msgId] = r]
      /\ UNCHANGED <<got, age, quit, old, recvVars, netVars>>
  BY Zenon DEF Take
<1>3. msgId \in Ids /\ msgId = count /\ count < MaxRequests /\ count \in Nat
  BY <1>2, KeylessAssumption DEF Counters, TypeOK, Ids
<1> HIDE DEF r
<1>4. \A q \in Reqs : ~Mentions(msgId, q)
  BY <1>2, <1>3 DEF OneId
<1>5. cur[msgId] = None /\ old[msgId] = None
  BY Zenon, <1>3, <1>4 DEF Mentions, InTable, TypeOK
<1>6. /\ out' = [q \in Reqs |-> IF q = r THEN "wait" ELSE out[q]]
      /\ out' \in [Reqs -> {"new", "queue", "wait"} \cup Settled]
  <2>1. out' = [q \in Reqs |-> IF q = r THEN "wait" ELSE IF q \in {cur[msgId]} \ {None} THEN "error" ELSE out[q]]
    BY Zenon DEF Take, r
  <2> QED
    BY Zenon, <2>1, <1>5 DEF TypeOK
<1>7. /\ cur' \in [Ids -> Reqs \cup {None}] /\ cur'[msgId] = r
      /\ \A i \in Ids \ {msgId} : cur'[i] = cur[i]
  BY Zenon, <1>1, <1>2, <1>3 DEF TypeOK
<1>8. TypeOK'
  <2>1. count' \in 0 .. MaxRequests /\ msgId' \in 0 .. count'
    BY <1>2, <1>3, KeylessAssumption
  <2>2. send' \in {"select", "write", "end"} /\ writing' \in Reqs \cup {None}
    BY Zenon, <1>1, <1>2
  <2>3. /\ got' \in [Reqs -> Reqs \cup {None}] /\ age' \in [Reqs -> 0 .. 2] /\ quit' \in BOOLEAN
        /\ old' \in [Ids -> Reqs \cup {None}]
        /\ recv' \in {"online", "offline", "pending", "await", "drain", "end"}
        /\ failed' \in BOOLEAN /\ partial' \in Message \cup {None}
        /\ peer' \in SUBSET Message /\ wire' \in Seq(Message) /\ open' \in BOOLEAN
    BY Zenon, <1>2 DEF TypeOK, recvVars, netVars
  <2> QED
    BY Zenon, <1>1, <1>6, <1>7, <2>1, <2>2, <2>3 DEF TypeOK
<1>9. Counters'
  BY Zenon, <1>1, <1>2, <1>3 DEF Counters
<1>10. Queued'
  <2>1. \A n \in DOMAIN queue' : out'[queue'[n]] = "queue"
    BY <1>1, <1>6 DEF Queued
  <2>2. \A m, n \in DOMAIN queue' : m + 1 = n + 1 => m = n
    BY <1>1
  <2> QED
    BY <1>1, <2>1, <2>2 DEF Queued
<1>11. \A i \in Ids, q \in Reqs : Mentions(i, q)' => Mentions(i, q) \/ (i = msgId /\ q = r)
  BY <1>2, <1>7 DEF Mentions, InTable, recvVars, netVars
<1>12. \A i \in Ids : ~Mentions(i, r)
  BY Zenon, <1>1 DEF OneId
<1>13. OneId'
  <2> SUFFICES ASSUME NEW i \in Ids, NEW q \in Reqs, Mentions(i, q)'
               PROVE  /\ out'[q] \notin {"new", "queue"}
                      /\ i <= msgId'
                      /\ \A j \in Ids, p \in Reqs : Mentions(j, p)' => (i = j <=> q = p)
    BY Zenon, <1>2 DEF OneId
  <2>1. out'[q] \notin {"new", "queue"}
    BY Zenon, <1>6, <1>11 DEF OneId
  <2>2. i <= msgId'
    BY <1>2, <1>3, <1>11, KeylessAssumption DEF OneId, Ids
  <2>3. ASSUME NEW j \in Ids, NEW p \in Reqs, Mentions(j, p)' PROVE i = j <=> q = p
    <3>1. Mentions(i, q) \/ (i = msgId /\ q = r)
      BY Zenon, <1>11
    <3>2. Mentions(j, p) \/ (j = msgId /\ p = r)
      BY Zenon, <1>11, <2>3
    <3> QED
      BY <3>1, <3>2, <1>4, <1>12 DEF OneId
  <2> QED
    BY Zenon, <2>1, <2>2, <2>3
<1>14. Tabled'
  <2>1. \A i \in Ids : cur'[i] = None \/ old'[i] = None
    BY Zenon, <1>2, <1>5, <1>7 DEF Tabled
  <2>2. \A i \in Ids, q \in Reqs : InTable(i, q)' <=> InTable(i, q) \/ (i = msgId /\ q = r)
    BY <1>1, <1>2, <1>5, <1>7, KeylessAssumption DEF InTable
  <2>3. \A q \in Reqs : out'[q] = "wait" <=> \E i \in Ids : InTable(i, q)'
    BY Zenon, <2>2, <1>3, <1>6 DEF Tabled
  <2> QED
    BY Zenon, <2>1, <2>3 DEF Tabled, InTable
<1>15. Ages'
  <2>1. \A q \in Reqs : out'[q] \in {"new", "queue"} => age'[q] = 0
    BY Zenon, <1>2, <1>6 DEF Ages
  <2>2. \A q \in Reqs : out'[q] = "timeout" => age'[q] = 2
    BY Zenon, <1>2, <1>6 DEF Ages
  <2>3. \A i \in Ids : cur'[i] # None => age'[cur'[i]] = 0
    BY <1>1, <1>2, <1>7 DEF Ages
  <2> QED
    BY Zenon, <1>2, <2>1, <2>2, <2>3 DEF Ages
<1>16. Ends'
  BY Zenon, <1>2 DEF Ends, recvVars
<1>17. OwnResponse'
  BY Zenon, <1>2 DEF OwnResponse
<1> QED
  BY Zenon, <1>8, <1>9, <1>10, <1>13, <1>14, <1>15, <1>16, <1>17

\* The other steps of the send task: a request is written or fails, the task ends.
LEMMA SendSteps == ASSUME Inv, WriteOk \/ WriteErr \/ SendStops PROVE Inv'
<1> USE DEF Inv
<1>1. /\ UNCHANGED <<got, age, queue, quit, count, recvVars, wire, open>>
      /\ send' \in {"select", "end"} /\ writing' = None
  <2>1. CASE WriteOk
    BY Zenon, <2>1 DEF WriteOk, SendEnds
  <2>2. CASE WriteErr
    BY Zenon, <2>2 DEF WriteErr, SendEnds, netVars
  <2>3. CASE SendStops
    BY Zenon, <2>3 DEF SendStops, SendEnds, netVars
  <2> QED
    BY Zenon, <2>1, <2>2, <2>3
<1>2. /\ OnlySettles /\ TablesShrink /\ Ages'
      /\ send' = "end" /\ recv = "end" => \A i \in Ids, r \in Reqs : ~InTable(i, r)'
  <2>1. CASE WriteOk /\ count < MaxRequests
    <3>1. ~(count >= MaxRequests)
      BY <2>1, KeylessAssumption DEF TypeOK
    <3>2. UNCHANGED <<out, age, cur, old>> /\ send' = "select"
      BY Zenon, <1>1, <2>1, <3>1 DEF WriteOk, tables
    <3> QED
      BY Zenon, <3>2, QuietStep
  <2>2. CASE (WriteOk /\ count >= MaxRequests) \/ SendStops
    BY Zenon, <1>1, <2>2, SendReleases DEF WriteOk, SendStops
  <2>3. CASE WriteErr
    <3>1. CASE recv = "end"
      BY Zenon, <1>1, <2>3, <3>1, ReleaseStep DEF WriteErr
    <3>2. CASE recv # "end"
      <4>1. msgId \in Ids
        BY <2>3, KeylessAssumption DEF WriteErr, Counters, TypeOK, Ids
      <4> QED
        BY Zenon, <1>1, <2>3, <3>2, <4>1, FetchStep DEF WriteErr
    <3> QED
      BY Zenon, <3>1, <3>2
  <2> QED
    BY <2>1, <2>2, <2>3, KeylessAssumption DEF TypeOK
<1>3. /\ send' = "select" => send = "write" /\ msgId' = msgId + 1 /\ count < MaxRequests
      /\ msgId' \in 0 .. count
  <2>1. CASE WriteOk
    <3>1. send = "write" /\ msgId' = msgId + 1 /\ (count >= MaxRequests => send' = "end")
      BY Zenon, <2>1 DEF WriteOk, Written, SendEnds
    <3> QED
      BY <3>1, KeylessAssumption DEF Counters, TypeOK
  <2>2. CASE WriteErr \/ SendStops
    <3>1. send' = "end" /\ msgId' = msgId
      BY Zenon, <2>2 DEF WriteErr, SendStops, SendEnds
    <3> QED
      BY Zenon, <3>1 DEF TypeOK
  <2> QED
    BY Zenon, <2>1, <2>2
<1>4. peer' = peer \/ (send = "write" /\ peer' = peer \cup {[id |-> msgId, of |-> writing]})
  BY Zenon DEF WriteOk, WriteErr, SendStops, Written, netVars
<1>5. peer' \in SUBSET Message
  <2>1. send = "write" => [id |-> msgId, of |-> writing] \in Message
    BY KeylessAssumption DEF Counters, TypeOK, Message, Ids
  <2> QED
    BY Zenon, <1>4, <2>1 DEF TypeOK
<1>6. TypeOK'
  <2>1. /\ got' \in [Reqs -> Reqs \cup {None}] /\ age' \in [Reqs -> 0 .. 2] /\ quit' \in BOOLEAN
        /\ queue' \in Seq(Reqs) /\ count' \in 0 .. MaxRequests
        /\ recv' \in {"online", "offline", "pending", "await", "drain", "end"}
        /\ failed' \in BOOLEAN /\ partial' \in Message \cup {None}
        /\ wire' \in Seq(Message) /\ open' \in BOOLEAN
    BY Zenon, <1>1 DEF TypeOK, recvVars
  <2> QED
    BY Zenon, <1>1, <1>2, <1>3, <1>5, <2>1 DEF TypeOK, OnlySettles, TablesShrink
<1>7. \A i \in Ids, r \in Reqs : Mentions(i, r)' => Mentions(i, r)
  <2> SUFFICES ASSUME NEW i \in Ids, NEW r \in Reqs, Mentions(i, r)' PROVE Mentions(i, r)
    OBVIOUS
  <2>1. CASE InTable(i, r)'
    BY Zenon, <1>2, <2>1 DEF TablesShrink, Mentions
  <2>2. CASE [id |-> i, of |-> r] \in peer'
    BY <1>4, <2>2 DEF Mentions
  <2>3. CASE (\E n \in DOMAIN wire' : wire'[n] = [id |-> i, of |-> r]) \/ partial' = [id |-> i, of |-> r]
    BY Zenon, <1>1, <2>3 DEF Mentions, recvVars
  <2> QED
    BY Zenon, <1>1, <2>1, <2>2, <2>3 DEF Mentions
<1>8. OneId' /\ Queued'
  BY Zenon, <1>1, <1>2, <1>3, <1>7, Corresponds
<1>9. Counters' /\ OwnResponse'
  BY Zenon, <1>1, <1>3 DEF Counters, OwnResponse, TypeOK
<1>10. Ends'
  <2>1. ~has_pending => ~has_pending'
    BY Zenon, <1>2, StaysEmpty
  <2>2. send' = "end" /\ recv = "end" => ~has_pending'
    BY Zenon, <1>2, PendingAfter
  <2>3. send # "end"
    BY Zenon DEF WriteOk, WriteErr, SendStops, Written
  <2> QED
    BY Zenon, <1>1, <2>1, <2>2, <2>3 DEF Ends, recvVars
<1> QED
  BY Zenon, <1>2, <1>6, <1>8, <1>9, <1>10 DEF TablesShrink

\* The receive task takes over messages that are on their way and changes the
\* tables as the operations above do.
LEMMA RecvCommon ==
    ASSUME Inv, OnlySettles, TablesShrink, Ages', UNCHANGED <<queue, quit, sendVars, peer, open>>,
           got' \in [Reqs -> Reqs \cup {None}], age' \in [Reqs -> 0 .. 2],
           recv' \in {"online", "offline", "pending", "await", "drain", "end"},
           failed' \in BOOLEAN, partial' \in Message \cup {None}, wire' \in Seq(Message),
           \A n \in DOMAIN wire' : \E k \in DOMAIN wire : wire'[n] = wire[k],
           \/ partial' \in {partial, None}
           \/ \E k \in DOMAIN wire : partial' = wire[k]
    PROVE  TypeOK' /\ Counters' /\ Queued' /\ OneId' /\ Tabled' /\ (~has_pending => ~has_pending')
<1> USE DEF Inv
<1>1. UNCHANGED <<send, writing, count, msgId>>
  BY Zenon DEF sendVars
<1>2. TypeOK'
  BY Zenon, <1>1 DEF TypeOK, OnlySettles, TablesShrink
<1>3. ASSUME NEW i \in Ids, NEW r \in Reqs, Mentions(i, r)' PROVE Mentions(i, r)
  <2>1. [id |-> i, of |-> r] # None
    BY KeylessAssumption DEF Message
  <2>2. CASE InTable(i, r)'
    BY Zenon, <2>2 DEF TablesShrink, Mentions
  <2>3. CASE ~InTable(i, r)'
    BY Zenon, <1>1, <1>3, <2>1, <2>3 DEF Mentions
  <2> QED
    BY Zenon, <2>2, <2>3
<1>4. OneId' /\ Queued'
  BY Zenon, <1>1, <1>3, Corresponds
<1>5. Counters'
  BY Zenon, <1>1 DEF Counters
<1> QED
  BY Zenon, <1>2, <1>4, <1>5, StaysEmpty DEF TablesShrink

\* A response goes to the request that its id belongs to, which is the request
\* it answers, or to nobody.
LEMMA HandleRsp ==
    ASSUME Inv, NEW m \in Message, Mentions(m.id, m.of), handle_rsp(m), UNCHANGED age
    PROVE  /\ OnlySettles /\ TablesShrink /\ Ages'
           /\ got' \in [Reqs -> Reqs \cup {None}] /\ OwnResponse'
<1> USE DEF Inv
<1>1. m.id \in Ids /\ m.of \in Reqs
  BY Zenon DEF Message
<1>2. /\ OnlySettles /\ TablesShrink /\ Ages'
      /\ \A r \in Reqs : r \in Fetched(m.id) <=> InTable(m.id, r)
  BY Zenon, <1>1, FetchStep DEF handle_rsp
<1>3. \A r \in Reqs : InTable(m.id, r) => r = m.of
  <2>1. \A r \in Reqs : InTable(m.id, r) => Mentions(m.id, r)
    BY Zenon DEF Mentions
  <2> QED
    BY <1>1, <2>1 DEF OneId
<1>4. got' = [r \in Reqs |-> IF r \in Fetched(m.id) THEN m.of ELSE got[r]]
  BY Zenon DEF handle_rsp
<1>5. got' \in [Reqs -> Reqs \cup {None}]
  BY Zenon, <1>1, <1>4 DEF TypeOK
<1>6. OwnResponse'
  BY Zenon, <1>2, <1>3, <1>4 DEF OwnResponse
<1> QED
  BY Zenon, <1>2, <1>5, <1>6

\* The first message on its way, and the rest.
LEMMA FirstMessage ==
    ASSUME TypeOK, wire # <<>>
    PROVE  /\ Head(wire) \in Message /\ Tail(wire) \in Seq(Message)
           /\ \E k \in DOMAIN wire : Head(wire) = wire[k]
           /\ \A n \in DOMAIN Tail(wire) : \E k \in DOMAIN wire : Tail(wire)[n] = wire[k]
           /\ Mentions(Head(wire).id, Head(wire).of)
<1>1. wire \in Seq(Message)
  BY Zenon DEF TypeOK
<1>2. Head(wire) = wire[1] /\ 1 \in DOMAIN wire /\ Head(wire) \in Message /\ Tail(wire) \in Seq(Message)
  BY <1>1
<1>3. \A n \in DOMAIN Tail(wire) : n + 1 \in DOMAIN wire /\ Tail(wire)[n] = wire[n + 1]
  BY <1>1
<1>4. Head(wire) = [id |-> Head(wire).id, of |-> Head(wire).of]
  BY Zenon, <1>2 DEF Message
<1> QED
  BY Zenon, <1>2, <1>3, <1>4 DEF Mentions

\* A response arrives, at once or in two parts.
LEMMA ResponseSteps == ASSUME Inv, RecvRsp \/ RecvPartial \/ RecvRest PROVE Inv'
<1> USE DEF Inv
<1>1. CASE RecvRsp
  <2>1. /\ UNCHANGED <<age, queue, quit, sendVars, failed, partial, peer, open>>
        /\ wire # <<>> /\ wire' = Tail(wire) /\ handle_rsp(Head(wire))
        /\ recv' = IF recv = "await" THEN "pending" ELSE recv
    BY Zenon, <1>1 DEF RecvRsp
  <2>2. OnlySettles /\ TablesShrink /\ Ages' /\ got' \in [Reqs -> Reqs \cup {None}] /\ OwnResponse'
    BY Zenon, <2>1, FirstMessage, HandleRsp
  <2>3. /\ age' \in [Reqs -> 0 .. 2] /\ failed' \in BOOLEAN /\ partial' \in Message \cup {None}
        /\ recv' \in {"online", "offline", "pending", "await", "drain", "end"}
    BY Zenon, <2>1 DEF TypeOK
  <2>4. TypeOK' /\ Counters' /\ Queued' /\ OneId' /\ Tabled' /\ (~has_pending => ~has_pending')
    BY Zenon, <2>1, <2>2, <2>3, FirstMessage, RecvCommon
  <2>5. Ends'
    BY Zenon, <2>1, <2>4 DEF Ends, sendVars
  <2> QED
    BY Zenon, <2>2, <2>4, <2>5
<1>2. CASE RecvPartial
  <2>1. /\ UNCHANGED <<out, got, age, queue, quit, sendVars, cur, old, recv, failed, peer, open>>
        /\ wire # <<>> /\ wire' = Tail(wire) /\ partial' = Head(wire)
    BY Zenon, <1>2 DEF RecvPartial, tables
  <2>2. OnlySettles /\ TablesShrink /\ Ages'
    BY Zenon, <2>1, QuietStep
  <2>3. /\ age' \in [Reqs -> 0 .. 2] /\ failed' \in BOOLEAN /\ got' \in [Reqs -> Reqs \cup {None}]
        /\ recv' \in {"online", "offline", "pending", "await", "drain", "end"}
    BY Zenon, <2>1 DEF TypeOK
  <2>4. TypeOK' /\ Counters' /\ Queued' /\ OneId' /\ Tabled' /\ (~has_pending => ~has_pending')
    BY Zenon, <2>1, <2>2, <2>3, FirstMessage, RecvCommon
  <2>5. Ends' /\ OwnResponse'
    BY Zenon, <2>1, <2>4 DEF Ends, sendVars, OwnResponse
  <2> QED
    BY Zenon, <2>2, <2>4, <2>5
<1>3. CASE RecvRest
  <2>1. /\ UNCHANGED <<age, queue, quit, sendVars, recv, failed, peer, wire, open>>
        /\ partial # None /\ partial' = None /\ handle_rsp(partial)
    BY Zenon, <1>3 DEF RecvRest, netVars
  <2>2. partial \in Message
    BY Zenon, <2>1 DEF TypeOK
  <2>3. Mentions(partial.id, partial.of)
    BY Zenon, <2>2 DEF Message, Mentions
  <2>4. OnlySettles /\ TablesShrink /\ Ages' /\ got' \in [Reqs -> Reqs \cup {None}] /\ OwnResponse'
    BY Zenon, <2>1, <2>2, <2>3, HandleRsp
  <2>5. /\ age' \in [Reqs -> 0 .. 2] /\ failed' \in BOOLEAN /\ wire' \in Seq(Message)
        /\ recv' \in {"online", "offline", "pending", "await", "drain", "end"}
    BY Zenon, <2>1 DEF TypeOK
  <2>6. TypeOK' /\ Counters' /\ Queued' /\ OneId' /\ Tabled' /\ (~has_pending => ~has_pending')
    BY Zenon, <2>1, <2>4, <2>5, RecvCommon
  <2>7. Ends'
    BY Zenon, <2>1, <2>6 DEF Ends, sendVars
  <2> QED
    BY Zenon, <2>4, <2>6, <2>7
<1> QED
  BY Zenon, <1>1, <1>2, <1>3

\* The receive task goes from one loop to another, fails, ticks or ends.
LEMMA LoopSteps ==
    ASSUME Inv, \/ RecvFails \/ RecvQuit \/ SendGone \/ RecvTick
                \/ OfflineDone \/ PendingCheck \/ PendingTimeout \/ Drain
    PROVE  Inv'
<1> USE DEF Inv
<1> DEFINE moves == \/ RecvFails \/ RecvQuit \/ SendGone
                    \/ OfflineDone \/ PendingCheck \/ PendingTimeout
<1>1. UNCHANGED <<got, queue, quit, sendVars, peer, wire, open>> /\ partial' \in {partial, None}
  BY Zenon DEF RecvFails, RecvQuit, SendGone, RecvTick, OfflineDone, PendingCheck, PendingTimeout, Drain,
         Goto, netVars, recvVars
<1>2. /\ recv' \in {"online", "offline", "pending", "await", "drain", "end"}
      /\ moves => UNCHANGED <<out, age, cur, old>>
  BY Zenon DEF RecvFails, RecvQuit, SendGone, RecvTick, OfflineDone, PendingCheck, PendingTimeout, Drain,
         Goto, recvVars, tables, TypeOK
<1>3. failed' \in BOOLEAN
  <2>1. CASE RecvFails
    BY Zenon, <2>1 DEF RecvFails
  <2>2. CASE ~RecvFails
    <3>1. failed' = failed
      BY Zenon, <2>2 DEF RecvQuit, SendGone, RecvTick, OfflineDone, PendingCheck, PendingTimeout, Drain,
                  Goto, recvVars
    <3> QED
      BY Zenon, <3>1 DEF TypeOK
  <2> QED
    BY Zenon, <2>1, <2>2
<1>4. /\ OnlySettles /\ TablesShrink /\ Ages' /\ age' \in [Reqs -> 0 .. 2]
      /\ Drain => \A i \in Ids, r \in Reqs : ~InTable(i, r)'
  <2>1. CASE moves
    <3>1. ~Drain
      BY Zenon, <2>1 DEF Drain, RecvFails, RecvQuit, SendGone, OfflineDone, PendingCheck, PendingTimeout,
                  Selecting, TypeOK, Goto
    <3> QED
      BY Zenon, <1>2, <2>1, <3>1, QuietStep DEF TypeOK
  <2>2. CASE RecvTick
    BY Zenon, <2>2, RotateStep DEF RecvTick, Selecting, Drain
  <2>3. CASE Drain
    BY Zenon, <2>3, ReleaseStep DEF Drain, TypeOK
  <2> QED
    BY Zenon, <2>1, <2>2, <2>3
<1>5. /\ got' \in [Reqs -> Reqs \cup {None}] /\ wire' \in Seq(Message)
      /\ partial' \in Message \cup {None}
      /\ \A n \in DOMAIN wire' : \E k \in DOMAIN wire : wire'[n] = wire[k]
  BY Zenon, <1>1 DEF TypeOK
<1>6. TypeOK' /\ Counters' /\ Queued' /\ OneId' /\ Tabled' /\ (~has_pending => ~has_pending')
  BY Zenon, <1>1, <1>2, <1>3, <1>4, <1>5, RecvCommon
<1>7. OwnResponse'
  BY Zenon, <1>1 DEF OwnResponse
<1>8. Ends'
  <2> USE <1>1, <1>6 DEF Ends, sendVars
  <2>1. CASE RecvFails
    BY Zenon, <2>1 DEF RecvFails
  <2>2. CASE RecvQuit \/ SendGone
    BY Zenon, <2>2 DEF RecvQuit, SendGone, Goto
  <2>3. CASE OfflineDone \/ PendingCheck \/ PendingTimeout
    BY Zenon, <2>3 DEF OfflineDone, PendingCheck, PendingTimeout, Goto
  <2>4. CASE RecvTick
    BY Zenon, <2>4 DEF RecvTick, recvVars
  <2>5. CASE Drain
    <3>1. ~has_pending' /\ recv' = "end"
      BY Zenon, <2>5, <1>4, PendingAfter DEF Drain
    <3> QED
      BY Zenon, <3>1
  <2> QED
    BY Zenon, <2>1, <2>2, <2>3, <2>4, <2>5
<1> QED
  BY Zenon, <1>4, <1>6, <1>7, <1>8

-----------------------------------------------------------------------------
(* The theorems *)

\* Inv holds in every reachable state of a connection.
THEOREM AlwaysInv == Spec => []Inv
<1>1. Init => Inv
  <2> SUFFICES ASSUME Init PROVE Inv
    OBVIOUS
  <2>1. TypeOK
    <3>1. 0 \in 0 .. MaxRequests /\ 0 \in 0 .. 0 /\ 0 \in 0 .. 2
      BY KeylessAssumption
    <3>2. /\ out \in [Reqs -> {"new", "queue", "wait"} \cup Settled]
          /\ got \in [Reqs -> Reqs \cup {None}] /\ age \in [Reqs -> 0 .. 2]
          /\ cur \in [Ids -> Reqs \cup {None}] /\ old \in [Ids -> Reqs \cup {None}]
      BY Zenon, <3>1 DEF Init
    <3>3. quit \in BOOLEAN /\ failed \in BOOLEAN /\ open \in BOOLEAN
      BY Zenon DEF Init
    <3> QED
      BY <3>1, <3>2, <3>3 DEF Init, TypeOK
  <2>2. \A i \in Ids, r \in Reqs : ~Mentions(i, r)
    <3>1. ASSUME NEW i \in Ids, NEW r \in Reqs PROVE [id |-> i, of |-> r] # None /\ r # None
      BY KeylessAssumption DEF Message
    <3>2. /\ \A i \in Ids : cur[i] = None /\ old[i] = None
          /\ peer = {} /\ DOMAIN wire = {} /\ partial = None /\ send # "write"
      BY DEF Init
    <3> QED
      BY Zenon, <3>1, <3>2 DEF Mentions, InTable
  <2>3. \A i \in Ids, r \in Reqs : ~InTable(i, r)
    BY Zenon, <2>2 DEF Mentions
  <2>4. Counters /\ Queued /\ OneId
    BY <2>2, KeylessAssumption DEF Init, Counters, Queued, OneId
  <2>5. Tabled /\ Ages /\ OwnResponse
    BY Zenon, <2>3 DEF Init, Tabled, Ages, OwnResponse
  <2>6. Ends
    BY Zenon DEF Init, Ends
  <2> QED
    BY Zenon, <2>1, <2>4, <2>5, <2>6 DEF Inv
<1>2. Inv /\ [Next]_vars => Inv'
  <2> SUFFICES ASSUME Inv, [Next]_vars PROVE Inv'
    OBVIOUS
  <2>1. CASE UNCHANGED vars
    <3> USE <2>1 DEF vars, Inv
    <3>1. TypeOK' /\ Counters'
      BY DEF TypeOK, Counters
    <3>2. Queued' /\ OwnResponse'
      BY Zenon DEF Queued, OwnResponse
    <3>3. Ages' /\ Ends'
      BY Zenon DEF Ages, Ends, has_pending
    <3>4. \A i \in Ids, r \in Reqs : (Mentions(i, r)' <=> Mentions(i, r)) /\ (InTable(i, r)' <=> InTable(i, r))
      BY DEF Mentions, InTable
    <3>5. OneId'
      BY <3>4 DEF OneId
    <3>6. Tabled'
      BY Zenon, <3>4 DEF Tabled, InTable
    <3> QED
      BY Zenon, <3>1, <3>2, <3>3, <3>5, <3>6
  <2> QED
    BY Zenon, <2>1, OutsideSteps, TakeStep, SendSteps, ResponseSteps, LoopSteps DEF Next, SendStep, RecvStep
<1> QED
  BY <1>1, <1>2, PTL DEF Spec

\* For any number of requests: a client receives the answer to its own request,
\* however the answers are ordered and whatever has timed out (handle_rsp).
THEOREM AnswersAreOwn == Spec => []OwnResponse
<1>1. Inv => OwnResponse
  BY Zenon DEF Inv
<1> QED
  BY <1>1, AlwaysInv, PTL

\* For any number of requests: a waiting request is in one table under one id,
\* and one of the two tasks is left to settle it (into_running, drain).
THEOREM WaitingIsAlwaysHeld == Spec => []WaitingIsHeld
<1>1. Inv => WaitingIsHeld
  <2> SUFFICES ASSUME Inv, NEW r \in Reqs, out[r] = "wait"
               PROVE  /\ \E i \in Ids : /\ (cur[i] = r) # (old[i] = r)
                                        /\ \A j \in Ids \ {i} : cur[j] # r /\ old[j] # r
                      /\ send # "end" \/ recv # "end"
    BY Zenon DEF WaitingIsHeld
  <2> USE DEF Inv
  <2>1. PICK i \in Ids : InTable(i, r)
    BY Zenon DEF Tabled
  <2>2. (cur[i] = r) # (old[i] = r)
    BY <2>1, KeylessAssumption DEF InTable, Tabled
  <2>3. \A j \in Ids : InTable(j, r) => Mentions(j, r)
    BY Zenon DEF Mentions
  <2>4. \A j \in Ids \ {i} : ~InTable(j, r)
    BY Zenon, <2>1, <2>3 DEF OneId
  <2>5. send # "end" \/ recv # "end"
    BY Zenon, <2>1, PendingMeans DEF Ends
  <2> QED
    BY Zenon, <2>2, <2>4, <2>5 DEF InTable
<1> QED
  BY <1>1, AlwaysInv, PTL

\* For any number of requests: unless it is told to quit or its stream fails, a
\* connection that its send task closes cuts no request off (run_offline).
THEOREM AlwaysClosesGracefully == Spec => []ClosesGracefully
<1>1. Inv => ClosesGracefully
  BY Zenon DEF Inv, Ends, ClosesGracefully
<1> QED
  BY <1>1, AlwaysInv, PTL

\* For any number of requests: one that times out has seen two ticks, not the
\* first one only (rotate_timeout).  Nothing is said of the time between them.
THEOREM TimeoutIsNeverEarly == Spec => []TimeoutNotEarly
<1>1. Inv => TimeoutNotEarly
  BY Zenon DEF Inv, Ages, TimeoutNotEarly
<1> QED
  BY <1>1, AlwaysInv, PTL

=============================================================================
