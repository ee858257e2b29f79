------------------------- MODULE LdapAuthPoolProofs -------------------------
(***************************************************************************)
(* Theorems about LdapAuthPool, for any number of calls, connections and   *)
(* notifications, any queue and any limits of the pool.                    *)
(***************************************************************************)
EXTENDS LdapAuthPool, TLAPS

-----------------------------------------------------------------------------
(* The inductive invariants. *)

(* The part of the type invariant that the proofs need. *)
Shape ==
    /\ caller \in [Reqs -> {"new", "send", "wait", "ok", "mismatch", "error", "timeout"}]
    /\ reply \in [Reqs -> {None, "some", "none", "dropped"}]
    /\ retry \in [Reqs -> BOOLEAN] /\ binds \in [Reqs -> Nat]
    /\ queue \in Seq(Reqs)
    /\ task \in [Conns -> Places] /\ pending \in [Conns -> Reqs \cup {None}]
    /\ msgId \in [Conns -> 1..MaxId] /\ wire \in [Conns -> Seq(Message)]
    /\ notes \in 0..MaxNotes

(* A request is in one place at a time and in none before it is sent, and   *)
(* how often it was given to a connection fits the place.                   *)
Queued(r) == \E i \in DOMAIN queue : queue[i] = r
NoDup(r) == \A i, j \in DOMAIN queue : queue[i] = r /\ queue[j] = r => i = j
Track(r) ==
    /\ NoDup(r)
    /\ \A c, d \in Conns : pending[c] = r /\ pending[d] = r => c = d
    /\ \A c \in Conns : pending[c] = r => ~Queued(r) /\ caller[r] \notin {"new", "send"}
    /\ Queued(r) => caller[r] \notin {"new", "send"}
    /\ binds[r] <= 2
    /\ Queued(r) \/ caller[r] \in {"new", "send"} => binds[r] = 0 /\ retry[r]
    /\ \A c \in Conns : pending[c] = r =>
         /\ task[c] = "connect" => ~retry[r]
         /\ task[c] = "connect" \/ retry[r] => binds[r] <= 1

(* A task that has no connection has no request; one that waits for an      *)
(* answer has one.                                                          *)
Fits(place, r) == (place = "none" => r = None) /\ (place = "await" => r # None)
Tracks == (\A r \in Reqs : Track(r)) /\ (\A c \in Conns : Fits(task[c], pending[c]))

(* How many binds before the last one the bind with message id j was.       *)
Age(last, j) == IF j <= last THEN last - j ELSE last - j + MaxId

(* The messages that may be on their way, and how far behind an answer may  *)
(* be: each notification puts the answers one bind further behind.          *)
Slack(c) == notes + (IF task[c] = "await" THEN 1 ELSE 0)
Behind(s, last, n) ==
    Len(s) <= n /\ \A i \in DOMAIN s : s[i].id # 0 => i + Age(last, s[i].id) <= n

Verdict(r) == IF CredOf[r] \in Valid THEN "ok" ELSE "refused"

(* The answers with the last message id are to the request that waits.      *)
Matched(s, last, r) ==
    \A i \in DOMAIN s : s[i].id = last => s[i].body \in {"garbled", Verdict(r)}

WireFits(c) ==
    /\ task[c] \in {"none", "connect"} => wire[c] = <<>>
    /\ Behind(wire[c], msgId[c], Slack(c))
    /\ task[c] = "await" => Matched(wire[c], msgId[c], pending[c])
WireInv == \A c \in Conns : WireFits(c)

(* What has been taken for a success is one. *)
Verified ==
    /\ \A r \in Reqs : reply[r] # None /\ reply[r] = "some" => CredOf[r] \in Valid
    /\ cache \subseteq Valid
    /\ SuccessIsVerified

(* The pool task keeps its target between the limits, as long as the        *)
(* arithmetic of check does not wrap.                                       *)
Limits == expected \in MinIdle..MaxIdle /\ IdleWithinMax

-----------------------------------------------------------------------------
(* The steps of the tasks, by what they do. *)

(* What the steps of a connection task come down to: the task ends, its     *)
(* request moves to a new connection, a message is passed over, or the      *)
(* answer to the request is taken.                                          *)
Ends(c) ==
    /\ \E how \in Endings, answer \in {"none", "dropped"} : EndTask(c, how, answer)
    /\ UNCHANGED <<queue, notes>>
Moves(c) ==
    /\ task[c] \in {"loop", "await"} /\ pending[c] # None /\ retry[pending[c]] /\ StreamEnds(c)
    /\ UNCHANGED <<queue, notes>>
Passes(c) ==
    /\ task[c] \in {"loop", "await"} /\ wire[c] # <<>> /\ NextRound(c)
    /\ UNCHANGED <<queue, notes>>
Answered(c) ==
    /\ task[c] = "await" /\ wire[c] # <<>> /\ Head(wire[c]).id = msgId[c]
    /\ Head(wire[c]).body # "garbled" /\ handle_response(c, Head(wire[c]).body)
    /\ UNCHANGED <<queue, notes>>

(* Every step on a connection is one of these, of sending a bind, being     *)
(* connected, taking a request and getting a notification (run,             *)
(* run_with_stream).                                                        *)
LEMMA Kinds ==
    ASSUME NEW c \in Conns, Connect(c) \/ Online(c) \/ ServerNotifies(c)
    PROVE  /\ task[c] # "none" /\ UNCHANGED <<caller, cache, expected>>
           /\ \/ Ends(c) \/ Moves(c) \/ Passes(c) \/ Answered(c)
              \/ SendBind(c) \/ ConnectOk(c) \/ IdleRequest(c) \/ ServerNotifies(c)
<1> USE DEF taskOnly, callVars, poolVars, Endings
<1>1. StreamEnds(c) /\ task[c] \in {"loop", "await"} /\ UNCHANGED <<queue, notes>> => Ends(c) \/ Moves(c)
  BY Zenon DEF StreamEnds, Ends, Moves
<1>2. RecvAwaited(c) => Ends(c) \/ Moves(c) \/ Passes(c) \/ Answered(c)
  BY Zenon, <1>1 DEF RecvAwaited, handle_response, Ends, Passes, Answered
<1>3. IdleMessage(c) => Ends(c) \/ Moves(c) \/ Passes(c)
  BY Zenon, <1>1 DEF IdleMessage, Passes
<1>4. SendBindError(c) \/ RecvError(c) \/ IdleNoSender(c) \/ IdleEnds(c) => Ends(c) \/ Moves(c)
  BY Zenon, <1>1 DEF SendBindError, RecvError, IdleNoSender, IdleEnds
<1>5. ConnectFail(c) \/ ResponseTimeout(c) => Ends(c)
  BY Zenon DEF ConnectFail, ResponseTimeout, Ends
<1>6. task[c] # "none" /\ UNCHANGED <<caller, cache, expected>>
  BY Zenon DEF Connect, ConnectOk, ConnectFail, Online, SendBind, SendBindError, RecvAwaited, RecvError,
         ResponseTimeout, IdleRequest, IdleNoSender, IdleEnds, IdleMessage, ServerNotifies
<1> QED
  BY Zenon, <1>2, <1>3, <1>4, <1>5, <1>6 DEF Connect, Online

(* The other steps send a request or open connections, at most.             *)
Sends(r) ==
    /\ caller[r] = "send" /\ queue' = Append(queue, r)
    /\ caller' = [caller EXCEPT ![r] = "wait"] /\ UNCHANGED reply
Opens == \A c \in Conns : task'[c] # task[c] => task[c] = "none" /\ task'[c] = "connect"
Outside ==
    \/ \E r \in Reqs : CallStep(r)
    \/ \E d \in Creds : CacheExpire(d)
    \/ DropHandle \/ PoolCommand \/ check
    \/ \E how \in Endings : ReportEnd(how)

(* No call is taken back, and only its own request is sent                  *)
(* (check_username_password, into_running).                                 *)
LEMMA OutsideKinds ==
    ASSUME Shape, Outside
    PROVE  /\ UNCHANGED <<retry, pending, msgId, wire, notes, binds>>
           /\ task' \in [Conns -> Places] /\ Opens
           /\ \A r \in Reqs : caller'[r] \in {"new", "send"} => caller[r] \in {"new", "send"}
           /\ UNCHANGED queue \/ \E r \in Reqs : Sends(r)
<1>1. ASSUME NEW r \in Reqs, CallStep(r)
      PROVE  /\ UNCHANGED <<retry, pending, msgId, wire, notes, binds, task>>
             /\ UNCHANGED queue \/ Sends(r)
             /\ \A q \in Reqs : caller'[q] \in {"new", "send"} => caller[q] \in {"new", "send"}
  <2>1. CASE Call(r)
    BY Zenon, <2>1 DEF Shape, Call, connVars
  <2>2. CASE Enqueue(r)
    BY Zenon, <2>2 DEF Shape, Enqueue, connVars, Sends
  <2>3. CASE Returned(r)
    <3>1. reply[r] \in {"some", "none", "dropped"}
      BY Zenon, <2>3 DEF Shape, Returned
    <3> QED BY <2>3, <3>1 DEF Shape, Returned, connVars
  <2>4. CASE WaitTimeout(r)
    BY Zenon, <2>4 DEF Shape, WaitTimeout, connVars
  <2> QED BY <1>1, <2>1, <2>2, <2>3, <2>4 DEF CallStep
<1>2. ASSUME PoolCommand \/ check
      PROVE  UNCHANGED <<caller, retry, pending, msgId, wire, notes, binds, queue>> /\ Opens /\ task' \in [Conns -> Places]
  <2>1. \E n : create_connections(n)
    BY Zenon, <1>2 DEF PoolCommand, CmdExit, CmdConnectionClosed, CmdNeedMoreConnection, check, NoMore
  <2>2. Opens /\ task' \in [Conns -> Places]
    BY <2>1 DEF Shape, Places, Opens, create_connections, FreeSlots
  <2> QED BY <1>2, <2>2 DEF PoolCommand, check, callVars, connVars
<1>3. ASSUME DropHandle \/ (\E d \in Creds : CacheExpire(d)) \/ \E how \in Endings : ReportEnd(how)
      PROVE  UNCHANGED <<caller, retry, pending, msgId, wire, notes, binds, queue, task>>
  BY Zenon, <1>3 DEF DropHandle, CacheExpire, ReportEnd, callVars, connVars
<1> QED
  BY Zenon, <1>1, <1>2, <1>3 DEF Outside, Opens, Shape

-----------------------------------------------------------------------------
(* Types. *)

(* The fields of a message, and the answers of the server.                  *)
LEMMA MessageId == \A m \in Message : m.id \in 0..MaxId /\ (m.id # 0 => m.id \in 1..MaxId)
  BY PoolConstAssumption DEF Message

(* What the server may answer to a bind (send_simple_bind_request).         *)
LEMMA AnswersType ==
    ASSUME Shape, NEW c \in Conns, NEW a \in Answers(c, pending[c])
    PROVE  /\ NextId(c) \in 1..MaxId
           /\ a = <<>> \/ \E e \in Message : e.id = NextId(c) /\ e.body \in {"garbled", Verdict(pending[c])} /\ a = <<e>>
<1>1. NextId(c) \in 1..MaxId
  BY PoolConstAssumption DEF Shape, NextId
<1>2. \A b \in {"ok", "refused", "garbled"} : [id |-> NextId(c), body |-> b] \in Message
  BY Zenon, <1>1 DEF Message
<1>3. a = <<>> \/ \E b \in {"garbled", Verdict(pending[c])} : a = <<[id |-> NextId(c), body |-> b]>>
  BY Zenon DEF Answers, Verdict
<1> QED
  BY Zenon, <1>1, <1>2, <1>3 DEF Verdict

(* The steps on a connection keep the types of what they change (run).      *)
LEMMA ConnectionShape ==
    ASSUME Shape, NEW c \in Conns, Connect(c) \/ Online(c) \/ ServerNotifies(c)
    PROVE  Shape'
<1> DEFINE Answer == {None, "some", "none", "dropped"}
<1>1. ASSUME NEW r, NEW answer \in Answer, Settle(r, answer)
      PROVE  reply' \in [Reqs -> Answer] /\ retry' \in [Reqs -> BOOLEAN] /\ binds' \in [Reqs -> Nat]
  <2>1. reply' \in [Reqs -> Answer] /\ binds' \in [Reqs -> Nat]
    BY <1>1, Zenon DEF Shape, Settle
  <2>2. retry' \in [Reqs -> BOOLEAN]
    BY <1>1, Zenon DEF Shape, Settle
  <2> QED BY <2>1, <2>2
<1>0. <<>> \in Seq(Message) /\ (wire[c] # <<>> => Tail(wire[c]) \in Seq(Message))
  BY DEF Shape
<1>2. ASSUME NEW s \in Seq(Message), wire' = [wire EXCEPT ![c] = s],
             NEW p \in Places, task' = [task EXCEPT ![c] = p], pending' \in {pending, [pending EXCEPT ![c] = None]},
             msgId' \in {msgId, [msgId EXCEPT ![c] = MaxId]}
      PROVE  /\ task' \in [Conns -> Places] /\ pending' \in [Conns -> Reqs \cup {None}]
             /\ msgId' \in [Conns -> 1..MaxId] /\ wire' \in [Conns -> Seq(Message)]
  <2>1. MaxId \in 1..MaxId
    BY PoolConstAssumption
  <2> QED BY <1>2, <2>1, Zenon DEF Shape
<1>3. CASE Ends(c)
  <2>1. reply' \in [Reqs -> Answer] /\ retry' \in [Reqs -> BOOLEAN] /\ binds' \in [Reqs -> Nat]
    BY <1>1, <1>3 DEF Ends, EndTask, Shape
  <2> QED BY <1>0, <1>2, <1>3, <2>1, Kinds, Zenon DEF Ends, EndTask, Shape, Places
<1>4. CASE Moves(c)
  <2>1. retry' \in [Reqs -> BOOLEAN]
    BY <1>4, Zenon DEF Shape, Moves, StreamEnds
  <2> QED BY <1>0, <1>2, <1>4, <2>1, Kinds, Zenon DEF Moves, StreamEnds, Shape, Places
<1>5. CASE Passes(c)
  BY <1>0, <1>2, <1>5, Kinds, Zenon DEF Passes, NextRound, Shape, Places
<1>6. CASE Answered(c)
  BY <1>0, <1>1, <1>2, <1>6, Kinds, Zenon DEF Answered, handle_response, Shape, Places
<1>7. CASE SendBind(c)
  <2> PICK a \in Answers(c, pending[c]) : wire' = [wire EXCEPT ![c] = wire[c] \o a]
    BY <1>7, Zenon DEF SendBind, Shape
  <2>1. wire[c] \o a \in Seq(Message) /\ NextId(c) \in 1..MaxId
    <3>1. wire[c] \in Seq(Message)
      BY Zenon DEF Shape
    <3>2. \A e \in Message : <<e>> \in Seq(Message)
      OBVIOUS
    <3>3. a \in Seq(Message) /\ NextId(c) \in 1..MaxId
      BY <1>0, <3>2, AnswersType, Zenon
    <3> QED BY <3>1, <3>3
  <2>2. wire' \in [Conns -> Seq(Message)] /\ msgId' \in [Conns -> 1..MaxId] /\ task' \in [Conns -> Places]
    BY Zenon, <1>7, <2>1 DEF SendBind, Shape, Places
  <2> QED BY <1>7, <2>2, Kinds, Zenon DEF SendBind, Shape, taskOnly
<1>8. CASE ConnectOk(c)
  <2>1. task' \in [Conns -> Places] /\ binds' \in [Reqs -> Nat]
    BY <1>8 DEF ConnectOk, Shape, Places
  <2> QED BY <1>8, <2>1, Kinds, Zenon DEF ConnectOk, Shape, taskOnly
<1>9. CASE IdleRequest(c)
  <2>1. Head(queue) \in Reqs /\ Tail(queue) \in Seq(Reqs)
    BY <1>9 DEF Shape, IdleRequest
  <2>2. pending' \in [Conns -> Reqs \cup {None}] /\ binds' \in [Reqs -> Nat]
    BY <1>9, <2>1 DEF Shape, IdleRequest
  <2>3. queue' = Tail(queue) /\ UNCHANGED <<caller, reply, retry, task, msgId, wire, notes>>
    BY <1>9, Zenon DEF IdleRequest, callVars
  <2> QED BY <2>1, <2>2, <2>3, Zenon DEF Shape
<1>10. CASE ServerNotifies(c)
  <2> PICK n \in Notes : wire' = [wire EXCEPT ![c] = Append(wire[c], [id |-> 0, body |-> n])]
    BY <1>10, Zenon DEF ServerNotifies
  <2>1. [id |-> 0, body |-> n] \in Message
    BY Zenon DEF Message
  <2>2. wire' \in [Conns -> Seq(Message)]
    BY <2>1 DEF Shape
  <2>3. notes' \in 0..MaxNotes
    BY <1>10, PoolConstAssumption DEF Shape, ServerNotifies
  <2> QED BY <1>10, <2>2, <2>3 DEF Shape, ServerNotifies, taskOnly, callVars
<1> QED
  BY Zenon, <1>3, <1>4, <1>5, <1>6, <1>7, <1>8, <1>9, <1>10, Kinds

(* So do the others (check_username_password, into_running).                *)
LEMMA OutsideShape ==
    ASSUME Shape, Outside
    PROVE  Shape'
<1> DEFINE State == {"new", "send", "wait", "ok", "mismatch", "error", "timeout"}
           Answer == {None, "some", "none", "dropped"}
<1>1. UNCHANGED <<retry, pending, msgId, wire, notes, binds>> /\ task' \in [Conns -> Places]
  BY Zenon, OutsideKinds
<1>2. queue' \in Seq(Reqs)
  <2>1. queue \in Seq(Reqs)
    BY Zenon DEF Shape
  <2>2. UNCHANGED queue \/ \E r \in Reqs : queue' = Append(queue, r)
    BY Zenon, OutsideKinds DEF Sends
  <2> QED BY <2>1, <2>2
<1>3. caller' \in [Reqs -> State] /\ reply' \in [Reqs -> Answer]
  <2>1. ASSUME NEW r \in Reqs, CallStep(r)
        PROVE  caller' \in [Reqs -> State] /\ reply' \in [Reqs -> Answer]
    <3>1. /\ UNCHANGED reply \/ \E a \in Answer : reply' = [reply EXCEPT ![r] = a]
          /\ \E x \in State : caller' = [caller EXCEPT ![r] = x]
      <4>1. CASE Call(r) \/ Enqueue(r) \/ WaitTimeout(r)
        BY Zenon, <4>1 DEF Call, Enqueue, WaitTimeout
      <4>2. CASE Returned(r)
        <5>1. reply[r] \in {"some", "none", "dropped"}
          BY Zenon, <4>2 DEF Shape, Returned
        <5> QED BY <4>2, <5>1, Zenon DEF Returned
      <4> QED BY <2>1, <4>1, <4>2 DEF CallStep
    <3>2. caller' \in [Reqs -> State]
      BY Zenon, <3>1 DEF Shape
    <3>3. reply' \in [Reqs -> Answer]
      BY <3>1, Zenon DEF Shape
    <3> QED BY <3>2, <3>3
  <2>2. ASSUME ~\E r \in Reqs : CallStep(r) PROVE UNCHANGED <<caller, reply>>
    BY Zenon, <2>2 DEF Outside, CacheExpire, DropHandle, PoolCommand, check, ReportEnd, callVars
  <2> QED BY <2>1, <2>2 DEF Shape
<1> QED
  BY Zenon, <1>1, <1>2, <1>3 DEF Shape

(* Each step is of one of the two sorts.                                    *)
LEMMA Steps ==
    ASSUME [Next]_vars
    PROVE  \/ UNCHANGED vars \/ Outside
           \/ \E c \in Conns : Connect(c) \/ Online(c) \/ ServerNotifies(c)
  BY Zenon DEF Next, Outside

(* Every step keeps the types.                                              *)
LEMMA ShapeStep == Shape /\ [Next]_vars => Shape'
<1> SUFFICES ASSUME Shape, [Next]_vars PROVE Shape'
  OBVIOUS
<1>1. CASE UNCHANGED vars
  BY Zenon, <1>1 DEF Shape, vars
<1> QED
  BY Zenon, <1>1, Steps, OutsideShape, ConnectionShape

(* And they hold at the start.                                              *)
LEMMA ShapeInit == Init => Shape
<1> SUFFICES ASSUME Init PROVE Shape
  OBVIOUS
<1>1. retry \in [Reqs -> BOOLEAN]
  BY Zenon DEF Init
<1>2. MaxId \in 1..MaxId /\ 0 \in 0..MaxNotes
  BY PoolConstAssumption
<1> QED
  BY <1>1, <1>2 DEF Init, Shape, Places

-----------------------------------------------------------------------------
(* Where requests are, and how often they were tried. *)

(* The absent value is no request.                                          *)
LEMMA NoneNoRequest == None \notin Reqs
  BY Zenon, PoolConstAssumption

(* A request that a step does not touch keeps its track.                    *)
LEMMA TrackFrame ==
    ASSUME NEW r \in Reqs, Track(r), binds'[r] = binds[r], retry'[r] = retry[r],
           caller'[r] \in {"new", "send"} => caller[r] \in {"new", "send"},
           Queued(r)' => Queued(r), NoDup(r)',
           \A d \in Conns : pending'[d] = r => pending[d] = r /\ (task'[d] = "connect" => task[d] = "connect")
    PROVE  Track(r)'
  BY Zenon DEF Track

(* The track of a request that at most one connection has.                  *)
LEMMA TrackHeld ==
    ASSUME NEW r \in Reqs, NEW c \in Conns, NoDup(r)', ~Queued(r)', caller'[r] \notin {"new", "send"},
           \A d \in Conns : pending'[d] = r => d = c, binds'[r] <= 2,
           pending'[c] = r => /\ task'[c] = "connect" => ~retry'[r]
                              /\ task'[c] = "connect" \/ retry'[r] => binds'[r] <= 1
    PROVE  Track(r)'
  BY Zenon DEF Track

(* A step on a connection that takes no request touches at most the one     *)
(* that the connection has.                                                 *)
LEMMA OthersTracked ==
    ASSUME Shape, Tracks, NEW c \in Conns, UNCHANGED <<caller, queue>>,
           \A d \in Conns \ {c} : pending'[d] = pending[d] /\ task'[d] = task[d],
           pending'[c] \in {pending[c], None}, Fits(task'[c], pending'[c]),
           \A r \in Reqs \ {pending[c]} : binds'[r] = binds[r] /\ retry'[r] = retry[r],
           \A r \in Reqs : r = pending[c] => Track(r)'
    PROVE  Tracks'
<1>1. ASSUME NEW r \in Reqs PROVE Track(r)'
  <2>1. CASE r # pending[c]
    <3>1. NoDup(r)' /\ (Queued(r)' => Queued(r)) /\ Track(r)
      BY DEF Tracks, Track, NoDup, Queued
    <3>2. \A d \in Conns : pending'[d] = r => pending[d] = r /\ (task'[d] = "connect" => task[d] = "connect")
      BY <2>1, NoneNoRequest
    <3> QED BY <2>1, <3>1, <3>2, TrackFrame
  <2> QED BY <2>1
<1>2. \A d \in Conns : Fits(task'[d], pending'[d])
  BY DEF Tracks, Fits
<1> QED
  BY Zenon, <1>1, <1>2 DEF Tracks

(* The first request leaves the queue (IdleRequest).                        *)
LEMMA QueueTail ==
    ASSUME queue \in Seq(Reqs), queue # <<>>, queue' = Tail(queue), NEW r, NoDup(r)
    PROVE  /\ Queued(r)' => Queued(r) /\ r # Head(queue)
           /\ NoDup(r)' /\ Queued(Head(queue)) /\ Head(queue) \in Reqs
<1>1. \A i \in DOMAIN queue' : i \in Nat \ {0} /\ i + 1 \in DOMAIN queue /\ queue'[i] = queue[i + 1]
  OBVIOUS
<1>2. 1 \in DOMAIN queue /\ queue[1] = Head(queue) /\ queue[1] \in Reqs
  OBVIOUS
<1>3. ASSUME NEW i \in DOMAIN queue', queue'[i] = r PROVE Queued(r) /\ r # Head(queue)
  <2>1. i + 1 # 1 /\ i + 1 \in DOMAIN queue /\ queue[i + 1] = r
    BY <1>1, <1>3
  <2> QED BY <1>2, <2>1 DEF Queued, NoDup
<1>4. ASSUME NEW i \in DOMAIN queue', NEW j \in DOMAIN queue', queue'[i] = r, queue'[j] = r PROVE i = j
  <2>1. i + 1 = j + 1
    BY Zenon, <1>1, <1>4 DEF NoDup
  <2> QED BY <1>1, <2>1
<1> QED
  BY Zenon, <1>2, <1>3, <1>4 DEF Queued, NoDup

(* A request joins the queue (Enqueue).                                     *)
LEMMA QueueAppend ==
    ASSUME queue \in Seq(Reqs), NEW q \in Reqs, ~Queued(q), queue' = Append(queue, q), NEW r, NoDup(r)
    PROVE  (Queued(r)' => Queued(r) \/ r = q) /\ NoDup(r)'
<1>1. \A i \in DOMAIN queue' : \/ i = Len(queue) + 1 /\ queue'[i] = q
                               \/ i \in DOMAIN queue /\ queue'[i] = queue[i]
  OBVIOUS
<1> QED
  BY <1>1 DEF Queued, NoDup

(* A connection takes a request from the queue.                             *)
LEMMA TakeTracked ==
    ASSUME Shape, Tracks, NEW c \in Conns, IdleRequest(c), UNCHANGED caller
    PROVE  Tracks'
<1>1. queue \in Seq(Reqs) /\ queue # <<>> /\ queue' = Tail(queue) /\ UNCHANGED <<task, retry>>
      /\ task[c] = "loop" /\ pending[c] = None
  BY Zenon DEF Shape, IdleRequest
<1>2. \A r \in Reqs : Track(r) /\ NoDup(r)
  BY DEF Tracks, Track
<1> PICK q \in Reqs : q = Head(queue)
  BY <1>1
<1>3. Queued(q)
  <2>1. 1 \in DOMAIN queue /\ queue[1] = q
    BY <1>1
  <2> QED BY <2>1 DEF Queued
<1>4. \A d \in Conns : pending'[d] = IF d = c THEN q ELSE pending[d]
  BY Zenon DEF Shape, IdleRequest
<1>5. \A r \in Reqs : binds'[r] = IF r = q THEN binds[r] + 1 ELSE binds[r]
  BY Zenon DEF Shape, IdleRequest
<1>6. \A r \in Reqs : (Queued(r)' => Queued(r) /\ r # q) /\ NoDup(r)'
  BY Zenon, <1>1, <1>2, QueueTail
<1>7. ASSUME NEW r \in Reqs, r # q PROVE Track(r)'
  BY Zenon, <1>1, <1>2, <1>4, <1>5, <1>6, <1>7, TrackFrame
<1>8. Track(q)'
  <2>1. binds'[q] = 1 /\ caller[q] \notin {"new", "send"} /\ \A d \in Conns : pending[d] # q
    BY <1>2, <1>3, <1>5 DEF Track
  <2>2. \A d \in Conns : pending'[d] = q => d = c
    BY Zenon, <1>4, <2>1
  <2> QED BY <1>1, <1>3, <1>6, <2>1, <2>2, TrackHeld
<1>9. \A d \in Conns : Fits(task'[d], pending'[d])
  BY Zenon, <1>1, <1>4 DEF Tracks, Fits
<1> QED
  BY Zenon, <1>7, <1>8, <1>9 DEF Tracks

(* A connection is done with its request, for good.                         *)
LEMMA SettleTracked ==
    ASSUME Shape, Tracks, NEW c \in Conns, NEW answer, UNCHANGED <<caller, queue>>,
           IF pending[c] = None THEN UNCHANGED <<retry, binds>> ELSE Settle(pending[c], answer),
           pending' = [pending EXCEPT ![c] = None],
           NEW p \in {"none", "loop"}, task' = [task EXCEPT ![c] = p]
    PROVE  Tracks'
<1>1. \A d \in Conns : task'[d] = (IF d = c THEN p ELSE task[d]) /\ pending'[d] = (IF d = c THEN None ELSE pending[d])
  BY Zenon DEF Shape
<1>2. \A r \in Reqs \ {pending[c]} : binds'[r] = binds[r] /\ retry'[r] = retry[r]
  BY DEF Shape, Settle
<1>3. ASSUME NEW r \in Reqs, r = pending[c] PROVE Track(r)'
  <2>1. binds'[r] = 0
    BY Zenon, <1>3, NoneNoRequest DEF Shape, Settle
  <2>2. Track(r) /\ NoDup(r) /\ ~Queued(r) /\ caller[r] \notin {"new", "send"}
    BY Zenon, <1>3 DEF Tracks, Track
  <2>3. \A d \in Conns : pending'[d] # r
    BY <1>1, <1>3, <2>2, NoneNoRequest DEF Track
  <2>4. NoDup(r)' /\ ~Queued(r)'
    BY Zenon, <2>2 DEF NoDup, Queued
  <2> QED BY <2>1, <2>2, <2>3, <2>4, TrackHeld
<1> QED
  BY <1>1, <1>2, <1>3, OthersTracked DEF Fits

(* A connection keeps its request: it goes round the loop, or has moved the *)
(* request to a new connection, or is that new connection.                  *)
LEMMA KeepTracked ==
    ASSUME Shape, Tracks, NEW c \in Conns, UNCHANGED <<caller, queue, pending>>,
           Moves(c) \/ Passes(c) \/ SendBind(c) \/ ConnectOk(c) \/ ServerNotifies(c)
    PROVE  Tracks'
<1>0. \A d \in Conns \ {c} : task'[d] = task[d]
  BY DEF Shape, Moves, StreamEnds, Passes, NextRound, SendBind, ConnectOk, ServerNotifies
<1>1. \A q \in Reqs \ {pending[c]} : binds'[q] = binds[q] /\ retry'[q] = retry[q]
  BY DEF Shape, Moves, StreamEnds, Passes, NextRound, SendBind, ConnectOk, ServerNotifies
<1>2. Fits(task'[c], pending[c])
  BY DEF Shape, Tracks, Fits, Moves, StreamEnds, Passes, NextRound, SendBind, ConnectOk, ServerNotifies
<1>3. ASSUME NEW r \in Reqs, r = pending[c] PROVE Track(r)'
  <2>1. Track(r) /\ r # None
    BY Zenon, NoneNoRequest DEF Tracks
  <2>2. NoDup(r)' /\ ~Queued(r)' /\ caller'[r] \notin {"new", "send"} /\ \A d \in Conns : pending'[d] = r => d = c
    <3>1. NoDup(r) /\ ~Queued(r) /\ caller[r] \notin {"new", "send"} /\ \A d \in Conns : pending[d] = r => d = c
      BY <1>3, <2>1, Zenon DEF Track
    <3> QED BY <3>1 DEF NoDup, Queued
  <2>3. CASE Moves(c)
    <3>1. retry[r] /\ ~retry'[r] /\ UNCHANGED binds
      BY <1>3, <2>3, Zenon DEF Moves, StreamEnds, Shape
    <3>2. binds[r] <= 2 /\ binds[r] <= 1
      BY <1>3, <2>1, <3>1, Zenon DEF Track
    <3> QED BY <2>2, <3>1, <3>2, TrackHeld, Zenon
  <2>4. CASE ConnectOk(c)
    <3>1. binds'[r] = binds[r] + 1 /\ binds[r] \in Nat /\ UNCHANGED retry /\ task[c] = "connect" /\ task'[c] = "loop"
      BY Zenon, <1>3, <2>1, <2>4 DEF ConnectOk, Shape
    <3>2. binds[r] <= 1 /\ ~retry[r]
      BY <1>3, <2>1, <3>1, Zenon DEF Track
    <3>3. binds'[r] <= 2
      BY <3>1, <3>2
    <3> QED BY <2>2, <3>1, <3>2, <3>3, TrackHeld, Zenon
  <2>5. CASE Passes(c) \/ SendBind(c) \/ ServerNotifies(c)
    <3>1. UNCHANGED <<binds, retry>> /\ (task'[c] = "connect" => task[c] = "connect")
      BY Zenon, <2>5 DEF Shape, Passes, NextRound, SendBind, ServerNotifies
    <3>2. \A d \in Conns : task'[d] = "connect" => task[d] = "connect"
      BY Zenon, <1>0, <3>1
    <3> QED BY <2>1, <2>2, <3>1, <3>2, TrackFrame, Zenon
  <2> QED BY <2>3, <2>4, <2>5
<1> QED
  BY Zenon, <1>0, <1>1, <1>2, <1>3, OthersTracked

(* The tracks, in the steps on a connection.                                *)
LEMMA ConnectionTracks ==
    ASSUME Shape, Tracks, NEW c \in Conns, Connect(c) \/ Online(c) \/ ServerNotifies(c)
    PROVE  Tracks'
<1>1. UNCHANGED caller
  BY Zenon, Kinds
<1>2. CASE Ends(c)
  BY <1>1, <1>2, SettleTracked, Zenon DEF Ends, EndTask
<1>3. CASE Answered(c)
  <2>1. pending[c] # None
    BY Zenon, <1>3 DEF Answered, Tracks, Fits
  <2>2. /\ UNCHANGED queue /\ \E answer : Settle(pending[c], answer)
        /\ pending' = [pending EXCEPT ![c] = None] /\ task' = [task EXCEPT ![c] = "loop"]
    BY <1>3, Zenon DEF Answered, handle_response
  <2> QED BY <1>1, <2>1, <2>2, SettleTracked, Zenon
<1>4. CASE Moves(c) \/ Passes(c) \/ SendBind(c) \/ ConnectOk(c) \/ ServerNotifies(c)
  <2>1. UNCHANGED <<queue, pending>>
    BY Zenon, <1>4 DEF Moves, StreamEnds, Passes, NextRound, SendBind, ConnectOk, ServerNotifies, taskOnly
  <2> QED BY <1>1, <1>4, <2>1, KeepTracked
<1>5. CASE IdleRequest(c)
  BY Zenon, <1>1, <1>5, TakeTracked
<1> QED
  BY Zenon, <1>2, <1>3, <1>4, <1>5, Kinds

(* The tracks, in the other steps.                                          *)
LEMMA OutsideTracks ==
    ASSUME Shape, Tracks, Outside
    PROVE  Tracks'
<1>1. /\ UNCHANGED <<retry, pending, binds>> /\ Opens
      /\ \A r \in Reqs : caller'[r] \in {"new", "send"} => caller[r] \in {"new", "send"}
      /\ UNCHANGED queue \/ \E r \in Reqs : Sends(r)
  BY Zenon, OutsideKinds
<1>2. \A d \in Conns : Fits(task'[d], pending'[d]) /\ (pending[d] # None => task'[d] = task[d])
  BY Zenon, <1>1 DEF Tracks, Fits, Opens
<1>3. ASSUME NEW r \in Reqs, NoDup(r)', Queued(r)' => Queued(r) PROVE Track(r)'
  <2>1. \A d \in Conns : pending'[d] = r => pending[d] = r /\ (task'[d] = "connect" => task[d] = "connect")
    BY Zenon, <1>1, <1>2, NoneNoRequest
  <2> QED BY <1>1, <1>3, <2>1, TrackFrame DEF Tracks
<1>4. CASE UNCHANGED queue
  <2>1. \A r \in Reqs : NoDup(r)' /\ (Queued(r)' => Queued(r))
    BY <1>4 DEF Tracks, Track, NoDup, Queued
  <2> QED BY <1>2, <1>3, <2>1 DEF Tracks
<1>5. ASSUME NEW q \in Reqs, Sends(q) PROVE Tracks'
  <2>1. Track(q) /\ caller[q] = "send" /\ queue' = Append(queue, q) /\ caller'[q] = "wait"
    BY Zenon, <1>5 DEF Sends, Tracks, Shape
  <2>2. ~Queued(q) /\ (\A d \in Conns : pending[d] # q) /\ binds[q] = 0 /\ retry[q]
    BY Zenon, <2>1 DEF Track
  <2>3. \A r \in Reqs : (Queued(r)' => Queued(r) \/ r = q) /\ NoDup(r)'
    BY Zenon, <2>1, <2>2, QueueAppend DEF Shape, Tracks, Track
  <2>4. Track(q)'
    BY Zenon, <1>1, <2>1, <2>2, <2>3 DEF Track
  <2>5. \A r \in Reqs : Track(r)'
    BY Zenon, <1>3, <2>3, <2>4
  <2> QED BY <1>2, <2>5 DEF Tracks
<1> QED
  BY Zenon, <1>1, <1>4, <1>5

(* The tracks hold at the start.                                            *)
LEMMA TracksInit == Init => Tracks
  BY PoolConstAssumption DEF Init, Tracks, Track, Fits, Queued, NoDup

(* Every step keeps the tracks of the requests (run, run_with_stream).      *)
LEMMA TracksStep == Shape /\ Tracks /\ [Next]_vars => Tracks'
<1> SUFFICES ASSUME Shape, Tracks, [Next]_vars PROVE Tracks'
  OBVIOUS
<1>1. CASE UNCHANGED vars
  BY <1>1 DEF vars, Tracks, Track, Queued, NoDup
<1> QED
  BY Zenon, <1>1, Steps, OutsideTracks, ConnectionTracks

(* However calls, connections and their ends interleave, a request is given *)
(* to at most two connections (run's retry), for every value of the         *)
(* constants.                                                               *)
THEOREM RetriedOnceHolds == Spec => []RetriedOnce
<1>1. Tracks => RetriedOnce
  BY Zenon DEF Tracks, Track, RetriedOnce
<1> QED
  BY <1>1, ShapeInit, ShapeStep, TracksInit, TracksStep, PTL DEF Spec

-----------------------------------------------------------------------------
(* Answers and message ids. *)

(* Sending a bind makes every answer one bind older, but for an id that is  *)
(* used again (SimpleBindRequestEncoder::encode).                           *)
LEMMA AgeNext ==
    ASSUME NEW last \in 1..MaxId, NEW j \in 1..MaxId,
           NEW nxt, nxt = IF last = MaxId THEN 1 ELSE last + 1
    PROVE  /\ nxt \in 1..MaxId /\ Age(last, j) \in Nat /\ Age(nxt, nxt) = 0
           /\ j # nxt => Age(nxt, j) = Age(last, j) + 1
           /\ j = nxt => Age(last, j) = MaxId - 1
  BY PoolConstAssumption DEF Age

(* An answer is some number of binds old.                                   *)
LEMMA AgeType == \A last \in 1..MaxId, m \in Message : m.id # 0 => Age(last, m.id) \in Nat
  BY Zenon, MessageId, AgeNext

(* The messages after one more.                                             *)
LEMMA AppendCases ==
    ASSUME NEW s \in Seq(Message), NEW e \in Message
    PROVE  \A i \in DOMAIN Append(s, e) : Append(s, e)[i] = e \/ (i \in DOMAIN s /\ Append(s, e)[i] = s[i])
  OBVIOUS

(* How far behind the answers are: a bound stays one when it is raised.     *)
LEMMA BehindMore ==
    ASSUME NEW s \in Seq(Message), NEW last \in 1..MaxId, NEW n \in Nat, NEW k \in Nat, n <= k,
           Behind(s, last, n)
    PROVE  Behind(s, last, k)
<1>1. \A i \in DOMAIN s : s[i].id # 0 => Age(last, s[i].id) \in Nat /\ i \in Nat
  BY AgeType
<1> QED
  BY <1>1 DEF Behind

(* Reading a message (LdapMessageReceiver::recv) brings the rest one closer.*)
LEMMA BehindTail ==
    ASSUME NEW s \in Seq(Message), s # <<>>, NEW last \in 1..MaxId, NEW n \in Nat,
           Behind(s, last, n + 1)
    PROVE  Behind(Tail(s), last, n)
<1>1. Len(Tail(s)) <= n
  BY DEF Behind
<1>2. ASSUME NEW i \in DOMAIN Tail(s), Tail(s)[i].id # 0
      PROVE  i + Age(last, Tail(s)[i].id) <= n
  <2>1. i + 1 \in DOMAIN s /\ Tail(s)[i] = s[i + 1] /\ i \in Nat
    OBVIOUS
  <2>2. Age(last, s[i + 1].id) \in Nat
    BY <1>2, <2>1, AgeType
  <2>3. i + 1 + Age(last, s[i + 1].id) <= n + 1
    BY Zenon, <1>2, <2>1 DEF Behind
  <2> QED BY <2>1, <2>2, <2>3
<1> QED
  BY Zenon, <1>1, <1>2 DEF Behind

(* A notification puts the answers after it one further behind.             *)
LEMMA BehindNotice ==
    ASSUME NEW s \in Seq(Message), NEW last \in 1..MaxId, NEW n \in Nat,
           NEW e \in Message, e.id = 0, Behind(s, last, n)
    PROVE  Behind(Append(s, e), last, n + 1)
<1>1. \A i \in DOMAIN Append(s, e) : Append(s, e)[i].id # 0 =>
          i \in DOMAIN s /\ Append(s, e)[i] = s[i]
  OBVIOUS
<1>2. Behind(s, last, n + 1)
  BY BehindMore
<1>3. Len(Append(s, e)) <= n + 1
  BY DEF Behind
<1> QED
  BY Zenon, <1>1, <1>2, <1>3 DEF Behind

(* So does a bind (send_simple_bind_request), and with fewer notifications  *)
(* than message ids its id is not that of an answer on the way.             *)
LEMMA BehindSend ==
    ASSUME NEW s \in Seq(Message), NEW last \in 1..MaxId, NEW n \in Nat, n < MaxId,
           NEW nxt, nxt = IF last = MaxId THEN 1 ELSE last + 1, Behind(s, last, n)
    PROVE  /\ Behind(s, nxt, n + 1)
           /\ \A i \in DOMAIN s : s[i].id # nxt
<1>1. ASSUME NEW i \in DOMAIN s, s[i].id # 0
      PROVE  s[i].id # nxt /\ i + Age(nxt, s[i].id) <= n + 1
  <2>1. s[i].id \in 1..MaxId /\ i \in Nat /\ i > 0
    BY <1>1, MessageId
  <2>2. i + Age(last, s[i].id) <= n
    BY Zenon, <1>1 DEF Behind
  <2>3. s[i].id # nxt
    BY <2>1, <2>2, AgeNext, PoolConstAssumption
  <2>4. Age(nxt, s[i].id) = Age(last, s[i].id) + 1 /\ Age(last, s[i].id) \in Nat
    BY <2>1, <2>3, AgeNext
  <2> QED BY <2>1, <2>2, <2>3, <2>4
<1>2. nxt \in 1..MaxId
  BY Zenon, AgeNext
<1>3. Len(s) <= n + 1
  BY DEF Behind
<1> QED
  BY <1>1, <1>2, <1>3 DEF Behind

(* The answer to the last bind comes behind the messages on the way.        *)
LEMMA BehindAnswer ==
    ASSUME NEW s \in Seq(Message), NEW last \in 1..MaxId, NEW n \in Nat,
           NEW e \in Message, e.id = last, Len(s) <= n, Behind(s, last, n + 1)
    PROVE  Behind(Append(s, e), last, n + 1)
<1>1. Age(last, last) = 0
  BY DEF Age
<1>2. ASSUME NEW i \in DOMAIN Append(s, e), Append(s, e)[i].id # 0
      PROVE  i + Age(last, Append(s, e)[i].id) <= n + 1
  <2>1. CASE i = Len(s) + 1
    <3>1. Append(s, e)[i] = e
      BY <2>1
    <3> QED BY <1>1, <2>1, <3>1
  <2>2. CASE i # Len(s) + 1
    <3>1. i \in DOMAIN s /\ Append(s, e)[i] = s[i]
      BY <2>2
    <3> QED BY <1>2, <3>1 DEF Behind
  <2> QED BY <2>1, <2>2
<1>3. Len(Append(s, e)) <= n + 1
  OBVIOUS
<1> QED
  BY Zenon, <1>2, <1>3 DEF Behind

(* A task that has left its connection has an empty wire.                   *)
LEMMA EmptyWire ==
    ASSUME NEW last, NEW n \in Nat
    PROVE  Behind(<<>>, last, n)
  BY DEF Behind

(* A step on one connection leaves the others' wires alone.                 *)
LEMMA OthersKept ==
    ASSUME Shape, WireInv, NEW c \in Conns, UNCHANGED notes, WireFits(c)',
           \A d \in Conns \ {c} : /\ task'[d] = task[d] /\ pending'[d] = pending[d]
                                  /\ msgId'[d] = msgId[d] /\ wire'[d] = wire[d]
    PROVE  WireInv'
  BY DEF WireInv, WireFits, Slack

(* The end of a task, or of a connection, empties its wire (run).           *)
LEMMA EndWire ==
    ASSUME Shape, WireInv, NEW c \in Conns, UNCHANGED notes, Ends(c) \/ Moves(c)
    PROVE  WireInv'
<1>1. /\ wire'[c] = <<>> /\ task'[c] \in {"none", "connect"}
      /\ \A d \in Conns \ {c} : /\ task'[d] = task[d] /\ pending'[d] = pending[d]
                                /\ msgId'[d] = msgId[d] /\ wire'[d] = wire[d]
  BY DEF Shape, Ends, Moves, StreamEnds, EndTask
<1>2. WireFits(c)'
  <2>1. Slack(c)' \in Nat
    <3>1. notes' \in Nat
      BY DEF Shape
    <3> QED BY <1>1, <3>1 DEF Slack
  <2> QED BY <1>1, <2>1, EmptyWire DEF WireFits
<1> QED
  BY Zenon, <1>1, <1>2, OthersKept

(* Reading a message and going round the loop (run_with_stream).            *)
LEMMA ReadWire ==
    ASSUME Shape, WireInv, NEW c \in Conns, task[c] \in {"loop", "await"}, wire[c] # <<>>,
           wire' = [wire EXCEPT ![c] = Tail(@)], task' = [task EXCEPT ![c] = "loop"],
           UNCHANGED <<msgId, notes>>, \A d \in Conns \ {c} : pending'[d] = pending[d]
    PROVE  WireInv'
<1>1. wire'[c] = Tail(wire[c]) /\ task'[c] = "loop" /\ Slack(c)' = notes
  BY PoolConstAssumption DEF Shape, Slack
<1>2. wire[c] \in Seq(Message) /\ msgId[c] \in 1..MaxId /\ notes \in Nat
  BY PoolConstAssumption DEF Shape
<1>3. Behind(wire[c], msgId[c], notes + 1)
  <2>1. Behind(wire[c], msgId[c], Slack(c)) /\ Slack(c) \in Nat /\ Slack(c) <= notes + 1
    BY <1>2 DEF WireInv, WireFits, Slack
  <2> QED BY <1>2, <2>1, BehindMore
<1>4. WireFits(c)'
  <2>1. Behind(Tail(wire[c]), msgId[c], notes)
    BY Zenon, <1>2, <1>3, BehindTail
  <2> QED BY <1>1, <2>1 DEF WireFits
<1>5. \A d \in Conns \ {c} : /\ task'[d] = task[d] /\ pending'[d] = pending[d]
                             /\ msgId'[d] = msgId[d] /\ wire'[d] = wire[d]
  BY Zenon DEF Shape
<1> QED
  BY Zenon, <1>4, <1>5, OthersKept

(* Sending a bind: the only answer with its message id is its own           *)
(* (send_simple_bind_request).                                              *)
LEMMA SendWire ==
    ASSUME MaxNotes < MaxId, Shape, WireInv, NEW c \in Conns, SendBind(c)
    PROVE  WireInv'
<1> DEFINE s == wire[c]
           nxt == NextId(c)
           r == pending[c]
<1>1. s \in Seq(Message) /\ msgId[c] \in 1..MaxId /\ notes \in Nat /\ notes < MaxId
  BY PoolConstAssumption DEF Shape
<1>2. nxt = IF msgId[c] = MaxId THEN 1 ELSE msgId[c] + 1
  BY Zenon DEF NextId
<1>3. Behind(s, msgId[c], notes)
  BY <1>1 DEF WireInv, WireFits, Slack, SendBind
<1>4. task'[c] = "await" /\ msgId'[c] = nxt /\ pending'[c] = r /\ notes' = notes
  BY Zenon DEF SendBind, Shape
<1>5. Slack(c)' = notes + 1
  BY Zenon, <1>4 DEF Slack
<1> PICK a \in Answers(c, r) : wire' = [wire EXCEPT ![c] = @ \o a]
  BY Zenon DEF SendBind
<1>6. wire'[c] = s \o a
  BY Zenon DEF Shape
<1>7. \A d \in Conns \ {c} : /\ task'[d] = task[d] /\ pending'[d] = pending[d]
                             /\ msgId'[d] = msgId[d] /\ wire'[d] = wire[d]
  BY Zenon DEF Shape, SendBind
<1>8. nxt \in 1..MaxId
  BY Zenon, <1>1, <1>2, AgeNext
<1> DEFINE E == {m \in Message : m.id = nxt /\ m.body \in {"garbled", Verdict(r)}}
<1>9. a = <<>> \/ \E e \in E : a = <<e>>
  <2>1. \A b \in {"garbled", "ok", "refused"} : [id |-> nxt, body |-> b] \in Message
    BY Zenon, <1>8 DEF Message
  <2> QED BY <2>1 DEF Answers, Verdict
<1> HIDE DEF nxt, E, s, r
<1>10. Behind(s, nxt, notes + 1) /\ \A i \in DOMAIN s : s[i].id # nxt
  BY Zenon, <1>1, <1>2, <1>3, BehindSend
<1>11. CASE a = <<>>
  <2>1. wire'[c] = s
    BY <1>1, <1>6, <1>11
  <2>2. WireFits(c)'
    BY <1>4, <1>5, <1>10, <2>1, Zenon DEF WireFits, Matched
  <2> QED BY <1>4, <1>7, <2>2, OthersKept
<1>12. ASSUME NEW e \in E, a = <<e>> PROVE WireInv'
  <2>0. e \in Message /\ e.id = nxt /\ e.body \in {"garbled", Verdict(r)}
    BY Zenon, <1>12 DEF E
  <2>1. wire'[c] = Append(s, e)
    BY <1>1, <1>6, <1>12, <2>0
  <2>2. Len(s) <= notes
    BY Zenon, <1>3 DEF Behind
  <2>3. Behind(Append(s, e), nxt, notes + 1)
    BY Zenon, <1>1, <1>8, <1>10, <2>0, <2>2, BehindAnswer
  <2>4. \A i \in DOMAIN Append(s, e) : Append(s, e)[i] = e \/ (i \in DOMAIN s /\ Append(s, e)[i] = s[i])
    BY Zenon, <1>1, <2>0, AppendCases
  <2>5. Matched(Append(s, e), nxt, r)
    BY Zenon, <1>10, <2>0, <2>4 DEF Matched
  <2>6. WireFits(c)'
    BY <1>4, <1>5, <2>1, <2>3, <2>5, Zenon DEF WireFits
  <2> QED BY <1>4, <1>7, <2>6, OthersKept
<1> QED
  BY Zenon, <1>9, <1>11, <1>12

(* A notification of the server joins one wire.                             *)
LEMMA NoticeWire ==
    ASSUME Shape, WireInv, NEW c \in Conns, ServerNotifies(c)
    PROVE  WireInv'
<1>1. notes \in Nat /\ notes' = notes + 1 /\ UNCHANGED <<task, pending, msgId>>
  BY DEF Shape, ServerNotifies
<1>2. \A d \in Conns : Slack(d) \in Nat /\ Slack(d)' = Slack(d) + 1
  BY <1>1 DEF Slack
<1>3. \A d \in Conns : wire[d] \in Seq(Message) /\ msgId[d] \in 1..MaxId
  BY Zenon DEF Shape
<1> PICK n \in Notes : wire' = [wire EXCEPT ![c] = Append(@, [id |-> 0, body |-> n])]
  BY Zenon DEF ServerNotifies
<1> DEFINE e == [id |-> 0, body |-> n]
<1>4. e \in Message /\ e.id = 0
  BY Zenon DEF Message
<1>5. wire'[c] = Append(wire[c], e) /\ \A d \in Conns \ {c} : wire'[d] = wire[d]
  BY Zenon DEF Shape
<1> HIDE DEF e
<1>6. WireFits(c)'
  <2>1. Behind(wire'[c], msgId'[c], Slack(c)')
    <3>1. Behind(wire[c], msgId[c], Slack(c))
      BY Zenon DEF WireInv, WireFits
    <3>2. Behind(Append(wire[c], e), msgId[c], Slack(c) + 1)
      BY Zenon, <1>2, <1>3, <1>4, <3>1, BehindNotice
    <3> QED BY <1>1, <1>2, <1>5, <3>2
  <2>2. ASSUME task[c] = "await" PROVE Matched(wire'[c], msgId[c], pending[c])
    <3>1. \A i \in DOMAIN Append(wire[c], e) : Append(wire[c], e)[i] = e \/ (i \in DOMAIN wire[c] /\ Append(wire[c], e)[i] = wire[c][i])
      BY Zenon, <1>3, <1>4, AppendCases
    <3>2. e.id # msgId[c]
      BY <1>3, <1>4
    <3>3. Matched(wire[c], msgId[c], pending[c])
      BY Zenon, <2>2 DEF WireInv, WireFits
    <3> QED BY <1>5, <3>1, <3>2, <3>3 DEF Matched
  <2>3. task'[c] \notin {"none", "connect"}
    BY Zenon, <1>1 DEF ServerNotifies
  <2> QED BY <1>1, <2>1, <2>2, <2>3 DEF WireFits
<1>7. ASSUME NEW d \in Conns, d # c PROVE WireFits(d)'
  <2>1. Behind(wire[d], msgId[d], Slack(d) + 1)
    <3>1. Behind(wire[d], msgId[d], Slack(d))
      BY Zenon DEF WireInv, WireFits
    <3>2. Slack(d) + 1 \in Nat /\ Slack(d) <= Slack(d) + 1
      BY <1>2
    <3> QED BY <1>2, <1>3, <3>1, <3>2, BehindMore
  <2> QED BY <1>1, <1>2, <1>5, <1>7, <2>1 DEF WireInv, WireFits
<1> QED
  BY Zenon, <1>6, <1>7 DEF WireInv

(* The wires, in the steps on a connection.                                 *)
LEMMA ConnectionWire ==
    ASSUME MaxNotes < MaxId, Shape, WireInv, NEW c \in Conns,
           Connect(c) \/ Online(c) \/ ServerNotifies(c)
    PROVE  WireInv'
<1>1. CASE Ends(c) \/ Moves(c)
  BY Zenon, <1>1, EndWire DEF Ends, Moves
<1>2. CASE Passes(c)
  BY <1>2, ReadWire, Zenon DEF Passes, NextRound
<1>3. CASE Answered(c)
  <2>1. \A d \in Conns \ {c} : pending'[d] = pending[d]
    BY <1>3 DEF Answered, handle_response, Shape
  <2> QED BY <1>3, <2>1, ReadWire DEF Answered, handle_response
<1>4. CASE ConnectOk(c) \/ IdleRequest(c)
  <2>1. /\ UNCHANGED <<msgId, wire, notes>> /\ task'[c] = "loop"
        /\ task[c] = "connect" \/ task[c] = "loop"
        /\ \A d \in Conns \ {c} : task'[d] = task[d] /\ pending'[d] = pending[d]
    BY Zenon, <1>4 DEF ConnectOk, IdleRequest, Shape
  <2>2. WireFits(c)'
    BY Zenon, <2>1 DEF WireInv, WireFits, Slack
  <2> QED BY <2>1, <2>2, OthersKept
<1> QED
  BY Zenon, <1>1, <1>2, <1>3, <1>4, SendWire, NoticeWire, Kinds

(* Settling a request, with a success only if it is one.                    *)
LEMMA SettleVerified ==
    ASSUME Shape, Verified, NEW r, NEW answer, Settle(r, answer),
           answer = "some" /\ r \in Reqs => CredOf[r] \in Valid
    PROVE  \A q \in Reqs : reply'[q] # None /\ reply'[q] = "some" => CredOf[q] \in Valid
<1>1. \A q \in Reqs : reply'[q] = reply[q] \/ (q = r /\ reply'[q] = answer)
  BY Zenon DEF Settle, Shape
<1> QED
  BY Zenon, <1>1 DEF Verified

(* What is taken for a success is one, in the steps on a connection.        *)
LEMMA ConnectionVerified ==
    ASSUME Shape, Tracks, WireInv, Verified, NEW c \in Conns,
           Connect(c) \/ Online(c) \/ ServerNotifies(c)
    PROVE  Verified'
<1> DEFINE RepliesFit == \A q \in Reqs : reply[q] # None /\ reply[q] = "some" => CredOf[q] \in Valid
<1>1. ASSUME UNCHANGED reply PROVE RepliesFit'
  BY Zenon, <1>1 DEF Verified
<1>2. ASSUME Ends(c) PROVE RepliesFit'
  BY Zenon, <1>1, <1>2, SettleVerified DEF Ends, EndTask
<1>3. ASSUME Answered(c) PROVE RepliesFit'
  <2>1. 1 \in DOMAIN wire[c] /\ wire[c][1] = Head(wire[c])
    BY <1>3 DEF Answered, Shape
  <2>2. Matched(wire[c], msgId[c], pending[c])
    BY Zenon, <1>3 DEF WireInv, WireFits, Answered
  <2>3. Head(wire[c]).body = "ok" => CredOf[pending[c]] \in Valid
    BY Zenon, <1>3, <2>1, <2>2 DEF Matched, Verdict, Answered
  <2>4. Settle(pending[c], IF Head(wire[c]).body = "ok" THEN "some" ELSE "none")
    BY Zenon, <1>3 DEF Answered, handle_response
  <2> QED BY <2>3, <2>4, SettleVerified
<1>4. RepliesFit'
  BY <1>1, <1>2, <1>3, Kinds, Zenon
  DEF Moves, StreamEnds, Passes, NextRound, SendBind, ConnectOk, IdleRequest, ServerNotifies
<1> QED
  BY <1>4, Kinds, Zenon DEF Verified, SuccessIsVerified

(* And in the other steps (check_username_password).                        *)
LEMMA OutsideVerified ==
    ASSUME Shape, Verified, Outside
    PROVE  Verified'
<1>1. ASSUME NEW r \in Reqs, CallStep(r)
      PROVE  /\ \A q \in Reqs : caller'[q] = "ok" =>
                   \/ caller[q] = "ok"
                   \/ q = r /\ (CredOf[r] \in cache \/ (reply[r] # None /\ reply[r] = "some"))
             /\ \A q \in Reqs : reply'[q] \in {reply[q], None, "dropped"}
             /\ cache' = cache \/ (reply[r] # None /\ reply[r] = "some" /\ cache' = cache \cup {CredOf[r]})
  <2>1. CASE Call(r) \/ Enqueue(r) \/ WaitTimeout(r)
    BY <2>1 DEF Shape, Call, Enqueue, WaitTimeout
  <2>2. CASE Returned(r)
    <3>1. reply[r] \in {"some", "none", "dropped"} /\ reply[r] # None
      BY Zenon, <2>2 DEF Shape, Returned
    <3> QED BY <2>2, <3>1 DEF Shape, Returned
  <2> QED BY <1>1, <2>1, <2>2 DEF CallStep
<1>2. ASSUME NEW r \in Reqs, CallStep(r) PROVE Verified'
  BY <1>1, <1>2 DEF Verified, SuccessIsVerified
<1>3. ASSUME ~\E r \in Reqs : CallStep(r) PROVE Verified'
  <2>1. UNCHANGED <<caller, reply>> /\ cache' \subseteq cache
    BY Zenon, <1>3 DEF Outside, CacheExpire, DropHandle, PoolCommand, check, ReportEnd, callVars
  <2> QED BY <2>1 DEF Verified, SuccessIsVerified
<1> QED
  BY Zenon, <1>2, <1>3

(* As long as the server sends fewer notifications than there are message   *)
(* ids (2^31 - 1 in SimpleBindRequestEncoder), a call of                    *)
(* check_username_password succeeds only for a pair the server accepts:     *)
(* whatever was resent, came late or is in the cache, and for any number of *)
(* calls and connections.                                                   *)
THEOREM SuccessIsVerifiedHolds ==
    ASSUME MaxNotes < MaxId
    PROVE  Spec => []SuccessIsVerified
<1> DEFINE Inv == Shape /\ Tracks /\ WireInv /\ Verified
<1>1. Init => Inv
  <2> SUFFICES ASSUME Init PROVE Inv
    OBVIOUS
  <2>1. WireInv
    BY EmptyWire DEF Init, WireInv, WireFits, Slack
  <2>2. Verified
    BY Zenon DEF Init, Verified, SuccessIsVerified
  <2> QED BY <2>1, <2>2, ShapeInit, TracksInit
<1>2. Inv /\ [Next]_vars => Inv'
  <2> SUFFICES ASSUME Inv, [Next]_vars PROVE Inv'
    OBVIOUS
  <2>1. Shape' /\ Tracks'
    BY Zenon, ShapeStep, TracksStep
  <2>2. CASE UNCHANGED vars
    BY Zenon, <2>1, <2>2 DEF vars, WireInv, WireFits, Slack, Verified, SuccessIsVerified
  <2>3. ASSUME NEW c \in Conns, Connect(c) \/ Online(c) \/ ServerNotifies(c) PROVE Inv'
    BY Zenon, <2>1, <2>3, ConnectionWire, ConnectionVerified
  <2>4. CASE Outside
    <3>1. UNCHANGED <<pending, msgId, wire, notes>> /\ Opens
      BY Zenon, <2>4, OutsideKinds
    <3>2. \A c \in Conns : Slack(c)' = Slack(c)
      BY Zenon, <3>1 DEF Slack, Opens
    <3>3. WireInv'
      BY Zenon, <3>1, <3>2 DEF WireInv, WireFits, Opens
    <3> QED BY <2>1, <2>4, <3>3, OutsideVerified
  <2> QED BY <2>2, <2>3, <2>4, Steps
<1>3. Inv => SuccessIsVerified
  BY Zenon DEF Verified
<1> QED
  BY <1>1, <1>2, <1>3, PTL DEF Spec

-----------------------------------------------------------------------------
(* The number of connections. *)

INSTANCE FiniteSetTheorems

(* The slots that create_connections(n) takes are at most n: the rank of a  *)
(* slot among the free ones tells them apart.                               *)
LEMMA FirstN ==
    ASSUME NEW F \in SUBSET Conns, NEW n \in Nat
    PROVE  LET N == {c \in F : Cardinality({d \in F : d < c}) < n}
           IN  IsFiniteSet(N) /\ Cardinality(N) <= n
<1> DEFINE Before(c) == {d \in F : d < c}
           N == {c \in F : Cardinality(Before(c)) < n}
           rank == [c \in N |-> Cardinality(Before(c))]
<1>1. IsFiniteSet(F) /\ F \subseteq Int
  <2>1. IsFiniteSet(Conns)
    BY FS_Interval, PoolConstAssumption DEF Conns
  <2>2. IsFiniteSet(F)
    BY Zenon, <2>1, FS_Subset
  <2> QED BY <2>2 DEF Conns
<1>2. \A c \in F : IsFiniteSet(Before(c)) /\ Cardinality(Before(c)) \in Nat
  <2> TAKE c \in F
  <2>1. Before(c) \in SUBSET F
    OBVIOUS
  <2>2. IsFiniteSet(Before(c))
    BY Zenon, <1>1, <2>1, FS_Subset
  <2> QED BY <2>2, FS_CardinalityType
<1>3. ASSUME NEW c \in F, NEW e \in F, c < e
      PROVE  Cardinality(Before(c)) # Cardinality(Before(e))
  <2>1. Before(c) \in SUBSET Before(e)
    <3>1. \A d \in F : d \in Int
      BY Zenon, <1>1
    <3>2. \A d \in F : d < c => d < e
      BY <1>3, <3>1
    <3> QED BY <3>2
  <2>2. c \in Before(e) /\ c \notin Before(c)
    BY <1>1, <1>3
  <2>3. IsFiniteSet(Before(e))
    BY Zenon, <1>2
  <2> HIDE DEF Before
  <2> QED BY <2>1, <2>2, <2>3, FS_Subset
<1>4. rank \in Injection(N, 0..(n - 1))
  <2>1. rank \in [N -> 0..(n - 1)]
    BY <1>2
  <2>2. ASSUME NEW c \in N, NEW e \in N, rank[c] = rank[e] PROVE c = e
    <3>1. c \in F /\ e \in F /\ c \in Int /\ e \in Int
      BY Zenon, <1>1
    <3>2. ~(c < e) /\ ~(e < c)
      BY Zenon, <1>3, <2>2, <3>1
    <3> QED BY <3>1, <3>2
  <2> QED BY <2>1, <2>2 DEF Injection, IsInjective
<1>5. IsFiniteSet(0..(n - 1)) /\ Cardinality(0..(n - 1)) = n
  <2>1. 0 \in Int /\ n - 1 \in Int
    OBVIOUS
  <2>2. IsFiniteSet(0..(n - 1)) /\ Cardinality(0..(n - 1)) = IF 0 > n - 1 THEN 0 ELSE n - 1 - 0 + 1
    BY Zenon, <2>1, FS_Interval
  <2> QED BY <2>2
<1> HIDE DEF rank, N
<1>6. IsFiniteSet(N) /\ Cardinality(N) <= n
  BY <1>4, <1>5, FS_Injection
<1> QED
  BY Zenon, <1>6 DEF N

(* The connections that are counted are finitely many.                      *)
LEMMA BusyFinite == IsFiniteSet(Conns \ FreeSlots) /\ idle_conn_count \in Nat
<1>1. IsFiniteSet(Conns)
  BY FS_Interval, PoolConstAssumption DEF Conns
<1>2. IsFiniteSet(Conns \ FreeSlots)
  BY Zenon, <1>1, FS_Subset
<1> QED
  BY Zenon, <1>2, FS_CardinalityType DEF idle_conn_count

(* n calls of create_connection add at most n to the count.                 *)
LEMMA CreateCount ==
    ASSUME Shape, NEW n \in Nat, create_connections(n)
    PROVE  idle_conn_count' <= idle_conn_count + n
<1> DEFINE N == {c \in FreeSlots : Cardinality({d \in FreeSlots : d < c}) < n}
           B == Conns \ FreeSlots
<1>1. FreeSlots \in SUBSET Conns
  BY Zenon DEF FreeSlots
<1>2. IsFiniteSet(N) /\ Cardinality(N) <= n
  BY Zenon, <1>1, FirstN
<1>3. (Conns \ FreeSlots)' = B \cup N
  BY Zenon, <1>1 DEF create_connections, FreeSlots, Shape
<1> HIDE DEF N
<1>4. IsFiniteSet(B)
  BY Zenon, BusyFinite
<1> HIDE DEF B
<1>5. Cardinality(B \cup N) = Cardinality(B) + Cardinality(N) - Cardinality(B \cap N)
  BY Zenon, <1>2, <1>4, FS_Union
<1>6. Cardinality(B \cap N) \in Nat /\ Cardinality(B) \in Nat /\ Cardinality(N) \in Nat
  <2>1. B \cap N \in SUBSET N
    OBVIOUS
  <2>2. IsFiniteSet(B \cap N)
    BY Zenon, <1>2, <2>1, FS_Subset
  <2> QED BY <1>2, <1>4, <2>2, FS_CardinalityType
<1>7. Cardinality(B \cup N) <= Cardinality(B) + n
  BY <1>2, <1>5, <1>6
<1> QED
  BY Zenon, <1>3, <1>7 DEF idle_conn_count, B

(* A step that opens no connection does not add to the count.               *)
LEMMA NoneOpened ==
    ASSUME Shape, \A c \in Conns : task[c] = "none" => task'[c] = "none"
    PROVE  idle_conn_count' <= idle_conn_count
<1>1. (Conns \ FreeSlots)' \in SUBSET (Conns \ FreeSlots)
  BY Zenon DEF FreeSlots
<1> QED
  BY Zenon, <1>1, BusyFinite, FS_Subset DEF idle_conn_count

(* The pool never runs more connections than max_idle_count, when it is     *)
(* built with overflow checks or has a fixed size, for every order of       *)
(* commands, ends and checks and all limits (into_running, check,           *)
(* create_connection).  Otherwise the run ldap_wrap shows it broken.        *)
THEOREM IdleWithinMaxHolds ==
    ASSUME OverflowChecks \/ MinIdle = MaxIdle
    PROVE  Spec => []IdleWithinMax
<1> USE PoolConstAssumption
<1>1. Init => Limits
  <2> SUFFICES ASSUME Init PROVE Limits
    OBVIOUS
  <2>1. Conns \ FreeSlots = {}
    BY Zenon DEF Init, FreeSlots
  <2>2. idle_conn_count = 0
    BY Zenon, <2>1, FS_EmptySet DEF idle_conn_count
  <2> QED BY <2>2 DEF Init, Limits, IdleWithinMax
<1>2. Shape /\ Limits /\ [Next]_vars => Limits'
  <2> SUFFICES ASSUME Shape, Limits, [Next]_vars PROVE Limits'
    OBVIOUS
  <2>0. idle_conn_count \in Nat /\ (idle_conn_count \in Nat)'
    BY BusyFinite, PTL
  <2>1. ASSUME UNCHANGED expected, \A c \in Conns : task[c] = "none" => task'[c] = "none"
        PROVE  Limits'
    BY <2>0, <2>1, NoneOpened DEF Limits, IdleWithinMax
  <2>2. CASE UNCHANGED vars
    BY Zenon, <2>1, <2>2 DEF vars
  <2>3. ASSUME NEW c \in Conns, Connect(c) \/ Online(c) \/ ServerNotifies(c) PROVE Limits'
    <3>1. UNCHANGED expected /\ task[c] # "none"
      BY Zenon, <2>3, Kinds
    <3>2. UNCHANGED task \/ \E p \in Places : task' = [task EXCEPT ![c] = p]
      BY <2>3, Kinds, Zenon DEF Places, Ends, EndTask, Moves, StreamEnds, Passes, NextRound, Answered,
          handle_response, SendBind, ConnectOk, IdleRequest, ServerNotifies
    <3>3. \A d \in Conns : task[d] = "none" => task'[d] = "none"
      BY Zenon, <3>1, <3>2 DEF Shape
    <3> QED BY <2>1, <3>1, <3>3
  <2>4. CASE PoolCommand
    <3>1. CASE CmdExit \/ (UNCHANGED poolVars /\ NoMore)
      <4>1. UNCHANGED expected /\ create_connections(0)
        BY Zenon, <3>1 DEF CmdExit, NoMore, poolVars
      <4>2. idle_conn_count' <= idle_conn_count + 0
        BY Zenon, <4>1, CreateCount
      <4> QED BY <2>0, <4>1, <4>2 DEF Limits, IdleWithinMax
    <3>2. CASE CmdConnectionClosed
      <4>1. UNCHANGED expected
        BY Zenon, <3>2 DEF CmdConnectionClosed, poolVars
      <4>2. idle_conn_count' <= idle_conn_count + (IF idle_conn_count < expected THEN 1 ELSE 0)
        BY Zenon, <2>0, <3>2, CreateCount DEF CmdConnectionClosed
      <4> QED BY <2>0, <4>1, <4>2 DEF Limits, IdleWithinMax
    <3>3. CASE CmdNeedMoreConnection
      <4>1. expected' = IF expected < MaxIdle THEN expected + 1 ELSE expected
        BY Zenon, <3>3 DEF CmdNeedMoreConnection
      <4>2. idle_conn_count' <= idle_conn_count + (IF idle_conn_count < MaxIdle THEN 1 ELSE 0)
        BY Zenon, <2>0, <3>3, CreateCount DEF CmdNeedMoreConnection
      <4> QED BY <2>0, <4>1, <4>2 DEF Limits, IdleWithinMax
    <3> QED BY <2>4, <3>1, <3>2, <3>3 DEF PoolCommand
  <2>5. CASE check
    <3>1. CASE expected > MinIdle
      <4>0. OverflowChecks
        BY <3>1 DEF Limits
      <4>1. UNCHANGED expected /\ create_connections(0)
        BY Zenon, <2>5, <3>1, <4>0 DEF check, NoMore
      <4>2. idle_conn_count' <= idle_conn_count + 0
        BY Zenon, <4>1, CreateCount
      <4> QED BY <2>0, <4>1, <4>2 DEF Limits, IdleWithinMax
    <3>2. CASE ~(expected > MinIdle)
      <4> DEFINE n == IF idle_conn_count < expected' THEN expected' - idle_conn_count ELSE 0
      <4>1. UNCHANGED expected /\ create_connections(n)
        BY Zenon, <2>5, <3>2 DEF check, CheckExpected
      <4>2. n \in Nat
        BY <2>0, <4>1 DEF Limits
      <4>3. idle_conn_count' <= idle_conn_count + n
        BY Zenon, <4>1, <4>2, CreateCount
      <4> QED BY <2>0, <4>1, <4>3 DEF Limits, IdleWithinMax
    <3> QED BY <3>1, <3>2
  <2>6. ASSUME \/ \E r \in Reqs : CallStep(r)
               \/ \E d \in Creds : CacheExpire(d)
               \/ DropHandle
               \/ \E how \in Endings : ReportEnd(how)
        PROVE  Limits'
    <3>1. UNCHANGED <<expected, task>>
      BY Zenon, <2>6 DEF CallStep, Call, Enqueue, Returned, WaitTimeout, CacheExpire, DropHandle, ReportEnd, poolVars
    <3> QED BY <2>1, <3>1
  <2> QED BY <2>2, <2>3, <2>4, <2>5, <2>6 DEF Next
<1>3. Limits => IdleWithinMax
  BY Zenon DEF Limits
<1> QED
  BY <1>1, <1>2, <1>3, ShapeInit, ShapeStep, PTL DEF Spec

=============================================================================
