-------------------------- MODULE KeylessMultiplex --------------------------
(***************************************************************************)
(* One multiplexed connection of vey-gateway to a keyless server            *)
(* (module/keyless/backend/multiplex).  A send task takes requests from the *)
(* backend queue, gives each a message id, enters it in a table and         *)
(* writes it.  A receive task reads the answers, which come in any order,   *)
(* and looks up their ids.  It also fails the requests that wait too long:  *)
(* at each tick the requests of the old table time out and the current      *)
(* table becomes the old one.  The tasks share the tables under a mutex and *)
(* tell each other of their end.                                            *)
(***************************************************************************)
EXTENDS Integers, Sequences

CONSTANTS
    Reqs,          \* the requests of the backend's clients
    None,
    MaxRequests    \* max_request_count

VARIABLES
    out,      \* out[r]: where request r is, or how it was settled
    got,      \* got[r]: the request whose answer the client of r received
    age,      \* age[r]: the ticks that r has waited for (not in the code)
    queue,    \* the request channel of the backend
    quit,     \* the pool has told its connections to quit
    send,     \* the send task
    writing,  \* the request that send_data writes
    count,    \* request_count
    msgId,    \* message_id
    cur, old, \* cur_cache and old_cache: the request of each id
    recv,     \* the loop of the receive task
    failed,   \* run_online returned an error, reader_close_sender was used
    partial,  \* the response that has arrived in part, or None
    peer,     \* the requests the server has and has not answered
    wire,     \* the responses on their way
    open      \* the server has not closed its side

vars == <<out, got, age, queue, quit, send, writing, count, msgId, cur, old, recv, failed, partial, peer, wire, open>>
sendVars == <<send, writing, count, msgId>>
tables == <<cur, old>>
recvVars == <<recv, failed, partial>>
netVars == <<peer, wire, open>>

Ids == 0 .. MaxRequests - 1
Message == [id : Ids, of : Reqs]    \* "of" stands for the payload
Settled == {"answer", "error", "timeout"}

ASSUME KeylessAssumption == MaxRequests \in Nat \ {0} /\ None \notin Reqs \cup Message

Init ==
    /\ out = [r \in Reqs |-> "new"] /\ got = [r \in Reqs |-> None] /\ age = [r \in Reqs |-> 0]
    /\ queue = <<>> /\ quit = FALSE
    /\ send = "select" /\ writing = None /\ count = 0 /\ msgId = 0
    /\ cur = [i \in Ids |-> None] /\ old = [i \in Ids |-> None]
    /\ recv = "online" /\ failed = FALSE /\ partial = None
    /\ peer = {} /\ wire = <<>> /\ open = TRUE

-----------------------------------------------------------------------------
(* The surroundings: KeylessTcpBackend::keyless and the pool.               *)

(* A request is queued.  When the receive task has ended there may be no    *)
(* live channel, and no receiver of the queue, and it is refused.  What the *)
(* pool is asked for when the queue is full is another connection.          *)
keyless(r) ==
    /\ out[r] = "new"
    /\ \/ out' = [out EXCEPT ![r] = "queue"] /\ queue' = Append(queue, r)
       \/ recv = "end" /\ out' = [out EXCEPT ![r] = "error"] /\ UNCHANGED queue
    /\ UNCHANGED <<got, age, quit, sendVars, tables, recvVars, netVars>>

Quit ==
    /\ ~quit /\ quit' = TRUE
    /\ UNCHANGED <<out, got, age, queue, sendVars, tables, recvVars, netVars>>

(* The server answers what it has in any order, or not at all, and closes. *)
PeerAnswer(m) ==
    /\ m \in peer /\ open
    /\ peer' = peer \ {m} /\ wire' = Append(wire, m)
    /\ UNCHANGED <<out, got, age, queue, quit, sendVars, tables, recvVars, open>>

PeerClose ==
    /\ open /\ open' = FALSE /\ peer' = {}
    /\ UNCHANGED <<out, got, age, queue, quit, sendVars, tables, recvVars, wire>>

-----------------------------------------------------------------------------
(* StreamSharedState *)

Held(t) == {t[i] : i \in Ids} \ {None}
has_pending == Held(cur) \cup Held(old) # {}

Finish(S, v) == out' = [r \in Reqs |-> IF r \in S THEN v ELSE out[r]]

fetch_request(id) ==
    IF cur[id] # None
      THEN cur' = [cur EXCEPT ![id] = None] /\ UNCHANGED old
      ELSE old' = [old EXCEPT ![id] = None] /\ UNCHANGED cur

Fetched(id) == (IF cur[id] # None THEN {cur[id]} ELSE {old[id]}) \ {None}

Older == age' = [r \in Reqs |-> IF r \in Held(cur) \cup Held(old) THEN age[r] + 1 ELSE age[r]]

\* (mutant) the current table times out, the old one stays
rotate_timeout_cur ==
    /\ Finish(Held(cur), "timeout") /\ Older
    /\ cur' = [i \in Ids |-> None] /\ UNCHANGED old

\* (mutant) the current table is copied, not taken
rotate_timeout_copies ==
    /\ Finish(Held(old), "timeout") /\ Older
    /\ old' = cur /\ UNCHANGED cur

rotate_timeout ==
    /\ Finish(Held(old), "timeout") /\ Older
    /\ old' = cur /\ cur' = [i \in Ids |-> None]

(* The tables go with the last of the two tasks: the senders left in them   *)
(* are dropped, and keyless turns that into an internal error.              *)
Release(last) ==
    IF last
      THEN /\ Finish(Held(cur) \cup Held(old), "error")
           /\ cur' = [i \in Ids |-> None] /\ old' = [i \in Ids |-> None]
      ELSE UNCHANGED <<out, tables>>

-----------------------------------------------------------------------------
(* KeylessUpstreamSendTask.  The select of run is biased: a branch is taken *)
(* when the ones before it are not ready.                                   *)

Take ==
    /\ send = "select" /\ queue # <<>>
    /\ queue' = Tail(queue) /\ count' = count + 1 /\ send' = "write"
    /\ writing' = Head(queue)
    /\ LET r == Head(queue)
           replaced == {cur[msgId]} \ {None}    \* its sender is dropped
       IN /\ cur' = [cur EXCEPT ![msgId] = r]
          /\ out' = [q \in Reqs |-> IF q = r THEN "wait" ELSE IF q \in replaced THEN "error" ELSE out[q]]
    /\ UNCHANGED <<got, age, quit, msgId, old, recvVars, netVars>>

(* The writer is shut down or dropped; the receive task sees the end of the *)
(* oneshot's receiver.                                                      *)
SendEnds == send' = "end" /\ writing' = None

Written ==
    /\ send = "write"
    /\ peer' = IF open THEN peer \cup {[id |-> msgId, of |-> writing]} ELSE peer

\* (mutant) message_id is not advanced
WriteOk_same_id ==
    /\ Written
    /\ send' = "select" /\ writing' = None
    /\ UNCHANGED <<out, got, age, queue, quit, count, msgId, tables, recvVars, wire, open>>

WriteOk ==
    /\ Written
    /\ msgId' = msgId + 1
    /\ IF count >= MaxRequests
         THEN SendEnds /\ Release(recv = "end")
         ELSE send' = "select" /\ writing' = None /\ UNCHANGED <<out, tables>>
    /\ UNCHANGED <<got, age, queue, quit, count, recvVars, wire, open>>

WriteErr ==
    /\ send = "write"
    /\ SendEnds
    /\ IF recv = "end" THEN Release(TRUE)
         ELSE fetch_request(msgId) /\ Finish(Fetched(msgId), "error")
    /\ UNCHANGED <<got, age, queue, quit, count, msgId, recvVars, netVars>>

(* backend dropped, quit, reader closed, max_alive_time or idle_timeout: a  *)
(* request in the queue comes before all of them.                           *)
SendStops ==
    /\ send = "select" /\ queue = <<>>
    /\ SendEnds /\ Release(recv = "end")
    /\ UNCHANGED <<got, age, queue, quit, count, msgId, recvVars, netVars>>

-----------------------------------------------------------------------------
(* KeylessUpstreamRecvTask.  The selects of run_online and run_offline are  *)
(* biased: data and the end of the stream come first, then quit, then the   *)
(* end of the send task (online), then the tick.                            *)

Ready == wire # <<>> \/ ~open
Selecting == partial = None /\ (recv = "online" \/ (recv = "offline" /\ has_pending))

handle_rsp(m) ==
    /\ fetch_request(m.id) /\ Finish(Fetched(m.id), "answer")
    /\ got' = [r \in Reqs |-> IF r \in Fetched(m.id) THEN m.of ELSE got[r]]

RecvRsp ==
    /\ wire # <<>> /\ (Selecting \/ recv = "await")
    /\ wire' = Tail(wire) /\ handle_rsp(Head(wire))
    /\ recv' = IF recv = "await" THEN "pending" ELSE recv
    /\ UNCHANGED <<age, queue, quit, sendVars, failed, partial, peer, open>>

(* The first bytes of a response are there, KeylessUpstreamResponse::recv   *)
(* waits for the rest outside the select.                                   *)
RecvPartial ==
    /\ Selecting /\ wire # <<>>
    /\ partial' = Head(wire) /\ wire' = Tail(wire)
    /\ UNCHANGED <<out, got, age, queue, quit, sendVars, tables, recv, failed, peer, open>>

RecvRest ==
    /\ partial # None
    /\ handle_rsp(partial) /\ partial' = None
    /\ UNCHANGED <<age, queue, quit, sendVars, recv, failed, netVars>>

(* The stream ends or fails. *)
RecvFails ==
    /\ partial # None \/ wire = <<>>
    /\ partial # None \/ Selecting \/ recv = "await"
    /\ ~open
    /\ recv' = "drain" /\ failed' = TRUE /\ partial' = None
    /\ UNCHANGED <<out, got, age, queue, quit, sendVars, tables, netVars>>

Goto(l) ==
    /\ recv' = l
    /\ UNCHANGED <<out, got, age, queue, quit, sendVars, tables, failed, partial, netVars>>

RecvQuit == Selecting /\ ~Ready /\ quit /\ Goto("pending")

SendGone == recv = "online" /\ Selecting /\ ~Ready /\ ~quit /\ send = "end" /\ Goto("offline")

\* (mutant) run_offline has no tick
RecvTick_online ==
    /\ Selecting /\ ~Ready /\ ~quit /\ (recv = "online" /\ send # "end")
    /\ rotate_timeout
    /\ UNCHANGED <<got, queue, quit, sendVars, recvVars, netVars>>

RecvTick ==
    /\ Selecting /\ ~Ready /\ ~quit /\ (recv = "online" => send # "end")
    /\ rotate_timeout
    /\ UNCHANGED <<got, queue, quit, sendVars, recvVars, netVars>>

\* (mutant) has_pending looks at the current table only
OfflineDone_cur == recv = "offline" /\ partial = None /\ Held(cur) = {} /\ Goto("drain")

OfflineDone == recv = "offline" /\ partial = None /\ ~has_pending /\ Goto("drain")

(* recv_all_pending under its timeout: the loop looks for pending requests  *)
(* before it waits for a response, not while it waits.                      *)
PendingCheck == recv = "pending" /\ Goto(IF has_pending THEN "await" ELSE "drain")

PendingTimeout == recv = "await" /\ Goto("drain")

Drain ==
    /\ recv = "drain"
    /\ recv' = "end" /\ Release(TRUE)
    /\ UNCHANGED <<got, age, queue, quit, sendVars, failed, partial, netVars>>

-----------------------------------------------------------------------------
SendStep == Take \/ WriteOk \/ WriteErr \/ SendStops

RecvStep ==
    \/ RecvRsp \/ RecvFails \/ RecvQuit \/ SendGone \/ RecvTick
    \/ OfflineDone \/ PendingCheck \/ PendingTimeout \/ Drain

Next ==
    \/ \E r \in Reqs : keyless(r)
    \/ Quit \/ PeerClose
    \/ \E m \in peer : PeerAnswer(m)
    \/ SendStep \/ RecvStep \/ RecvPartial \/ RecvRest

Spec == Init /\ [][Next]_vars

(* Both tasks run, and their timers fire.  The server need not read what is *)
(* written to it, nor answer, nor finish an answer.                         *)
FairSpec == Spec /\ WF_vars(Take \/ SendStops) /\ WF_vars(RecvStep)

(* It reads: every write ends. *)
ReadingSpec == FairSpec /\ WF_vars(WriteOk \/ WriteErr)

-----------------------------------------------------------------------------
TypeOK ==
    /\ out \in [Reqs -> {"new", "queue", "wait"} \cup Settled]
    /\ got \in [Reqs -> Reqs \cup {None}] /\ age \in [Reqs -> 0 .. 2]
    /\ queue \in Seq(Reqs) /\ quit \in BOOLEAN
    /\ send \in {"select", "write", "end"} /\ writing \in Reqs \cup {None}
    /\ count \in 0 .. MaxRequests /\ msgId \in 0 .. count
    /\ cur \in [Ids -> Reqs \cup {None}] /\ old \in [Ids -> Reqs \cup {None}]
    /\ recv \in {"online", "offline", "pending", "await", "drain", "end"}
    /\ failed \in BOOLEAN /\ partial \in Message \cup {None}
    /\ peer \in SUBSET Message /\ wire \in Seq(Message) /\ open \in BOOLEAN

(* A client receives the answer to its own request, however the answers     *)
(* are ordered and whatever has timed out before (handle_rsp looks the      *)
(* request up by an id the connection never uses twice).                    *)
OwnResponse == \A r \in Reqs : got[r] \in {r, None}

(* A waiting request is in exactly one of the tables under one id, and one  *)
(* of the two tasks is still there to settle it: no request is lost when    *)
(* the tasks end in either order, also when the send task enters a request  *)
(* after the receive task has drained the tables (into_running).            *)
WaitingIsHeld ==
    \A r \in Reqs : out[r] = "wait" =>
        /\ \E i \in Ids : /\ (cur[i] = r) # (old[i] = r)
                         /\ \A j \in Ids \ {i} : cur[j] # r /\ old[j] # r
        /\ send # "end" \/ recv # "end"

(* A connection that its send task closes, for its age, its number of       *)
(* requests or for want of them, cuts no request off: unless the pool tells *)
(* it to quit or the stream fails, the receive task stays until everything  *)
(* sent is answered or timed out (run_offline).                             *)
ClosesGracefully == recv = "drain" /\ ~failed /\ ~quit => ~has_pending

(* A request that times out has seen two ticks of the interval, not only    *)
(* the first one, which may follow its start at once (rotate_timeout).  How *)
(* far the two are apart is up to the interval, which makes up for ticks    *)
(* that it missed.                                                          *)
TimeoutNotEarly == \A r \in Reqs : out[r] = "timeout" => age[r] = 2

(* A request that a connection has taken waits for good only behind the     *)
(* server: the receive task stays in the middle of a response, or the send  *)
(* task, after the receive task has ended, in the middle of a write.  In    *)
(* all other cases its answer, a tick or the end of a task settles it, also *)
(* one that is entered after the tables were drained (run_online,           *)
(* run_offline, recv_all_pending, into_running).                            *)
WaitsOnlyForServer ==
    \A r \in Reqs :
        \/ []<>(out[r] # "wait")
        \/ <>[](partial # None)
        \/ <>[](recv = "end" /\ send = "write")

(* What keyless_tcp.rst says of response_recv_timeout: a request that a     *)
(* connection has taken is answered, by an internal error at the latest.    *)
EveryRequestSettles == \A r \in Reqs : (out[r] = "wait") ~> (out[r] \in Settled)
=============================================================================
