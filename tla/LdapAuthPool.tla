---------------------------- MODULE LdapAuthPool ----------------------------
(***************************************************************************)
(* The LDAP user group's connection pool (vey-proxy/src/auth/group/ldap).  *)
(*                                                                         *)
(* Calls of check_username_password put a request in a bounded queue that  *)
(* every connection task reads.  The pool task keeps the number of         *)
(* connection tasks between two limits; calls and connection tasks talk to *)
(* it over a bounded command channel.  A connection task binds with the    *)
(* credential of one request at a time, matches the answer by message id,  *)
(* and moves the request to one new connection when the connection breaks. *)
(*                                                                         *)
(* The server answers a bind, leaves it unanswered or answers it with      *)
(* something that does not parse; it answers in order; it may send         *)
(* unsolicited notifications and close at any time.  All calls run on one  *)
(* worker thread, so one thread-local password cache is modelled.          *)
(***************************************************************************)
EXTENDS Integers, Sequences, FiniteSets

CONSTANTS
    Reqs,           \* calls of check_username_password
    Creds,          \* username and password pairs
    CredOf,         \* the pair each call asks about
    Valid,          \* the pairs the LDAP server accepts
    None,           \* the absent value
    MinIdle,        \* min_idle_count
    MaxIdle,        \* max_idle_count
    QueueSize,      \* queue_channel_size
    Word,           \* 2^w, w the width of usize
    OverflowChecks, \* built with overflow checks (cargo's dev profile)
    MaxId,          \* MAX_MESSAGE_ID
    Slots,          \* bound: connection tasks at one time
    MaxEnding,      \* bound: tasks waiting to report their end when a check ticks
    MaxNotes        \* bound: unsolicited notifications sent by the server

ASSUME PoolConstAssumption ==
    /\ MinIdle \in Nat /\ MaxIdle \in Nat \ {0} /\ MinIdle <= MaxIdle
    /\ QueueSize \in Nat \ {0} /\ MaxId \in Nat \ {0}
    /\ Word \in Nat /\ MaxIdle < Word
    /\ CredOf \in [Reqs -> Creds] /\ Valid \subseteq Creds
    /\ OverflowChecks \in BOOLEAN
    /\ Slots \in Nat /\ MaxEnding \in Nat /\ MaxNotes \in Nat
    /\ None \notin Reqs

Conns == 1..Slots

VARIABLES
    caller,     \* each call: where it is, then what it returned
    reply,      \* its oneshot: None, "some", "none", or "dropped"
    retry,      \* the request may still move to a new connection
    cache,      \* the pairs in the thread-local password cache
    handle,     \* LdapAuthPoolHandle has not been dropped
    queue,      \* calls -> connection tasks
    cmds,       \* -> pool task
    exitSent,   \* the Exit command was accepted by the channel
    pool,       \* the pool task: "run", "exited" or "panicked"
    expected,   \* expected_idle_count
    task,       \* each connection task: its place in run
    ending,     \* tasks that have left run and wait to report it
    pending,    \* its pending_request
    msgId,      \* its request encoder's message_id
    wire,       \* messages of the server on their way to it
    notes,      \* unsolicited notifications sent so far
    binds       \* history: connections each request has been given to

callVars == <<caller, cache>>
poolVars == <<pool, expected>>
connVars == <<msgId, wire, notes, binds>>
vars == <<caller, reply, retry, cache, handle, queue, cmds, exitSent, pool,
          expected, task, ending, pending, msgId, wire, notes, binds>>

(* What the server says unasked: a notice that is passed over, or one that *)
(* ends the connection, of a disconnection or not understood.              *)
Notes == {"notice", "disconnect"}
Message == [id : {0}, body : Notes] \cup [id : 1..MaxId, body : {"ok", "refused", "garbled"}]
Endings == {"closed", "failed"}
Places == {"none", "connect", "loop", "await"}

(* The type invariant.  The request queue and the command channel of       *)
(* LdapAuthPool::create keep their capacities, and the counts of the pool  *)
(* stay within usize.                                                      *)
TypeOK ==
    /\ caller \in [Reqs -> {"new", "send", "wait", "ok", "mismatch", "error", "timeout"}]
    /\ reply \in [Reqs -> {None, "some", "none", "dropped"}]
    /\ retry \in [Reqs -> BOOLEAN]
    /\ cache \subseteq Creds
    /\ handle \in BOOLEAN /\ exitSent \in BOOLEAN
    /\ queue \in Seq(Reqs) /\ Len(queue) <= QueueSize
    /\ cmds \in Seq({"Exit", "NeedMore", "closed", "failed"}) /\ Len(cmds) <= MaxIdle
    /\ pool \in {"run", "exited", "panicked"}
    /\ expected \in 0..(Word - 1)
    /\ ending \in [Endings -> Nat]
    /\ task \in [Conns -> Places]
    /\ pending \in [Conns -> Reqs \cup {None}]
    /\ msgId \in [Conns -> 1..MaxId]
    /\ wire \in [Conns -> Seq(Message)]
    /\ notes \in 0..MaxNotes
    /\ binds \in [Reqs -> Nat]

Init ==
    /\ caller = [r \in Reqs |-> "new"]
    /\ reply = [r \in Reqs |-> None]
    /\ retry = [r \in Reqs |-> TRUE]
    /\ cache = {} /\ handle = TRUE /\ exitSent = FALSE
    /\ queue = <<>> /\ cmds = <<>>
    /\ pool = "run" /\ expected = MinIdle
    /\ ending = [how \in Endings |-> 0]
    /\ task = [c \in Conns |-> "none"]
    /\ pending = [c \in Conns |-> None]
    /\ msgId = [c \in Conns |-> MaxId]
    /\ wire = [c \in Conns |-> <<>>]
    /\ notes = 0
    /\ binds = [r \in Reqs |-> 0]
---------------------------------------------------------------------------
(* The calls: LdapAuthPoolHandle::check_username_password. *)

Receivers == pool = "run" \/ \E c \in Conns : task[c] # "none"

(* try_send on the command channel: dropped when it is full or closed. *)
TrySend(cmd) ==
    cmds' = IF pool = "run" /\ Len(cmds) < MaxIdle THEN Append(cmds, cmd) ELSE cmds

Call(r) ==
    /\ caller[r] = "new" /\ handle
    /\ IF CredOf[r] \in cache
         THEN caller' = [caller EXCEPT ![r] = "ok"] /\ UNCHANGED cmds
         ELSE /\ caller' = [caller EXCEPT ![r] = "send"]
              /\ IF Len(queue) = QueueSize THEN TrySend("NeedMore") ELSE UNCHANGED cmds
    /\ UNCHANGED <<reply, retry, cache, handle, queue, exitSent, poolVars, ending, task, pending, connVars>>

(* req_sender.send(req).await: waits for room, fails when no receiver is left. *)
Enqueue(r) ==
    /\ caller[r] = "send"
    /\ \/ /\ Receivers /\ Len(queue) < QueueSize
          /\ queue' = Append(queue, r) /\ UNCHANGED reply
       \/ /\ ~Receivers
          /\ reply' = [reply EXCEPT ![r] = "dropped"] /\ UNCHANGED queue
    /\ caller' = [caller EXCEPT ![r] = "wait"]
    /\ UNCHANGED <<retry, cache, handle, cmds, exitSent, poolVars, ending, task, pending, connVars>>

Returned(r) ==
    /\ caller[r] = "wait" /\ reply[r] # None
    /\ caller' = [caller EXCEPT ![r] = CASE reply[r] = "some" -> "ok"
                                         [] reply[r] = "none" -> "mismatch"
                                         [] reply[r] = "dropped" -> "error"]
    /\ cache' = IF reply[r] = "some" THEN cache \cup {CredOf[r]} ELSE cache
    /\ reply' = [reply EXCEPT ![r] = None]
    /\ UNCHANGED <<retry, handle, queue, cmds, exitSent, poolVars, ending, task, pending, connVars>>

WaitTimeout(r) ==
    /\ caller[r] = "wait" /\ reply[r] = None
    /\ caller' = [caller EXCEPT ![r] = "timeout"]
    /\ UNCHANGED <<reply, retry, cache, handle, queue, cmds, exitSent, poolVars, ending, task, pending, connVars>>

(* A cached password expires, or its user leaves the LRU map. *)
CacheExpire(d) ==
    /\ d \in cache /\ cache' = cache \ {d}
    /\ UNCHANGED <<caller, reply, retry, handle, queue, cmds, exitSent, poolVars, ending, task, pending, connVars>>

(* The group is reloaded or removed.  Calls borrow the handle. *)
DropHandle ==
    /\ handle /\ \A r \in Reqs : caller[r] \notin {"send", "wait"}
    /\ handle' = FALSE
    /\ TrySend("Exit")
    /\ exitSent' = (cmds' # cmds)
    /\ UNCHANGED <<callVars, reply, retry, queue, poolVars, ending, task, pending, connVars>>

---------------------------------------------------------------------------
(* The pool task: LdapAuthPool::into_running. *)

FreeSlots == {c \in Conns : task[c] = "none"}

(* Added to by create_connection, subtracted from when run returns. *)
idle_conn_count == Cardinality(Conns \ FreeSlots)

(* n calls of create_connection. *)
create_connections(n) ==
    /\ n <= Cardinality(FreeSlots)
    /\ UNCHANGED ending
    /\ task' = [c \in Conns |-> IF c \in FreeSlots /\ Cardinality({d \in FreeSlots : d < c}) < n
                                  THEN "connect" ELSE task[c]]

NoMore == create_connections(0)

CmdExit == pool' = "exited" /\ UNCHANGED expected /\ NoMore

\* (mutant) a connection is opened whatever their number
CmdConnectionClosed_always ==
    UNCHANGED poolVars /\ create_connections(1)

CmdConnectionClosed ==
    /\ UNCHANGED poolVars
    /\ create_connections(IF idle_conn_count < expected THEN 1 ELSE 0)

CmdNeedMoreConnection ==
    /\ UNCHANGED pool
    /\ expected' = IF expected < MaxIdle THEN expected + 1 ELSE expected
    /\ create_connections(IF idle_conn_count < MaxIdle THEN 1 ELSE 0)

PoolCommand ==
    /\ pool = "run" /\ cmds # <<>>
    /\ \/ Head(cmds) = "Exit" /\ CmdExit
       \/ Head(cmds) = "failed" /\ UNCHANGED poolVars /\ NoMore
       \/ Head(cmds) = "closed" /\ CmdConnectionClosed
       \/ Head(cmds) = "NeedMore" /\ CmdNeedMoreConnection
    /\ cmds' = Tail(cmds)
    /\ UNCHANGED <<callVars, reply, retry, handle, queue, exitSent, pending, connVars>>

(* The new expected_idle_count of check, in usize arithmetic. *)
CheckExpected ==
    LET decrease == ((MinIdle - expected) % Word) \div 4
    IN  IF expected > MinIdle
          THEN (expected - (IF decrease > 0 THEN decrease ELSE 1)) % Word
          ELSE expected

\* (mutant) connections that ended are not replaced
check_no_refill ==
    /\ pool = "run" /\ expected' = CheckExpected
    /\ UNCHANGED <<pool, ending, task>>
    /\ UNCHANGED <<callVars, reply, retry, handle, queue, cmds, exitSent, pending, connVars>>

check ==
    /\ pool = "run" /\ ending["closed"] + ending["failed"] <= MaxEnding
    /\ IF OverflowChecks /\ expected > MinIdle
         THEN pool' = "panicked" /\ UNCHANGED expected /\ NoMore
         ELSE /\ UNCHANGED pool
              /\ expected' = CheckExpected
              /\ create_connections(IF idle_conn_count < expected' THEN expected' - idle_conn_count ELSE 0)
    /\ UNCHANGED <<callVars, reply, retry, handle, queue, cmds, exitSent, pending, connVars>>

---------------------------------------------------------------------------
(* A connection task: LdapAuthTask::run and run_with_stream. *)

taskOnly == <<callVars, handle, queue, cmds, exitSent, poolVars>>

(* oneshot::Sender::send, or its drop: lost when the call has timed out. *)
Settle(r, answer) ==
    /\ reply' = IF caller[r] = "wait" THEN [reply EXCEPT ![r] = answer] ELSE reply
    /\ retry' = [retry EXCEPT ![r] = TRUE]
    /\ binds' = [binds EXCEPT ![r] = 0]

(* The task ends; a request it still holds is settled by the given answer. *)
EndTask(c, how, answer) ==
    /\ task' = [task EXCEPT ![c] = "none"]
    /\ ending' = [ending EXCEPT ![how] = @ + 1]
    /\ IF pending[c] = None THEN UNCHANGED <<reply, retry, binds>> ELSE Settle(pending[c], answer)
    /\ pending' = [pending EXCEPT ![c] = None]
    /\ msgId' = [msgId EXCEPT ![c] = MaxId]
    /\ wire' = [wire EXCEPT ![c] = <<>>]

(* run_with_stream has returned; pending[c] is what the task still holds. *)
\* (mutant) a request is retried every time
StreamEnds_always_retries(c) ==
    IF pending[c] # None
      THEN /\ task' = [task EXCEPT ![c] = "connect"]
           /\ msgId' = [msgId EXCEPT ![c] = MaxId]
           /\ wire' = [wire EXCEPT ![c] = <<>>]
           /\ UNCHANGED <<ending, pending, reply, retry, binds>>
      ELSE EndTask(c, "closed", "dropped")

StreamEnds(c) ==
    IF pending[c] # None /\ retry[pending[c]]
      THEN /\ retry' = [retry EXCEPT ![pending[c]] = FALSE]
           /\ task' = [task EXCEPT ![c] = "connect"]
           /\ msgId' = [msgId EXCEPT ![c] = MaxId]
           /\ wire' = [wire EXCEPT ![c] = <<>>]
           /\ UNCHANGED <<ending, pending, reply, binds>>
      ELSE EndTask(c, "closed", "dropped")

ConnectOk(c) ==
    /\ task[c] = "connect"
    /\ task' = [task EXCEPT ![c] = "loop"]
    /\ binds' = IF pending[c] = None THEN binds ELSE [binds EXCEPT ![pending[c]] = @ + 1]
    /\ UNCHANGED <<taskOnly, reply, retry, ending, pending, msgId, wire, notes>>

ConnectFail(c) ==
    /\ task[c] = "connect"
    /\ EndTask(c, "failed", "dropped")
    /\ UNCHANGED <<taskOnly, notes>>

NextId(c) == IF msgId[c] = MaxId THEN 1 ELSE msgId[c] + 1

(* What the server puts on the wire for a bind: the verdict, an answer that *)
(* does not parse, or nothing.                                              *)
Answers(c, r) ==
    {<<>>, <<[id |-> NextId(c), body |-> "garbled"]>>,
     <<[id |-> NextId(c), body |-> IF CredOf[r] \in Valid THEN "ok" ELSE "refused"]>>}

SendBind(c) ==
    /\ task[c] = "loop" /\ pending[c] # None
    /\ msgId' = [msgId EXCEPT ![c] = NextId(c)]
    /\ \E a \in Answers(c, pending[c]) : wire' = [wire EXCEPT ![c] = @ \o a]
    /\ task' = [task EXCEPT ![c] = "await"]
    /\ UNCHANGED <<taskOnly, reply, retry, ending, pending, notes, binds>>

SendBindError(c) ==
    /\ task[c] = "loop" /\ pending[c] # None
    /\ StreamEnds(c)
    /\ UNCHANGED <<taskOnly, notes>>

(* The message is passed over; a pending request is sent again. *)
NextRound(c) ==
    /\ task' = [task EXCEPT ![c] = "loop"]
    /\ wire' = [wire EXCEPT ![c] = Tail(@)]
    /\ UNCHANGED <<ending, pending, reply, retry, msgId, binds>>

handle_response(c, body) ==
    IF body = "garbled"
      THEN EndTask(c, "closed", "dropped")
      ELSE /\ Settle(pending[c], IF body = "ok" THEN "some" ELSE "none")
           /\ pending' = [pending EXCEPT ![c] = None]
           /\ task' = [task EXCEPT ![c] = "loop"]
           /\ wire' = [wire EXCEPT ![c] = Tail(@)]
           /\ UNCHANGED <<ending, msgId>>

\* (mutant) the message id is not compared
RecvAwaited_any_id(c) ==
    LET m == Head(wire[c])
    IN  /\ task[c] = "await" /\ wire[c] # <<>>
        /\ \/ m.id = 0 /\ m.body = "notice" /\ NextRound(c)
           \/ m.id = 0 /\ m.body # "notice" /\ StreamEnds(c)
           \/ m.id # 0 /\ handle_response(c, m.body)
        /\ UNCHANGED <<taskOnly, notes>>

RecvAwaited(c) ==
    LET m == Head(wire[c])
    IN  /\ task[c] = "await" /\ wire[c] # <<>>
        /\ \/ m.id = 0 /\ m.body = "notice" /\ NextRound(c)
           \/ m.id = 0 /\ m.body # "notice" /\ StreamEnds(c)
           \/ m.id \notin {0, msgId[c]} /\ NextRound(c)
           \/ m.id = msgId[c] /\ handle_response(c, m.body)
        /\ UNCHANGED <<taskOnly, notes>>

(* The read fails: the server has closed the connection. *)
RecvError(c) ==
    /\ task[c] = "await"
    /\ StreamEnds(c)
    /\ UNCHANGED <<taskOnly, notes>>

(* A missing answer is passed on as a refusal. *)
ResponseTimeout(c) ==
    /\ task[c] = "await"
    /\ EndTask(c, "closed", "none")
    /\ UNCHANGED <<taskOnly, notes>>

(* The biased select of an idle connection. *)
IdleRequest(c) ==
    /\ task[c] = "loop" /\ pending[c] = None /\ queue # <<>>
    /\ pending' = [pending EXCEPT ![c] = Head(queue)]
    /\ queue' = Tail(queue)
    /\ binds' = [binds EXCEPT ![Head(queue)] = @ + 1]
    /\ UNCHANGED <<callVars, reply, retry, handle, cmds, exitSent, poolVars, ending, task, msgId, wire, notes>>

\* (mutant) a closed request queue is ignored
IdleNoSender_ignored(c) ==
    /\ task[c] = "loop" /\ pending[c] = None /\ queue = <<>> /\ ~handle
    /\ UNCHANGED vars

IdleNoSender(c) ==
    /\ task[c] = "loop" /\ pending[c] = None /\ queue = <<>> /\ ~handle
    /\ StreamEnds(c)
    /\ UNCHANGED <<taskOnly, notes>>

(* The idle timeout (the unbind is written or fails) or a closed connection. *)
IdleEnds(c) ==
    /\ task[c] = "loop" /\ pending[c] = None /\ queue = <<>> /\ handle
    /\ StreamEnds(c)
    /\ UNCHANGED <<taskOnly, notes>>

IdleMessage(c) ==
    LET m == Head(wire[c])
    IN  /\ task[c] = "loop" /\ pending[c] = None /\ queue = <<>> /\ handle
        /\ wire[c] # <<>>
        /\ \/ (m.id # 0 \/ m.body = "notice") /\ NextRound(c)
           \/ m.id = 0 /\ m.body # "notice" /\ StreamEnds(c)
        /\ UNCHANGED <<taskOnly, notes>>

(* The spawned future's last step: report to the pool, waiting for room. *)
ReportEnd(how) ==
    /\ ending[how] > 0 /\ ending' = [ending EXCEPT ![how] = @ - 1]
    /\ \/ /\ pool = "run" /\ Len(cmds) < MaxIdle
          /\ cmds' = Append(cmds, how)
       \/ pool # "run" /\ UNCHANGED cmds
    /\ UNCHANGED <<callVars, reply, retry, handle, queue, exitSent, poolVars, task, pending, connVars>>

(* The server sends an unsolicited notification. *)
ServerNotifies(c) ==
    /\ task[c] \in {"loop", "await"} /\ notes < MaxNotes
    /\ \E n \in Notes : wire' = [wire EXCEPT ![c] = Append(@, [id |-> 0, body |-> n])]
    /\ notes' = notes + 1
    /\ UNCHANGED <<taskOnly, reply, retry, ending, task, pending, msgId, binds>>

---------------------------------------------------------------------------
CallStep(r) == Call(r) \/ Enqueue(r) \/ Returned(r) \/ WaitTimeout(r)

Connect(c) == ConnectOk(c) \/ ConnectFail(c)

Online(c) ==
    \/ SendBind(c) \/ SendBindError(c)
    \/ RecvAwaited(c) \/ RecvError(c) \/ ResponseTimeout(c)
    \/ IdleRequest(c) \/ IdleNoSender(c) \/ IdleEnds(c) \/ IdleMessage(c)

Next ==
    \/ \E r \in Reqs : CallStep(r)
    \/ \E d \in Creds : CacheExpire(d)
    \/ DropHandle \/ PoolCommand \/ check
    \/ \E c \in Conns : Connect(c) \/ Online(c) \/ ServerNotifies(c)
    \/ \E how \in Endings : ReportEnd(how)

Spec == Init /\ [][Next]_vars

---------------------------------------------------------------------------
(* The pool never runs more connections than max_idle_count, whatever the  *)
(* order in which calls ask for more, connections end and the periodic     *)
(* check refills (into_running, check, create_connection).                 *)
IdleWithinMax == idle_conn_count <= MaxIdle

(* A call succeeds only for a pair the LDAP server accepts: the answer a   *)
(* connection hands to a request is the answer to that request, even after *)
(* notifications, resent binds and late answers on the same connection,    *)
(* and what the cache remembers is no more than that.                      *)
SuccessIsVerified == \A r \in Reqs : caller[r] = "ok" => CredOf[r] \in Valid

(* A request is given to at most two connections: the one that took it     *)
(* from the queue and, when that one breaks, one more (run's retry).       *)
RetriedOnce == \A r \in Reqs : binds[r] <= 2

(* The scheduling the runtime gives: every task that can run does, the     *)
(* check interval keeps ticking and a waiting call times out.  Connecting  *)
(* may fail each time, and the server need not answer.                     *)
Fairness ==
    /\ WF_vars(PoolCommand) /\ WF_vars(check)
    /\ \A c \in Conns : WF_vars(Connect(c) \/ Online(c))
    /\ WF_vars(\E how \in Endings : ReportEnd(how))
    /\ \A r \in Reqs : WF_vars(Enqueue(r) \/ Returned(r) \/ WaitTimeout(r))

FairSpec == Spec /\ Fairness

(* The pool never gives up.  While a call waits for room in the queue of   *)
(* check_username_password, with no timeout of its own, connections are    *)
(* opened or bind requests again and again, even when each one that is     *)
(* opened fails at once: ConnectFailed opens nothing, and the check of     *)
(* into_running has to bring the pool back.                                *)
KeepsTrying ==
    []<>(\/ \A r \in Reqs : caller[r] # "send"
         \/ \E c \in Conns : task[c] \in {"connect", "await"})

(* Once the Exit of LdapAuthPoolHandle::drop is in the command channel,    *)
(* the pool task and every connection task end.                            *)
EndsAfterExit == exitSent ~> (pool = "exited" /\ \A c \in Conns : task[c] = "none")
=============================================================================
