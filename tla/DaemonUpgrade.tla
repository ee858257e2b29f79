--------------------------- MODULE DaemonUpgrade ---------------------------
(***************************************************************************)
(* The hand-over between the processes of one daemon group (vey-daemon,     *)
(* control/{quit,upgrade,local}, and the main function of each daemon).     *)
(* A new process connects to the control socket of the group, asks the old  *)
(* process to release it, binds it itself, loads its servers, and then      *)
(* either confirms the shutdown of the old process or cancels it.  The      *)
(* quit loop of each process serves these calls together with the requests  *)
(* of init and of the operator, and falls back on a timeout when a new      *)
(* process is not heard of again.                                           *)
(***************************************************************************)
EXTENDS Naturals, Sequences, FiniteSets

CONSTANTS
    Procs,        \* the processes of the group, each started at most once
    First,        \* the one that serves in the initial state
    None,
    MaxRequests,  \* how many times init or the operator asks for something
    MaxCrashes    \* how many processes are killed

Calls == {"release", "confirm", "cancel"}

ASSUME UpgradeAssumption ==
    /\ First \in Procs /\ None \notin Procs \cup Calls
    /\ {MaxRequests, MaxCrashes} \subseteq Nat

VARIABLES
    main,      \* main[p]: where the main function of p is
    thread,    \* thread[p]: the thread that talks to the old process
    link,      \* link[p]: the process it is connected to
    call,      \* call[p]: what main[p] wants of the old process
    quit,      \* quit[p]: where the quit loop of p is
    chan,      \* chan[p]: the command channel of that loop
    closed,    \* closed[p]: trigger_force_shutdown has dropped its sender
    bound,     \* bound[p]: p has a running daemon controller
    path,      \* the socket file: its owner, and who takes it for their own
    told,      \* history: the processes with an order to stop that no later
               \* release or cancellation has overtaken
    requests, crashes,
    mishap     \* history: see below

vars == <<main, thread, link, call, quit, chan, closed, bound, path, told, requests, crashes, mishap>>

(* What the protocol has no answer to, and mishap remembers:                *)
(*   - a process starts while another one does;                             *)
(*   - a new process dies or fails without a word after its release call;   *)
(*   - the old process takes the control socket back before it has heard of *)
(*     the new one, after server_offline_delay or a cancel-shutdown command *)
(*     of the operator, or gets that command while the new one starts;      *)
(*   - it fails to bind the socket again;                                   *)
(*   - two control sockets are created within the same second.              *)

upgradeVars == <<main, thread, link, call>>
quitVars == <<quit, chan, closed>>
pathVars == <<bound, path>>
envVars == <<told, requests, crashes>>

Starting == {"config", "release", "bind", "load", "cancel"}
Threads == {"connect", "ready", "rpc", "end", "lost"}
Command == [cmd : {"start", "release", "cancel"}, from : Procs \cup {None}]
Free == [owner |-> None, mine |-> {}]

(* A process offers the service until start_shutdown stops its listeners.   *)
Up(p) == main[p] = "serve" /\ quit[p] \in {"outer", "stop", "handover"} /\ ~closed[p]
(* ... and goes on offering it when it has no order to stop.                *)
Stays(p) == Up(p) /\ p \notin told

(* A start is under way until the old process has the confirmation.         *)
Busy(p) == main[p] \in Starting \/ call[p] = "confirm"
AnyBusy == \E p \in Procs : Busy(p)

(* The end of p now would leave the old process without its word.           *)
Unheard(p) == Busy(p) /\ main[p] # "config"

Init ==
    /\ main = [p \in Procs |-> IF p = First THEN "serve" ELSE "none"]
    /\ thread = [p \in Procs |-> "end"] /\ link = [p \in Procs |-> None] /\ call = [p \in Procs |-> None]
    /\ quit = [p \in Procs |-> IF p = First THEN "outer" ELSE "off"]
    /\ chan = [p \in Procs |-> <<>>] /\ closed = [p \in Procs |-> FALSE]
    /\ bound = [p \in Procs |-> p = First] /\ path = [owner |-> First, mine |-> {First}]
    /\ told = {} /\ requests = 0 /\ crashes = 0 /\ mishap = FALSE

-----------------------------------------------------------------------------
(* The control socket.  create_daemon removes the file that is there and    *)
(* binds a new one; the drop of a controller removes the file only when its *)
(* change time, in seconds, is that of the file the controller created.     *)

create_daemon(p, disturbs) ==
    \E same \in SUBSET {q \in Procs : bound[q]} :
        /\ path' = [owner |-> p, mine |-> same \cup {p}]
        /\ bound' = [bound EXCEPT ![p] = TRUE]
        /\ mishap' = (mishap \/ disturbs \/ same # {})

(* (mutant) the drop removes whatever file is there *)
drop_controller_any(p) ==
    /\ path' = IF bound[p] THEN Free ELSE path
    /\ bound' = [bound EXCEPT ![p] = FALSE]

drop_controller(p) ==
    /\ path' = IF bound[p] /\ p \in path.mine THEN Free ELSE path
    /\ bound' = [bound EXCEPT ![p] = FALSE]

(* QuitLoop::resume_controller: nothing to do unless the controller is      *)
(* released; the bind may fail, then the controller stays released.  It is  *)
(* a mishap when a start is under way, other than that of the process which *)
(* asked for it.                                                            *)
resume_controller(p, from) ==
    \/ bound[p] /\ UNCHANGED <<pathVars, mishap>>
    \/ ~bound[p] /\ create_daemon(p, \E q \in Procs : q # from /\ Busy(q))
    \/ ~bound[p] /\ path' \in {path, Free} /\ mishap' = TRUE /\ UNCHANGED bound

-----------------------------------------------------------------------------
(* The replies to the calls in a set of commands, or the errors that their  *)
(* callers get when the channel is dropped.                                 *)

Callers(cmds) == {c.from : c \in cmds} \ {None}

Reply(ps) ==
    /\ thread' = [p \in Procs |-> IF p \notin ps THEN thread[p] ELSE IF call[p] = "release" THEN "ready" ELSE "end"]
    /\ call' = [p \in Procs |-> IF p \in ps THEN None ELSE call[p]]

Pending(p) == {chan[p][i] : i \in DOMAIN chan[p]}
Has(p, cmd) == \E i \in DOMAIN chan[p] : chan[p][i].cmd = cmd

(* The process p ends, with calls of others unanswered.                     *)
End(p) ==
    /\ main' = [main EXCEPT ![p] = "gone"]
    /\ LET ps == Callers(Pending(p)) IN
        /\ thread' = [q \in Procs |-> IF q = p THEN "end" ELSE IF q \notin ps THEN thread[q]
                                      ELSE IF call[q] = "release" THEN "ready" ELSE "end"]
        /\ call' = [q \in Procs |-> IF q \in ps \cup {p} THEN None ELSE call[q]]
    /\ quit' = [quit EXCEPT ![p] = "off"] /\ chan' = [chan EXCEPT ![p] = <<>>]
    /\ UNCHANGED <<link, closed, told, requests>>

-----------------------------------------------------------------------------
(* Init and the operator.                                                   *)

(* Type=exec: init takes a process for started once it runs, and may start  *)
(* the next one before it is ready: a mishap.                               *)
Start(p) ==
    /\ main[p] = "none" /\ mishap' = (mishap \/ AnyBusy)
    /\ main' = [main EXCEPT ![p] = "config"] /\ thread' = [thread EXCEPT ![p] = "connect"]
    /\ UNCHANGED <<link, call, quitVars, pathVars, envVars>>

(* A request to a process whose quit loop runs, from before it loads.       *)
Asked(p) ==
    /\ quit[p] \notin {"off", "done"} /\ ~closed[p]
    /\ requests < MaxRequests /\ requests' = requests + 1

(* SIGTERM, or the offline command of the operator or of ExecStop.          *)
Offline(p) ==
    /\ Asked(p)
    /\ chan' = [chan EXCEPT ![p] = Append(@, [cmd |-> "start", from |-> None])]
    /\ told' = told \cup {p}
    /\ UNCHANGED <<upgradeVars, quit, closed, pathVars, crashes, mishap>>

(* The cancel-shutdown command of the operator: a mishap when another       *)
(* process is starting.                                                     *)
CancelShutdown(p) ==
    /\ Asked(p) /\ mishap' = (mishap \/ \E q \in Procs \ {p} : Busy(q))
    /\ chan' = [chan EXCEPT ![p] = Append(@, [cmd |-> "cancel", from |-> None])]
    /\ UNCHANGED <<upgradeVars, quit, closed, pathVars, told, crashes>>

(* SIGINT or SIGQUIT, or the panic hook.                                    *)
trigger_force_shutdown(p) ==
    /\ Asked(p) /\ closed' = [closed EXCEPT ![p] = TRUE]
    /\ told' = told \cup {p}
    /\ UNCHANGED <<upgradeVars, quit, chan, pathVars, crashes, mishap>>

Crash(p) ==
    /\ main[p] \in Starting \cup {"serve"} /\ crashes < MaxCrashes
    /\ End(p) /\ bound' = [bound EXCEPT ![p] = FALSE]
    /\ crashes' = crashes + 1 /\ mishap' = (mishap \/ Unheard(p))
    /\ UNCHANGED path

-----------------------------------------------------------------------------
(* The thread that connect_to_old_daemon starts.                            *)

(* (mutant) a failed connect leaves the messages of main unanswered *)
connect_rpc_waits(p) ==
    /\ thread[p] = "connect" /\ path.owner # None /\ bound[path.owner]
    /\ link' = [link EXCEPT ![p] = path.owner] /\ thread' = [thread EXCEPT ![p] = "ready"]
    /\ UNCHANGED <<main, call, quitVars, pathVars, envVars, mishap>>

connect_rpc(p) ==
    /\ thread[p] = "connect"
    /\ \/ /\ path.owner # None /\ bound[path.owner]
          /\ link' = [link EXCEPT ![p] = path.owner] /\ thread' = [thread EXCEPT ![p] = "ready"]
          /\ UNCHANGED call
       \/ /\ ~(path.owner # None /\ bound[path.owner])
          /\ thread' = [thread EXCEPT ![p] = "end"] /\ call' = [call EXCEPT ![p] = None]
          /\ UNCHANGED link
    /\ UNCHANGED <<main, quitVars, pathVars, envVars, mishap>>

(* (mutant) the thread returns after the release, and takes no confirmation *)
connect_run_once(p) ==
    /\ call[p] # "confirm"
    /\ thread[p] = "ready" /\ call[p] # None
    /\ LET o == link[p]
           open == main[o] # "gone" /\ quit[o] \notin {"off", "done"} /\ ~closed[o]
           cmd == IF call[p] = "confirm" THEN "start" ELSE call[p] IN
        /\ chan' = IF open THEN [chan EXCEPT ![o] = Append(@, [cmd |-> cmd, from |-> IF cmd = "start" THEN None ELSE p])] ELSE chan
        /\ IF open /\ cmd # "start"
           THEN thread' = [thread EXCEPT ![p] = "rpc"] /\ UNCHANGED call
           ELSE Reply({p})
        /\ told' = IF open /\ cmd = "start" THEN told \cup {o} ELSE told
    /\ UNCHANGED <<main, link, quit, closed, pathVars, requests, crashes, mishap>>

(* connect_run: pass the next message on to the old process.  The call      *)
(* fails at once when that has ended or its quit channel is closed.         *)
connect_run(p) ==
    /\ thread[p] = "ready" /\ call[p] # None
    /\ LET o == link[p]
           open == main[o] # "gone" /\ quit[o] \notin {"off", "done"} /\ ~closed[o]
           cmd == IF call[p] = "confirm" THEN "start" ELSE call[p] IN
        /\ chan' = IF open THEN [chan EXCEPT ![o] = Append(@, [cmd |-> cmd, from |-> IF cmd = "start" THEN None ELSE p])] ELSE chan
        /\ IF open /\ cmd # "start"
           THEN thread' = [thread EXCEPT ![p] = "rpc"] /\ UNCHANGED call
           ELSE Reply({p})
        /\ told' = IF open /\ cmd = "start" THEN told \cup {o} ELSE told
    /\ UNCHANGED <<main, link, quit, closed, pathVars, requests, crashes, mishap>>

-----------------------------------------------------------------------------
(* The main function of a new process.                                      *)

Ask(p, c) == call' = [call EXCEPT ![p] = IF thread[p] = "end" THEN None ELSE c]

(* The configuration is loaded.  With -d the process forks then, and only   *)
(* the main thread lives on: the message channel stays open, and nobody     *)
(* reads from it.                                                           *)
ConfigLoad(p) ==
    /\ main[p] = "config"
    /\ \/ main' = [main EXCEPT ![p] = "release"] /\ Ask(p, "release") /\ UNCHANGED thread
       \/ /\ main' = [main EXCEPT ![p] = "release"] /\ Ask(p, "release")
          /\ thread[p] # "end" /\ thread' = [thread EXCEPT ![p] = "lost"]
       \/ main' = [main EXCEPT ![p] = "cancel"] /\ Ask(p, "cancel") /\ UNCHANGED thread
    /\ UNCHANGED <<link, quitVars, pathVars, envVars, mishap>>

(* The errors that end main without cancel_old_shutdown: of the threads and *)
(* the unique controller before the release, of the daemon controller and   *)
(* the signal handlers after it.                                            *)
StartFails(p) ==
    /\ main[p] \in {"config", "bind", "load"}
    /\ End(p) /\ drop_controller(p)
    /\ mishap' = (mishap \/ Unheard(p))
    /\ UNCHANGED crashes

release_old_controller(p) ==
    /\ main[p] = "release" /\ call[p] = None
    /\ main' = [main EXCEPT ![p] = "bind"]
    /\ UNCHANGED <<thread, link, call, quitVars, pathVars, envVars, mishap>>

start_daemon(p) ==
    /\ main[p] = "bind" /\ create_daemon(p, FALSE)
    /\ main' = [main EXCEPT ![p] = "load"] /\ quit' = [quit EXCEPT ![p] = "outer"]
    /\ UNCHANGED <<thread, link, call, chan, closed, envVars>>

(* (mutant) finish is not called *)
load_and_spawn_unfinished(p) ==
    /\ main[p] = "load"
    /\ \/ main' = [main EXCEPT ![p] = "serve"] /\ UNCHANGED call
       \/ main' = [main EXCEPT ![p] = "cancel"] /\ Ask(p, "cancel")
    /\ UNCHANGED <<thread, link, quitVars, pathVars, envVars, mishap>>

load_and_spawn(p) ==
    /\ main[p] = "load"
    /\ \/ main' = [main EXCEPT ![p] = "serve"] /\ Ask(p, "confirm")
       \/ main' = [main EXCEPT ![p] = "cancel"] /\ Ask(p, "cancel")
    /\ UNCHANGED <<thread, link, quitVars, pathVars, envVars, mishap>>

(* cancel_old_shutdown has joined the thread, and main returns the error:   *)
(* the runtime drops the daemon controller.                                 *)
ExitFailed(p) ==
    /\ main[p] = "cancel" /\ call[p] = None
    /\ End(p) /\ drop_controller(p)
    /\ UNCHANGED <<crashes, mishap>>

(* shutdown has ended the unique controller, which main waits for.          *)
ExitDone(p) ==
    /\ main[p] = "serve" /\ quit[p] = "done"
    /\ End(p) /\ drop_controller(p)
    /\ mishap' = (mishap \/ Unheard(p))
    /\ UNCHANGED crashes

-----------------------------------------------------------------------------
(* The quit loop.  It is in "outer" before any command, in "stop" after a   *)
(* request to stop that came from init, in "handover" once it has released  *)
(* the controller for a new process, in "drain" in graceful_shutdown.       *)

Recv(p, cmd) == quit[p] \notin {"off", "done"} /\ chan[p] # <<>> /\ Head(chan[p]).cmd = cmd

Handled(p, state) ==
    /\ quit' = [quit EXCEPT ![p] = state]
    /\ chan' = [chan EXCEPT ![p] = Tail(@)]
    /\ Reply(Callers({Head(chan[p])}))
    /\ UNCHANGED <<main, link, closed, requests, crashes>>

(* The release and the cancellation overtake the orders handled before.     *)
Overtake(p) ==
    told' = IF quit[p] = "drain" \/ closed[p] \/ \E i \in 2 .. Len(chan[p]) : chan[p][i].cmd = "start"
            THEN told ELSE told \ {p}

StartGracefulShutdown(p) ==
    /\ Recv(p, "start")
    /\ Handled(p, IF quit[p] \in {"outer", "stop"} THEN "stop" ELSE "drain")
    /\ UNCHANGED <<pathVars, told, mishap>>

ReleaseController(p) ==
    /\ Recv(p, "release")
    /\ Handled(p, IF quit[p] = "drain" THEN "drain" ELSE "handover") /\ Overtake(p)
    /\ IF quit[p] \in {"outer", "stop"} THEN drop_controller(p) ELSE UNCHANGED pathVars
    /\ UNCHANGED mishap

CancelGracefulShutdown(p) ==
    /\ Recv(p, "cancel")
    /\ Handled(p, IF quit[p] = "drain" THEN "drain" ELSE "outer") /\ Overtake(p)
    /\ IF quit[p] \in {"stop", "handover"} THEN resume_controller(p, Head(chan[p]).from) ELSE UNCHANGED <<pathVars, mishap>>

(* (mutant) the timeout stops the process even after the release *)
OfflineTimeout_stops(p) ==
    /\ quit[p] \in {"stop", "handover"} /\ chan[p] = <<>> /\ ~closed[p]
    /\ quit' = [quit EXCEPT ![p] = "drain"] /\ drop_controller(p)
    /\ UNCHANGED <<upgradeVars, chan, closed, envVars, mishap>>

(* server_offline_delay has passed since the last command, and recv, which  *)
(* timeout polls first, has nothing to return.                              *)
OfflineTimeout(p) ==
    /\ quit[p] \in {"stop", "handover"} /\ chan[p] = <<>> /\ ~closed[p]
    /\ \/ quit[p] = "stop" /\ quit' = [quit EXCEPT ![p] = "drain"] /\ drop_controller(p) /\ UNCHANGED mishap
       \/ quit[p] = "handover" /\ quit' = [quit EXCEPT ![p] = "outer"] /\ resume_controller(p, None)
    /\ UNCHANGED <<upgradeVars, chan, closed, envVars>>

(* recv returns None when the sender is dropped and the channel is empty:   *)
(* start_shutdown and shutdown follow at once.                              *)
ForceShutdown(p) ==
    /\ closed[p] /\ chan[p] = <<>> /\ quit[p] \in {"outer", "stop", "handover", "drain"}
    /\ quit' = [quit EXCEPT ![p] = "done"] /\ drop_controller(p)
    /\ UNCHANGED <<upgradeVars, chan, closed, envVars, mishap>>

(* wait_graceful_shutdown: the tasks have ended, or were waited for long    *)
(* enough.                                                                  *)
graceful_shutdown(p) ==
    /\ quit[p] = "drain" /\ quit' = [quit EXCEPT ![p] = "done"]
    /\ UNCHANGED <<upgradeVars, chan, closed, pathVars, envVars, mishap>>

-----------------------------------------------------------------------------
QuitLoop(p) ==
    StartGracefulShutdown(p) \/ ReleaseController(p) \/ CancelGracefulShutdown(p) \/ ForceShutdown(p)

Upgrade(p) ==
    \/ connect_rpc(p) \/ connect_run(p) \/ ConfigLoad(p) \/ StartFails(p) \/ release_old_controller(p)
    \/ start_daemon(p) \/ load_and_spawn(p) \/ ExitFailed(p) \/ ExitDone(p)

Environment(p) == Start(p) \/ Offline(p) \/ CancelShutdown(p) \/ trigger_force_shutdown(p) \/ Crash(p)

Next == \E p \in Procs : QuitLoop(p) \/ OfflineTimeout(p) \/ graceful_shutdown(p) \/ Upgrade(p) \/ Environment(p)

Spec == Init /\ [][Next]_vars

(* Threads run, timers fire and graceful shutdown ends by its own timeout:  *)
(* as long as one of them has something to do, one of them does it.         *)
Progress == \E p \in Procs : QuitLoop(p) \/ OfflineTimeout(p) \/ graceful_shutdown(p) \/ Upgrade(p)

FairSpec == Spec /\ WF_vars(Progress)

-----------------------------------------------------------------------------
TypeOK ==
    /\ main \in [Procs -> Starting \cup {"none", "serve", "gone"}]
    /\ thread \in [Procs -> Threads]
    /\ link \in [Procs -> Procs \cup {None}] /\ call \in [Procs -> Calls \cup {None}]
    /\ quit \in [Procs -> {"off", "outer", "stop", "handover", "drain", "done"}]
    /\ chan \in [Procs -> Seq(Command)]
    /\ closed \in [Procs -> BOOLEAN] /\ bound \in [Procs -> BOOLEAN]
    /\ path \in [owner : Procs \cup {None}, mine : SUBSET Procs]
    /\ told \subseteq Procs \cup {None} /\ mishap \in BOOLEAN /\ requests \in 0 .. MaxRequests /\ crashes \in 0 .. MaxCrashes

(* A process that serves and has no order to stop offers the service: it is *)
(* up, and goes on to be, however many starts of others fail, die or are    *)
(* cancelled, also when the order of init that began a restart was followed *)
(* by the release or the cancellation of a new process.                     *)
NoOutage == \A p \in Procs : main[p] = "serve" /\ p \notin told => Up(p)

(* A process that shuts down has released the daemon controller before.     *)
ReleasedFirst == \A p \in Procs : quit[p] \in {"drain", "done"} => ~bound[p]

(* The control socket leads to each process that serves and has not         *)
(* released its controller (so there is one such process at most), when no  *)
(* start so far met a mishap.                                               *)
ControllerReachable == ~mishap => \A p \in Procs : Up(p) /\ bound[p] => path.owner = p

(* At most one process serves without an order to stop, when no process is *)
(* starting and no start so far met a mishap.                               *)
OneServes == (~AnyBusy /\ ~mishap) => \A p, q \in Procs : Stays(p) /\ Stays(q) => p = q

(* Every process that starts gets to serve or ends, unless it has forked.   *)
StartSettles == <>[](\A p \in Procs : main[p] \in Starting => thread[p] = "lost")

(* Every process with an order to stop, from init or by the confirmation of *)
(* a new process, which is passed on in the end, stops its service.         *)
OldDrains == <>[](\A p \in Procs : call[p] # "confirm" /\ ~(Up(p) /\ p \in told))
=============================================================================
