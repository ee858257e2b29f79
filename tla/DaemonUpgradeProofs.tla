------------------------ MODULE DaemonUpgradeProofs ------------------------
(***************************************************************************)
(* Theorems about DaemonUpgrade, for any set of processes and any number of *)
(* requests and crashes, whatever mishaps occur: a process without an order *)
(* to stop goes on serving, and one that shuts down has released its        *)
(* controller.  DaemonHandoverProofs goes on from here.                     *)
(***************************************************************************)
EXTENDS DaemonUpgrade, TLAPS

(* What main waits for is what its place in the start calls for.            *)
CallsMatch ==
    \A p \in Procs :
        \/ call[p] = None
        \/ call[p] = "release" /\ main[p] = "release"
        \/ call[p] = "cancel" /\ main[p] = "cancel"
        \/ call[p] = "confirm" /\ main[p] = "serve"

(* Before a process binds its controller, nobody has reached its quit loop; *)
(* it is then that it connects, so never to itself.  A process whose thread *)
(* is lost waits for its release.                                           *)
Early(p) == main[p] \in {"none", "config", "release", "bind"} \/ thread[p] = "connect"
EarlyUntouched ==
    \A p \in Procs :
        /\ link[p] # p
        /\ Early(p) => quit[p] = "off" /\ ~bound[p] /\ chan[p] = <<>> /\ ~closed[p]
        /\ thread[p] = "connect" => main[p] \in {"config", "release", "cancel"}
        /\ thread[p] = "connect" /\ main[p] = "release" => call[p] = "release"
        /\ thread[p] = "lost" => main[p] = "release" /\ call[p] = "release"

HasCmd(s, cmd) == \E i \in DOMAIN s : s[i].cmd = cmd

(* A process without an order to stop has none in its channel and has not   *)
(* begun to obey one; the quit loop of a process that loads or serves runs. *)
Unordered(p) ==
    /\ p \notin told => ~closed[p] /\ ~HasCmd(chan[p], "start") /\ quit[p] \in {"off", "outer", "handover"}
    /\ main[p] \in {"load", "serve"} => quit[p] # "off"
OrderInv == \A p \in Procs : Unordered(p)

-----------------------------------------------------------------------------
(* Command channels: what Append and Tail do to the pending commands.       *)

(* A command sent to the quit loop (send_command) joins those that pend.    *)
LEMMA AppendCommand ==
    ASSUME NEW s \in Seq(Command), NEW e \in Command
    PROVE  /\ Append(s, e) \in Seq(Command)
           /\ \A c : HasCmd(Append(s, e), c) => HasCmd(s, c) \/ e.cmd = c
<1>1. Append(s, e) \in Seq(Command)
  OBVIOUS
<1>2. \A i \in DOMAIN Append(s, e) : (i \in DOMAIN s /\ Append(s, e)[i] = s[i]) \/ Append(s, e)[i] = e
  OBVIOUS
<1> QED
  BY Zenon, <1>1, <1>2 DEF HasCmd

(* A command that the quit loop takes (msg_receiver.recv) leaves the rest.  *)
LEMMA TailCommand ==
    ASSUME NEW s \in Seq(Command), s # <<>>
    PROVE  /\ Tail(s) \in Seq(Command) /\ Head(s) \in Command
           /\ HasCmd(s, Head(s).cmd)
           /\ \A c : HasCmd(Tail(s), c) => HasCmd(s, c)
           /\ \A c : HasCmd(Tail(s), c) => \E i \in 2 .. Len(s) : s[i].cmd = c
<1>1. Tail(s) \in Seq(Command) /\ Head(s) \in Command /\ 1 \in DOMAIN s /\ Head(s) = s[1]
  OBVIOUS
<1>2. \A i \in DOMAIN Tail(s) : i + 1 \in DOMAIN s /\ i + 1 \in 2 .. Len(s) /\ Tail(s)[i] = s[i + 1]
  OBVIOUS
<1> QED
  BY Zenon, <1>1, <1>2 DEF HasCmd

-----------------------------------------------------------------------------
(* The state keeps its type.  End and Handled are what several actions do;  *)
(* as far as calls go, they only answer some.                               *)

OnlyAnswers ==
    \A q \in Procs :
        /\ call'[q] = call[q] \/ call'[q] = None
        /\ thread'[q] \in {"connect", "lost"} => thread'[q] = thread[q] /\ call'[q] = call[q]

(* The end of a process leaves its calls and its quit loop of their types.  *)
LEMMA EndType == ASSUME NEW p \in Procs, TypeOK, End(p)
    PROVE /\ main' = [main EXCEPT ![p] = "gone"] /\ quit' = [quit EXCEPT ![p] = "off"] /\ chan' = [chan EXCEPT ![p] = <<>>]
          /\ thread' \in [Procs -> Threads] /\ call' \in [Procs -> Calls \cup {None}]
          /\ chan' \in [Procs -> Seq(Command)]
          /\ OnlyAnswers
          /\ thread'[p] = "end" /\ call'[p] = None
          /\ told' = told
<1>1. /\ main' = [main EXCEPT ![p] = "gone"] /\ quit' = [quit EXCEPT ![p] = "off"] /\ chan' = [chan EXCEPT ![p] = <<>>]
  BY Zenon DEF End
<1>2. told' = told
  BY Zenon DEF End
<1>3. chan' \in [Procs -> Seq(Command)]
  BY <1>1 DEF TypeOK
<1> DEFINE ps == Callers(Pending(p))
<1>4. /\ thread' = [q \in Procs |-> IF q = p THEN "end" ELSE IF q \notin ps THEN thread[q]
                                      ELSE IF call[q] = "release" THEN "ready" ELSE "end"]
      /\ call' = [q \in Procs |-> IF q \in ps \cup {p} THEN None ELSE call[q]]
  BY Zenon DEF End
<1> HIDE DEF ps
<1> QED
  BY Zenon, <1>1, <1>2, <1>3, <1>4 DEF TypeOK, OnlyAnswers, Threads

(* The answer to a call, finish_sender.send, has the thread go on or end.   *)
LEMMA ReplyType == ASSUME NEW ps, TypeOK, Reply(ps)
    PROVE /\ thread' \in [Procs -> Threads] /\ call' \in [Procs -> Calls \cup {None}]
          /\ OnlyAnswers
          /\ \A q \in Procs : q \in ps => call'[q] = None
  BY Zenon DEF TypeOK, Reply, OnlyAnswers, Threads

(* A command that the quit loop has handled leaves the channel and the      *)
(* callers of their types.                                                  *)
LEMMA HandledType == ASSUME NEW p \in Procs, NEW cmd, NEW st, TypeOK, Recv(p, cmd), Handled(p, st)
    PROVE /\ thread' \in [Procs -> Threads] /\ call' \in [Procs -> Calls \cup {None}]
          /\ OnlyAnswers
          /\ chan' \in [Procs -> Seq(Command)]
<1>1. chan[p] \in Seq(Command) /\ chan[p] # <<>>
  BY Zenon DEF TypeOK, Recv
<1>2. Tail(chan[p]) \in Seq(Command)
  BY Zenon, <1>1, TailCommand
<1> QED
  BY Zenon, <1>2, ReplyType DEF TypeOK, Handled

(* A message that connect_run passes on becomes a command of the old        *)
(* process.                                                                 *)
LEMMA ConnectRunType == ASSUME NEW p \in Procs, TypeOK, connect_run(p)
    PROVE /\ thread' \in [Procs -> Threads] /\ call' \in [Procs -> Calls \cup {None}]
          /\ OnlyAnswers
          /\ chan' \in [Procs -> Seq(Command)]
          /\ \A q \in Procs : link[p] # q => chan'[q] = chan[q]
          /\ \A q \in Procs : chan'[q] = chan[q] \/ \E e \in Command : chan'[q] = Append(chan[q], e) /\ (e.cmd = "start" <=> call[p] = "confirm")
          /\ call[p] = "confirm" => call'[p] = None
<1> DEFINE o == link[p]
           cmd == IF call[p] = "confirm" THEN "start" ELSE call[p]
           e == [cmd |-> cmd, from |-> IF cmd = "start" THEN None ELSE p]
<1>1. e \in Command /\ (e.cmd = "start" <=> call[p] = "confirm")
  BY Zenon, UpgradeAssumption DEF TypeOK, Command, Calls, connect_run
<1>2. chan' = chan \/ chan' = [chan EXCEPT ![o] = Append(@, e)]
  BY Zenon DEF connect_run
<1>3. \A q \in Procs : Append(chan[q], e) \in Seq(Command)
  BY Zenon, <1>1, AppendCommand DEF TypeOK
<1> HIDE DEF e
<1>4. chan' \in [Procs -> Seq(Command)]
  <2>1. chan \in [Procs -> Seq(Command)]
    BY Zenon DEF TypeOK
  <2>2. CASE chan' = [chan EXCEPT ![o] = Append(@, e)]
    <3>1. chan' = [q \in Procs |-> IF q = o THEN Append(chan[q], e) ELSE chan[q]]
      BY Zenon, <2>1, <2>2
    <3> QED
      BY Zenon, <2>1, <3>1, <1>3
  <2> QED
    BY Zenon, <1>2, <2>1, <2>2
<1>5. \A q \in Procs : link[p] # q => chan'[q] = chan[q]
  BY Zenon, <1>2 DEF TypeOK
<1>6. \A q \in Procs : chan'[q] = chan[q] \/ chan'[q] = Append(chan[q], e)
  BY <1>2 DEF TypeOK
<1>7. \/ thread' = [thread EXCEPT ![p] = "rpc"] /\ call' = call /\ call[p] # "confirm"
      \/ Reply({p})
  BY Zenon DEF connect_run
<1>8. CASE thread' = [thread EXCEPT ![p] = "rpc"] /\ call' = call /\ call[p] # "confirm"
  BY Zenon, <1>1, <1>4, <1>5, <1>6, <1>8 DEF TypeOK, OnlyAnswers, Threads
<1>9. CASE Reply({p})
  BY Zenon, <1>1, <1>4, <1>5, <1>6, <1>9, ReplyType
<1> QED
  BY Zenon, <1>7, <1>8, <1>9

(* The initial state has its type, and every step keeps it.                 *)
LEMMA TypeInit == Init => TypeOK
<1> SUFFICES ASSUME Init PROVE TypeOK
  OBVIOUS
<1>1. bound \in [Procs -> BOOLEAN] /\ closed \in [Procs -> BOOLEAN] /\ told \subseteq Procs \cup {None} /\ mishap \in BOOLEAN
  BY Zenon DEF Init
<1>2. \A p \in Procs : <<>> \in Seq(Command)
  OBVIOUS
<1>3. chan \in [Procs -> Seq(Command)]
  BY Zenon, <1>2 DEF Init
<1>4. path \in [owner : Procs \cup {None}, mine : SUBSET Procs] /\ requests \in 0 .. MaxRequests /\ crashes \in 0 .. MaxCrashes
  BY UpgradeAssumption DEF Init
<1>5. /\ main \in [Procs -> Starting \cup {"none", "serve", "gone"}]
      /\ thread \in [Procs -> Threads]
      /\ link \in [Procs -> Procs \cup {None}] /\ call \in [Procs -> Calls \cup {None}]
      /\ quit \in [Procs -> {"off", "outer", "stop", "handover", "drain", "done"}]
  BY Zenon DEF Init, Starting, Threads
<1> QED
  BY Zenon, <1>1, <1>3, <1>4, <1>5 DEF TypeOK

(* No step of a process, of init or of the operator leaves the types.       *)
LEMMA TypeStep == TypeOK /\ [Next]_vars => TypeOK'
<1> SUFFICES ASSUME TypeOK, [Next]_vars PROVE TypeOK'
  OBVIOUS
<1> USE UpgradeAssumption
<1>1. ASSUME NEW p \in Procs, drop_controller(p)
      PROVE  bound' \in [Procs -> BOOLEAN] /\ path' \in [owner : Procs \cup {None}, mine : SUBSET Procs]
  BY Zenon, <1>1 DEF TypeOK, drop_controller, Free
<1>2. ASSUME NEW p \in Procs, NEW d \in BOOLEAN, create_daemon(p, d)
      PROVE  /\ bound' \in [Procs -> BOOLEAN] /\ path' \in [owner : Procs \cup {None}, mine : SUBSET Procs]
             /\ mishap' \in BOOLEAN
  BY <1>2 DEF TypeOK, create_daemon
<1>3. ASSUME NEW p \in Procs, NEW from, resume_controller(p, from)
      PROVE  /\ bound' \in [Procs -> BOOLEAN] /\ path' \in [owner : Procs \cup {None}, mine : SUBSET Procs]
             /\ mishap' \in BOOLEAN
  <2>1. CASE bound[p] /\ UNCHANGED <<pathVars, mishap>>
    BY Zenon, <2>1 DEF TypeOK, pathVars
  <2>2. CASE create_daemon(p, \E q \in Procs : q # from /\ Busy(q))
    BY Zenon, <2>2, <1>2
  <2>3. CASE path' \in {path, Free} /\ mishap' = TRUE /\ UNCHANGED bound
    BY <2>3 DEF TypeOK, Free
  <2> QED
    BY <1>3, <2>1, <2>2, <2>3, Zenon DEF resume_controller
<1>4. ASSUME NEW p \in Procs, QuitLoop(p) PROVE TypeOK'
  <2>0. ASSUME Overtake(p) PROVE told' \subseteq Procs \cup {None}
    BY Zenon, <2>0 DEF Overtake, TypeOK
  <2>1. CASE StartGracefulShutdown(p)
    BY Zenon, <2>1, HandledType DEF TypeOK, StartGracefulShutdown, Handled, pathVars
  <2>2. CASE ReleaseController(p)
    BY Zenon, <2>0, <2>2, <1>1, HandledType DEF TypeOK, ReleaseController, Handled, pathVars
  <2>3. CASE CancelGracefulShutdown(p)
    BY Zenon, <2>0, <2>3, <1>3, HandledType DEF TypeOK, CancelGracefulShutdown, Handled, pathVars
  <2>4. CASE ForceShutdown(p)
    BY Zenon, <2>4, <1>1 DEF TypeOK, ForceShutdown, upgradeVars, envVars
  <2> QED
    BY Zenon, <1>4, <2>1, <2>2, <2>3, <2>4 DEF QuitLoop
<1>5. ASSUME NEW p \in Procs, OfflineTimeout(p) PROVE TypeOK'
  <2>1. CASE quit' = [quit EXCEPT ![p] = "drain"] /\ drop_controller(p) /\ UNCHANGED mishap
    BY <1>5, <2>1, <1>1 DEF TypeOK, OfflineTimeout, upgradeVars, envVars
  <2>2. CASE quit' = [quit EXCEPT ![p] = "outer"] /\ resume_controller(p, None)
    BY <1>5, <2>2, <1>3 DEF TypeOK, OfflineTimeout, upgradeVars, envVars
  <2> QED
    BY <1>5, <2>1, <2>2, Zenon DEF OfflineTimeout
<1>6. ASSUME NEW p \in Procs, graceful_shutdown(p) PROVE TypeOK'
  BY <1>6 DEF TypeOK, graceful_shutdown, upgradeVars, pathVars, envVars
<1>7. ASSUME NEW p \in Procs, Upgrade(p) PROVE TypeOK'
  <2>1. CASE connect_rpc(p)
    <3>1. UNCHANGED <<main, quit, chan, closed, bound, path, told, requests, crashes, mishap>>
      BY Zenon, <2>1 DEF connect_rpc, quitVars, pathVars, envVars
    <3>2. CASE path.owner # None /\ call' = call
               /\ link' = [link EXCEPT ![p] = path.owner] /\ thread' = [thread EXCEPT ![p] = "ready"]
      <4>1. link' \in [Procs -> Procs \cup {None}] /\ thread' \in [Procs -> Threads]
        BY Zenon, <3>2 DEF TypeOK, Threads
      <4> QED
        BY Zenon, <3>1, <3>2, <4>1 DEF TypeOK
    <3>3. CASE link' = link /\ thread' = [thread EXCEPT ![p] = "end"] /\ call' = [call EXCEPT ![p] = None]
      <4>1. call' \in [Procs -> Calls \cup {None}] /\ thread' \in [Procs -> Threads]
        BY Zenon, <3>3 DEF TypeOK, Threads
      <4> QED
        BY Zenon, <3>1, <3>3, <4>1 DEF TypeOK
    <3> QED
      BY <2>1, <3>2, <3>3, Zenon DEF connect_rpc
  <2>2. CASE connect_run(p)
    <3>1. told' \subseteq Procs \cup {None}
      BY <2>2 DEF connect_run, TypeOK
    <3> QED
      BY Zenon, <2>2, <3>1, ConnectRunType DEF TypeOK, connect_run, pathVars
  <2>3. CASE ConfigLoad(p)
    <3>1. call' \in [Procs -> Calls \cup {None}]
      <4>1. \E c \in Calls \cup {None} : call' = [call EXCEPT ![p] = c]
        BY Zenon, <2>3 DEF ConfigLoad, Ask, Calls
      <4> QED
        BY <4>1 DEF TypeOK
    <3>2. main' \in [Procs -> Starting \cup {"none", "serve", "gone"}]
      <4>1. main' = [main EXCEPT ![p] = "release"] \/ main' = [main EXCEPT ![p] = "cancel"]
        BY <2>3, Zenon DEF ConfigLoad
      <4> QED
        BY Zenon, <4>1 DEF TypeOK, Starting
    <3>3. thread' \in [Procs -> Threads]
      <4>1. thread' = thread \/ thread' = [thread EXCEPT ![p] = "lost"]
        BY <2>3, Zenon DEF ConfigLoad
      <4> QED
        BY Zenon, <4>1 DEF TypeOK, Threads
    <3> QED
      BY Zenon, <2>3, <3>1, <3>2, <3>3 DEF TypeOK, ConfigLoad, quitVars, pathVars, envVars
  <2>4. CASE StartFails(p)
    BY Zenon, <2>4, <1>1, EndType DEF TypeOK, StartFails, End
  <2>5. CASE release_old_controller(p)
    BY Zenon, <2>5 DEF TypeOK, release_old_controller, Starting, quitVars, pathVars, envVars
  <2>6. CASE start_daemon(p)
    BY Zenon, <2>6, <1>2 DEF TypeOK, start_daemon, Starting, envVars
  <2>7. CASE load_and_spawn(p)
    <3>1. call' \in [Procs -> Calls \cup {None}]
      <4>1. \E c \in Calls \cup {None} : call' = [call EXCEPT ![p] = c]
        BY Zenon, <2>7 DEF load_and_spawn, Ask, Calls
      <4> QED
        BY <4>1 DEF TypeOK
    <3>2. main' \in [Procs -> Starting \cup {"none", "serve", "gone"}]
      <4>1. main' = [main EXCEPT ![p] = "serve"] \/ main' = [main EXCEPT ![p] = "cancel"]
        BY <2>7, Zenon DEF load_and_spawn
      <4> QED
        BY Zenon, <4>1 DEF TypeOK, Starting
    <3> QED
      BY Zenon, <2>7, <3>1, <3>2 DEF TypeOK, load_and_spawn, quitVars, pathVars, envVars
  <2>8. CASE ExitFailed(p)
    BY Zenon, <2>8, <1>1, EndType DEF TypeOK, ExitFailed, End
  <2>9. CASE ExitDone(p)
    BY Zenon, <2>9, <1>1, EndType DEF TypeOK, ExitDone, End
  <2> QED
    BY Zenon, <1>7, <2>1, <2>2, <2>3, <2>4, <2>5, <2>6, <2>7, <2>8, <2>9 DEF Upgrade
<1>8. ASSUME NEW p \in Procs, Environment(p) PROVE TypeOK'
  <2>1. CASE Start(p)
    BY Zenon, <2>1 DEF TypeOK, Start, Starting, Threads, quitVars, pathVars, envVars
  <2>2. CASE Offline(p)
    <3>1. Append(chan[p], [cmd |-> "start", from |-> None]) \in Seq(Command)
      BY Zenon, AppendCommand DEF TypeOK, Command
    <3>2. told' \subseteq Procs \cup {None}
      BY <2>2, Zenon DEF Offline, TypeOK
    <3> QED
      BY <2>2, <3>1, <3>2 DEF TypeOK, Offline, Asked, upgradeVars, pathVars
  <2>3. CASE CancelShutdown(p)
    <3>1. Append(chan[p], [cmd |-> "cancel", from |-> None]) \in Seq(Command)
      BY Zenon, AppendCommand DEF TypeOK, Command
    <3> QED
      BY <2>3, <3>1 DEF TypeOK, CancelShutdown, Asked, upgradeVars, pathVars
  <2>4. CASE trigger_force_shutdown(p)
    BY <2>4 DEF TypeOK, trigger_force_shutdown, Asked, upgradeVars, pathVars
  <2>5. CASE Crash(p)
    <3>1. mishap' \in BOOLEAN /\ crashes' \in 0 .. MaxCrashes /\ bound' \in [Procs -> BOOLEAN]
      BY <2>5 DEF TypeOK, Crash
    <3> QED
      BY Zenon, <2>5, <3>1, EndType DEF TypeOK, Crash, End
  <2> QED
    BY Zenon, <1>8, <2>1, <2>2, <2>3, <2>4, <2>5 DEF Environment
<1>9. CASE UNCHANGED vars
  BY Zenon, <1>9 DEF TypeOK, vars
<1> QED
  BY Zenon, <1>4, <1>5, <1>6, <1>7, <1>8, <1>9 DEF Next

-----------------------------------------------------------------------------
(* What a process that starts waits for, and who can reach a quit loop.     *)

StartInv == CallsMatch /\ EarlyUntouched

(* No process starts in the initial state.                                  *)
LEMMA StartInit == Init => StartInv
<1> SUFFICES ASSUME Init PROVE StartInv
  OBVIOUS
<1> USE UpgradeAssumption DEF Init
<1>1. CallsMatch
  BY Zenon DEF CallsMatch, Calls
<1>2. EarlyUntouched
  BY Zenon DEF EarlyUntouched, Early, Calls
<1> QED
  BY Zenon, <1>1, <1>2 DEF StartInv

(* Every step keeps StartInv: what a process that starts has asked for is   *)
(* where the protocol of upgrade.rs says it is.                             *)
LEMMA StartStep == TypeOK /\ StartInv /\ [Next]_vars => StartInv'
<1> SUFFICES ASSUME TypeOK, StartInv, [Next]_vars PROVE StartInv'
  OBVIOUS
<1> USE UpgradeAssumption DEF StartInv, Calls
(* A step that starts and asks nothing, and changes at most the quit loop   *)
(* of a process that is not early.                                          *)
<1>1. ASSUME NEW p \in Procs, OnlyAnswers, main' = main, link' = link, ~Early(p),
             \A q \in Procs \ {p} : quit'[q] = quit[q] /\ chan'[q] = chan[q] /\ bound'[q] = bound[q] /\ closed'[q] = closed[q]
      PROVE  StartInv'
  <2>1. CallsMatch'
    BY <1>1 DEF CallsMatch, OnlyAnswers
  <2>2. EarlyUntouched'
    BY <1>1 DEF EarlyUntouched, Early, OnlyAnswers
  <2> QED
    BY Zenon, <2>1, <2>2
(* The end of a process.                                                    *)
<1>2. ASSUME NEW p \in Procs, End(p), main[p] # "none", bound' = [bound EXCEPT ![p] = FALSE] PROVE StartInv'
  <2>0. OnlyAnswers /\ main' = [main EXCEPT ![p] = "gone"] /\ quit' = [quit EXCEPT ![p] = "off"]
        /\ chan' = [chan EXCEPT ![p] = <<>>] /\ thread'[p] = "end" /\ call'[p] = None
        /\ link' = link /\ closed' = closed
    BY Zenon, <1>2, EndType DEF End
  <2>1. CallsMatch'
    BY <2>0 DEF CallsMatch, OnlyAnswers, TypeOK, Starting
  <2>2. EarlyUntouched'
    BY <2>0, <1>2 DEF EarlyUntouched, Early, OnlyAnswers, TypeOK
  <2> QED
    BY Zenon, <2>1, <2>2
(* The quit loop.                                                           *)
<1>3. ASSUME NEW p \in Procs, NEW cmd, NEW st, Recv(p, cmd), Handled(p, st),
             \A q \in Procs \ {p} : bound'[q] = bound[q]
      PROVE  StartInv'
  <2>1. OnlyAnswers
    BY Zenon, <1>3, HandledType
  <2>2. ~Early(p)
    BY Zenon, <1>3 DEF Recv, EarlyUntouched
  <2>3. /\ main' = main /\ link' = link
        /\ \A q \in Procs \ {p} : quit'[q] = quit[q] /\ chan'[q] = chan[q] /\ closed'[q] = closed[q]
    BY Zenon, <1>3 DEF Handled, envVars, TypeOK
  <2> QED
    BY Zenon, <1>1, <1>3, <2>1, <2>2, <2>3
<1>4. ASSUME NEW p \in Procs, drop_controller(p) \/ (\E d : create_daemon(p, d)) \/ (\E f : resume_controller(p, f))
      PROVE  \A q \in Procs \ {p} : bound'[q] = bound[q]
  BY <1>4 DEF drop_controller, create_daemon, resume_controller, pathVars, TypeOK
<1>5. ASSUME NEW p \in Procs, QuitLoop(p) \/ OfflineTimeout(p) \/ graceful_shutdown(p) PROVE StartInv'
  <2>1. CASE StartGracefulShutdown(p)
    BY Zenon, <2>1, <1>3 DEF StartGracefulShutdown, pathVars
  <2>2. CASE ReleaseController(p)
    BY Zenon, <2>2, <1>3, <1>4 DEF ReleaseController, pathVars
  <2>3. CASE CancelGracefulShutdown(p)
    BY Zenon, <2>3, <1>3, <1>4 DEF CancelGracefulShutdown, pathVars
  <2>4. CASE ForceShutdown(p) \/ OfflineTimeout(p) \/ graceful_shutdown(p)
    <3>1. ~Early(p)
      BY Zenon, <2>4 DEF ForceShutdown, OfflineTimeout, graceful_shutdown, EarlyUntouched
    <3>2. \A q \in Procs \ {p} : bound'[q] = bound[q]
      BY Zenon, <2>4, <1>4 DEF ForceShutdown, OfflineTimeout, graceful_shutdown, pathVars
    <3>3. /\ UNCHANGED <<main, thread, link, call, chan, closed>>
          /\ \A q \in Procs \ {p} : quit'[q] = quit[q]
      BY <2>4 DEF ForceShutdown, OfflineTimeout, graceful_shutdown, upgradeVars, envVars, TypeOK
    <3>4. OnlyAnswers
      BY Zenon, <3>3 DEF OnlyAnswers
    <3> QED
      BY Zenon, <1>1, <3>1, <3>2, <3>3, <3>4
  <2> QED
    BY Zenon, <1>5, <2>1, <2>2, <2>3, <2>4 DEF QuitLoop
<1>6. ASSUME NEW p \in Procs, Environment(p) PROVE StartInv'
  <2>1. CASE Start(p)
    <3>1. main' = [main EXCEPT ![p] = "config"] /\ thread' = [thread EXCEPT ![p] = "connect"]
          /\ UNCHANGED <<link, call, quit, chan, closed, bound>> /\ main[p] = "none"
      BY Zenon, <2>1 DEF Start, quitVars, pathVars
    <3>2. CallsMatch'
      BY <3>1 DEF CallsMatch, TypeOK, Starting
    <3>3. EarlyUntouched'
      BY <3>1 DEF EarlyUntouched, Early, TypeOK
    <3> QED
      BY Zenon, <3>2, <3>3
  <2>2. CASE Offline(p) \/ CancelShutdown(p) \/ trigger_force_shutdown(p)
    <3>1. UNCHANGED <<main, thread, link, call, quit, bound>> /\ quit[p] # "off"
          /\ \A q \in Procs \ {p} : chan'[q] = chan[q] /\ closed'[q] = closed[q]
      BY <2>2 DEF Offline, CancelShutdown, trigger_force_shutdown, Asked, upgradeVars, pathVars, TypeOK
    <3>2. CallsMatch'
      BY Zenon, <3>1 DEF CallsMatch
    <3>3. EarlyUntouched'
      BY <3>1 DEF EarlyUntouched, Early
    <3> QED
      BY Zenon, <3>2, <3>3
  <2>3. CASE Crash(p)
    BY Zenon, <2>3, <1>2 DEF Crash, Starting
  <2> QED
    BY Zenon, <1>6, <2>1, <2>2, <2>3 DEF Environment
<1>7. ASSUME NEW p \in Procs, Upgrade(p) PROVE StartInv'
  (* A step of main[p] within its start.                                    *)
  <2>0. ASSUME UNCHANGED <<link, closed, chan>>, thread'[p] = thread[p] \/ (thread'[p] = "lost" /\ call'[p] = "release" /\ main'[p] = "release"),
               \A q \in Procs \ {p} : thread'[q] = thread[q] /\ main'[q] = main[q] /\ call'[q] = call[q] /\ quit'[q] = quit[q] /\ bound'[q] = bound[q],
               main[p] \in Starting, main[p] # "cancel",
               \/ main'[p] = "release" /\ call'[p] \in {"release", None} /\ quit'[p] = quit[p] /\ bound'[p] = bound[p]
                  /\ main[p] = "config" /\ (thread[p] = "connect" => call'[p] = "release")
               \/ main'[p] = "cancel" /\ call'[p] \in {"cancel", None} /\ quit'[p] = quit[p] /\ bound'[p] = bound[p] /\ main[p] # "release"
               \/ main'[p] = "bind" /\ call'[p] = None /\ main[p] = "release" /\ call[p] = None /\ quit'[p] = quit[p] /\ bound'[p] = bound[p]
               \/ main'[p] = "load" /\ call'[p] = None /\ main[p] = "bind" /\ quit'[p] = "outer"
               \/ main'[p] = "serve" /\ call'[p] \in {"confirm", None} /\ main[p] = "load" /\ quit'[p] = quit[p] /\ bound'[p] = bound[p]
        PROVE StartInv'
    <3>2. CallsMatch'
      BY <2>0 DEF CallsMatch
    <3>3. EarlyUntouched'
      <4>1. \A q \in Procs : q # p => (Early(q)' <=> Early(q))
        BY Zenon, <2>0 DEF Early
      <4>2. Early(p)' => Early(p) /\ quit'[p] = quit[p] /\ bound'[p] = bound[p]
        BY Zenon, <2>0 DEF Early, EarlyUntouched
      <4>3. thread'[p] = "connect" => main'[p] \in {"config", "release", "cancel"} /\ (main'[p] = "release" => call'[p] = "release")
        BY Zenon, <2>0 DEF EarlyUntouched
      <4>4. ASSUME NEW q \in Procs
            PROVE  /\ link'[q] # q
                   /\ Early(q)' => quit'[q] = "off" /\ ~bound'[q] /\ chan'[q] = <<>> /\ ~closed'[q]
        <5>1. link[q] # q /\ (Early(q) => quit[q] = "off" /\ ~bound[q] /\ chan[q] = <<>> /\ ~closed[q])
          BY Zenon DEF EarlyUntouched
        <5>2. link' = link /\ chan' = chan /\ closed' = closed /\ (q # p => quit'[q] = quit[q] /\ bound'[q] = bound[q])
          BY Zenon, <2>0
        <5> QED
          BY Zenon, <5>1, <5>2, <4>1, <4>2
      <4>5. ASSUME NEW q \in Procs, thread'[q] = "connect"
            PROVE  main'[q] \in {"config", "release", "cancel"} /\ (main'[q] = "release" => call'[q] = "release")
        BY <2>0, <4>3, <4>5 DEF EarlyUntouched
      <4>6. ASSUME NEW q \in Procs, thread'[q] = "lost" PROVE main'[q] = "release" /\ call'[q] = "release"
        <5>1. CASE q = p /\ thread[p] = "lost"
          <6>1. main[p] = "release" /\ call[p] = "release"
            BY Zenon, <5>1 DEF EarlyUntouched
          <6> QED
            BY Zenon, <5>1, <6>1, <2>0, UpgradeAssumption DEF Calls
        <5>2. CASE q = p /\ thread[p] # "lost"
          BY Zenon, <5>2, <2>0, <4>6
        <5>3. CASE q # p
          <6>1. thread'[q] = thread[q] /\ main'[q] = main[q] /\ call'[q] = call[q]
            BY Zenon, <5>3, <2>0
          <6> QED
            BY Zenon, <6>1, <4>6 DEF EarlyUntouched
        <5> QED
          BY Zenon, <5>1, <5>2, <5>3
      <4> QED
        BY Zenon, <4>4, <4>5, <4>6 DEF EarlyUntouched
    <3> QED
      BY Zenon, <3>2, <3>3
  <2>1. CASE connect_rpc(p)
    <3>0. UNCHANGED <<main, quit, chan, closed, bound>> /\ thread[p] = "connect"
      BY Zenon, <2>1 DEF connect_rpc, quitVars, pathVars, envVars
    <3>1. /\ \A q \in Procs : call'[q] = call[q] \/ (q = p /\ call'[q] = None)
          /\ \A q \in Procs : q # p => thread'[q] = thread[q] /\ link'[q] = link[q]
          /\ thread'[p] \notin {"connect", "lost"} /\ (link'[p] = link[p] \/ (link'[p] \in Procs /\ bound[link'[p]]))
      <4>1. CASE path.owner # None /\ bound[path.owner] /\ call' = call
                 /\ link' = [link EXCEPT ![p] = path.owner] /\ thread' = [thread EXCEPT ![p] = "ready"]
        BY <4>1 DEF TypeOK
      <4>2. CASE link' = link /\ thread' = [thread EXCEPT ![p] = "end"] /\ call' = [call EXCEPT ![p] = None]
        BY <4>2 DEF TypeOK
      <4> QED
        BY <2>1, <4>1, <4>2, Zenon DEF connect_rpc
    <3>2. CallsMatch'
      BY <3>0, <3>1 DEF CallsMatch
    <3>3. EarlyUntouched'
      BY <3>0, <3>1 DEF EarlyUntouched, Early
    <3> QED
      BY Zenon, <3>2, <3>3
  <2>2. CASE connect_run(p)
    <3>1. UNCHANGED <<main, link, quit, closed, bound>> /\ call[p] # None
      BY Zenon, <2>2 DEF connect_run, pathVars, envVars
    <3>a. OnlyAnswers /\ \A q \in Procs : link[p] # q => chan'[q] = chan[q]
      BY Zenon, <2>2, ConnectRunType
    <3>b. quit[link[p]] = "off" => chan' = chan
      BY <2>2, Zenon DEF connect_run
    <3>2. /\ OnlyAnswers /\ \A q \in Procs : link[p] # q => chan'[q] = chan[q]
          /\ \A q \in Procs : quit[q] = "off" => chan'[q] = chan[q]
      BY Zenon, <3>a, <3>b
    <3>3. CallsMatch'
      BY Zenon, <3>1, <3>2 DEF CallsMatch, OnlyAnswers
    <3>4. EarlyUntouched'
      BY <3>1, <3>2 DEF EarlyUntouched, Early, OnlyAnswers
    <3> QED
      BY Zenon, <3>3, <3>4
  <2>3. CASE ConfigLoad(p)
    BY <2>3, <2>0 DEF ConfigLoad, Ask, Starting, quitVars, pathVars, envVars, TypeOK
  <2>4. CASE StartFails(p)
    BY Zenon, <2>4, <1>2 DEF StartFails, drop_controller
  <2>5. CASE release_old_controller(p)
    BY Zenon, <2>5, <2>0 DEF release_old_controller, Starting, quitVars, pathVars, envVars, TypeOK
  <2>6. CASE start_daemon(p)
    <3>1. call[p] = None
      BY Zenon, <2>6 DEF CallsMatch, start_daemon
    <3> QED
      BY <2>6, <2>0, <3>1, <1>4 DEF start_daemon, Starting, envVars, TypeOK
  <2>7. CASE load_and_spawn(p)
    BY <2>7, <2>0 DEF load_and_spawn, Ask, Starting, quitVars, pathVars, envVars, TypeOK
  <2>8. CASE ExitFailed(p) \/ ExitDone(p)
    BY Zenon, <2>8, <1>2 DEF ExitFailed, ExitDone, drop_controller
  <2> QED
    BY Zenon, <1>7, <2>1, <2>2, <2>3, <2>4, <2>5, <2>6, <2>7, <2>8 DEF Upgrade
<1>8. CASE UNCHANGED vars
  BY <1>8 DEF vars, CallsMatch, EarlyUntouched, Early
<1> QED
  BY Zenon, <1>5, <1>6, <1>7, <1>8 DEF Next

-----------------------------------------------------------------------------
(* Every step keeps OrderInv: the quit loop drains only with an order that  *)
(* neither a release nor a cancellation came after.                         *)
LEMMA OrderStep == TypeOK /\ StartInv /\ OrderInv /\ [Next]_vars => OrderInv'
<1> SUFFICES ASSUME TypeOK, StartInv, OrderInv, [Next]_vars PROVE OrderInv'
  OBVIOUS
<1> USE UpgradeAssumption
(* A process that a step leaves alone, or gives an order.                   *)
<1>1. ASSUME NEW q \in Procs, main'[q] = main[q] \/ main'[q] \notin {"load", "serve"} \/ quit'[q] # "off", quit'[q] = quit[q], q \notin told' => q \notin told,
             chan'[q] = chan[q] \/ q \in told', closed'[q] = closed[q] \/ q \in told'
      PROVE  Unordered(q)'
  BY Zenon, <1>1 DEF OrderInv, Unordered
(* The end of a process.                                                    *)
<1>2. ASSUME NEW p \in Procs, End(p) PROVE OrderInv'
  <2>1. /\ main' = [main EXCEPT ![p] = "gone"] /\ quit' = [quit EXCEPT ![p] = "off"] /\ chan' = [chan EXCEPT ![p] = <<>>]
        /\ told' = told /\ closed' = closed
    BY Zenon, <1>2 DEF End
  <2>2. main'[p] = "gone" /\ quit'[p] = "off" /\ chan'[p] = <<>>
    BY Zenon, <2>1 DEF TypeOK
  <2>3. Unordered(p)'
    <3>1. ~HasCmd(chan'[p], "start")
      BY <2>2 DEF HasCmd
    <3> QED
      BY Zenon, <2>1, <2>2, <3>1 DEF OrderInv, Unordered
  <2>4. ASSUME NEW q \in Procs \ {p} PROVE Unordered(q)'
    BY <2>1, <1>1 DEF TypeOK
  <2> QED
    BY Zenon, <2>3, <2>4 DEF OrderInv
(* A command that the quit loop takes.                                      *)
<1>3. ASSUME NEW p \in Procs, NEW cmd, NEW st, Recv(p, cmd), Handled(p, st), st # "off",
             \/ told' = told /\ (p \notin told => st \in {"outer", "handover"})
             \/ Overtake(p) /\ (quit[p] # "drain" => st \in {"outer", "handover"})
      PROVE  OrderInv'
  <2>0. chan[p] \in Seq(Command) /\ chan[p] # <<>>
    BY Zenon, <1>3 DEF TypeOK, Recv
  <2>1. /\ main' = main /\ closed' = closed /\ quit'[p] = st /\ chan'[p] = Tail(chan[p])
        /\ \A q \in Procs \ {p} : quit'[q] = quit[q] /\ chan'[q] = chan[q] /\ (q \notin told' => q \notin told)
    BY <1>3 DEF Handled, TypeOK, Overtake
  <2>2. \/ p \in told'
        \/ p \notin told /\ st \in {"outer", "handover"}
        \/ ~closed[p] /\ st \in {"outer", "handover"} /\ ~\E i \in 2 .. Len(chan[p]) : chan[p][i].cmd = "start"
    <3>1. CASE told' = told /\ (p \notin told => st \in {"outer", "handover"})
      BY Zenon, <3>1
    <3>2. CASE Overtake(p) /\ (quit[p] # "drain" => st \in {"outer", "handover"})
      <4>1. quit[p] = "drain" => p \in told
        BY Zenon DEF OrderInv, Unordered
      <4> QED
        BY Zenon, <3>2, <4>1 DEF Overtake
    <3> QED
      BY Zenon, <1>3, <3>1, <3>2
  <2>3. Unordered(p)'
    <3>1. HasCmd(chan'[p], "start") => HasCmd(chan[p], "start") /\ \E i \in 2 .. Len(chan[p]) : chan[p][i].cmd = "start"
      <4>1. HasCmd(Tail(chan[p]), "start") => HasCmd(chan[p], "start") /\ \E i \in 2 .. Len(chan[p]) : chan[p][i].cmd = "start"
        BY <2>0, TailCommand
      <4> QED
        BY Zenon, <2>1, <4>1
    <3> QED
      BY Zenon, <2>1, <2>2, <3>1, <1>3 DEF OrderInv, Unordered
  <2>4. ASSUME NEW q \in Procs \ {p} PROVE Unordered(q)'
    BY Zenon, <2>1, <1>1
  <2> QED
    BY Zenon, <2>3, <2>4 DEF OrderInv
<1>4. ASSUME NEW p \in Procs, QuitLoop(p) \/ OfflineTimeout(p) \/ graceful_shutdown(p) PROVE OrderInv'
  <2>1. CASE StartGracefulShutdown(p)
    <3>1. Recv(p, "start") /\ Handled(p, IF quit[p] \in {"outer", "stop"} THEN "stop" ELSE "drain") /\ told' = told
      BY Zenon, <2>1 DEF StartGracefulShutdown
    <3>2. HasCmd(chan[p], "start")
      BY <3>1, TailCommand DEF Recv, TypeOK
    <3>3. p \in told
      BY Zenon, <3>2 DEF OrderInv, Unordered
    <3> QED
      BY Zenon, <3>1, <3>3, <1>3
  <2>2. CASE ReleaseController(p)
    BY Zenon, <2>2, <1>3 DEF ReleaseController
  <2>3. CASE CancelGracefulShutdown(p)
    BY Zenon, <2>3, <1>3 DEF CancelGracefulShutdown
  <2>4. CASE ForceShutdown(p) \/ OfflineTimeout(p) \/ graceful_shutdown(p)
    <3>1. /\ UNCHANGED <<main, chan, closed, told>> /\ \A q \in Procs \ {p} : quit'[q] = quit[q]
          /\ quit'[p] \in {"outer", "drain", "done"} /\ (quit'[p] = "outer" \/ closed[p] \/ quit[p] \in {"stop", "drain"})
      BY <2>4 DEF ForceShutdown, OfflineTimeout, graceful_shutdown, upgradeVars, envVars, TypeOK
    <3>2. Unordered(p)'
      BY Zenon, <3>1 DEF OrderInv, Unordered
    <3>3. ASSUME NEW q \in Procs \ {p} PROVE Unordered(q)'
      BY Zenon, <3>1, <1>1
    <3> QED
      BY Zenon, <3>2, <3>3 DEF OrderInv
  <2> QED
    BY Zenon, <1>4, <2>1, <2>2, <2>3, <2>4 DEF QuitLoop
<1>5. ASSUME NEW p \in Procs, Upgrade(p) PROVE OrderInv'
  <2>1. CASE connect_rpc(p)
    <3>1. UNCHANGED <<main, quit, chan, closed, told>>
      BY Zenon, <2>1 DEF connect_rpc, quitVars, envVars
    <3> QED
      BY Zenon, <1>1, <3>1 DEF OrderInv
  <2>2. CASE connect_run(p)
    <3>1. UNCHANGED <<main, quit, closed>> /\ \A q \in Procs : link[p] # q => chan'[q] = chan[q]
      BY Zenon, <2>2, ConnectRunType DEF connect_run
    <3>2. told \subseteq told' /\ (call[p] = "confirm" => chan' = chan \/ link[p] \in told')
      BY <2>2 DEF connect_run
    <3>3. ASSUME NEW q \in Procs PROVE Unordered(q)'
      <4>1. CASE chan'[q] = chan[q] \/ q \in told'
        BY Zenon, <3>1, <3>2, <4>1, <1>1
      <4>2. CASE chan'[q] # chan[q] /\ q \notin told'
        <5>1. call[p] # "confirm"
          BY Zenon, <3>1, <3>2, <4>2
        <5>2. PICK e \in Command : chan'[q] = Append(chan[q], e) /\ e.cmd # "start"
          BY Zenon, <2>2, <4>2, <5>1, ConnectRunType
        <5>3. HasCmd(chan'[q], "start") => HasCmd(chan[q], "start")
          BY <5>2, AppendCommand DEF TypeOK
        <5> QED
          BY Zenon, <3>1, <3>2, <4>2, <5>3 DEF OrderInv, Unordered
      <4> QED
        BY Zenon, <4>1, <4>2
    <3> QED
      BY Zenon, <3>3 DEF OrderInv
  <2>3. CASE ConfigLoad(p) \/ release_old_controller(p)
    <3>1. main' \in {[main EXCEPT ![p] = "release"], [main EXCEPT ![p] = "cancel"], [main EXCEPT ![p] = "bind"]}
          /\ UNCHANGED <<quit, chan, closed, told>>
      BY Zenon, <2>3 DEF ConfigLoad, release_old_controller, quitVars, envVars
    <3>2. \A q \in Procs : main'[q] = main[q] \/ main'[q] \notin {"load", "serve"}
      BY <3>1 DEF TypeOK
    <3> QED
      BY Zenon, <1>1, <3>1, <3>2 DEF OrderInv
  <2>4. CASE StartFails(p) \/ ExitFailed(p) \/ ExitDone(p)
    BY Zenon, <2>4, <1>2 DEF StartFails, ExitFailed, ExitDone
  <2>5. CASE start_daemon(p)
    <3>1. main[p] = "bind" /\ main' = [main EXCEPT ![p] = "load"] /\ quit' = [quit EXCEPT ![p] = "outer"] /\ UNCHANGED <<chan, closed, told>>
      BY Zenon, <2>5 DEF start_daemon, envVars
    <3>2. ~closed[p] /\ chan[p] = <<>>
      BY Zenon, <3>1 DEF StartInv, EarlyUntouched, Early
    <3>3. Unordered(p)'
      <4>1. quit'[p] = "outer"
        BY Zenon, <3>1 DEF TypeOK
      <4>2. ~HasCmd(chan'[p], "start")
        BY <3>1, <3>2 DEF HasCmd
      <4> QED
        BY Zenon, <3>1, <3>2, <4>1, <4>2 DEF Unordered
    <3>4. ASSUME NEW q \in Procs \ {p} PROVE Unordered(q)'
      BY <3>1, <1>1 DEF TypeOK
    <3> QED
      BY Zenon, <3>3, <3>4 DEF OrderInv
  <2>6. CASE load_and_spawn(p)
    <3>1. main[p] = "load" /\ UNCHANGED <<quit, chan, closed, told>> /\ \A q \in Procs : q # p => main'[q] = main[q]
      BY <2>6 DEF load_and_spawn, quitVars, envVars, TypeOK
    <3>2. quit[p] # "off"
      BY Zenon, <3>1 DEF OrderInv, Unordered
    <3> QED
      BY Zenon, <3>1, <3>2, <1>1 DEF OrderInv
  <2> QED
    BY Zenon, <1>5, <2>1, <2>2, <2>3, <2>4, <2>5, <2>6 DEF Upgrade
<1>6. ASSUME NEW p \in Procs, Environment(p) PROVE OrderInv'
  <2>1. CASE Start(p)
    <3>1. main' = [main EXCEPT ![p] = "config"] /\ UNCHANGED <<quit, chan, closed, told>>
      BY Zenon, <2>1 DEF Start, quitVars, envVars
    <3>2. \A q \in Procs : main'[q] = main[q] \/ main'[q] \notin {"load", "serve"}
      BY <3>1 DEF TypeOK
    <3> QED
      BY Zenon, <1>1, <3>1, <3>2 DEF OrderInv
  <2>2. CASE Offline(p) \/ trigger_force_shutdown(p)
    <3>1. UNCHANGED <<main, quit>> /\ told' = told \cup {p} /\ \A q \in Procs \ {p} : chan'[q] = chan[q] /\ closed'[q] = closed[q]
      BY <2>2 DEF Offline, trigger_force_shutdown, upgradeVars, TypeOK
    <3> QED
      BY <1>1, <3>1 DEF OrderInv
  <2>3. CASE CancelShutdown(p)
    <3> DEFINE e == [cmd |-> "cancel", from |-> None]
    <3>1. UNCHANGED <<main, quit, closed, told>> /\ chan' = [chan EXCEPT ![p] = Append(@, e)]
      BY Zenon, <2>3 DEF CancelShutdown, upgradeVars
    <3>2. e \in Command /\ e.cmd = "cancel"
      BY Zenon DEF Command
    <3> HIDE DEF e
    <3>3. HasCmd(Append(chan[p], e), "start") => HasCmd(chan[p], "start")
      BY Zenon, <3>2, AppendCommand DEF TypeOK
    <3>4. chan'[p] = Append(chan[p], e) /\ \A q \in Procs \ {p} : chan'[q] = chan[q]
      BY Zenon, <3>1 DEF TypeOK
    <3>5. Unordered(p)'
      BY Zenon, <3>1, <3>3, <3>4 DEF OrderInv, Unordered
    <3>6. ASSUME NEW q \in Procs \ {p} PROVE Unordered(q)'
      BY Zenon, <3>1, <3>4, <1>1
    <3> QED
      BY Zenon, <3>5, <3>6 DEF OrderInv
  <2>4. CASE Crash(p)
    BY Zenon, <2>4, <1>2 DEF Crash
  <2> QED
    BY Zenon, <1>6, <2>1, <2>2, <2>3, <2>4 DEF Environment
<1>7. CASE UNCHANGED vars
  BY Zenon, <1>1, <1>7 DEF vars, OrderInv
<1> QED
  BY Zenon, <1>4, <1>5, <1>6, <1>7 DEF Next

(* Every state has the three invariants.                                    *)
LEMMA AlwaysOrdered == Spec => [](TypeOK /\ StartInv /\ OrderInv)
<1>1. Init => TypeOK /\ StartInv /\ OrderInv
  <2>1. ASSUME Init, NEW p \in Procs PROVE Unordered(p)
    <3>1. ~HasCmd(chan[p], "start")
      BY <2>1 DEF Init, HasCmd
    <3> QED
      BY Zenon, <2>1, <3>1 DEF Init, Unordered
  <2> QED
    BY Zenon, <2>1, TypeInit, StartInit DEF OrderInv
<1>2. TypeOK /\ StartInv /\ OrderInv /\ [Next]_vars => (TypeOK /\ StartInv /\ OrderInv)'
  BY Zenon, TypeStep, StartStep, OrderStep
<1> QED
  BY <1>1, <1>2, PTL DEF Spec

(* No restart or upgrade takes a process away that nobody told to stop, or  *)
(* whose order to stop turned out to be that of a restart, or was           *)
(* cancelled: whatever the new processes do, where they fail or are killed, *)
(* whatever their calls cross with and however long they take, such a       *)
(* process offers the service.                                              *)
THEOREM ServiceSurvives == Spec => []NoOutage
<1>1. TypeOK /\ StartInv /\ OrderInv => NoOutage
  BY Zenon DEF OrderInv, Unordered, NoOutage, Up
<1> QED
  BY <1>1, AlwaysOrdered, PTL

(* A process that gives up its controller has no controller.                *)
HandoverReleased == \A p \in Procs : quit[p] \in {"handover", "drain", "done"} => ~bound[p]

(* Every step keeps HandoverReleased: QuitLoop::run releases the controller *)
(* on every way to a hand-over or a shutdown.                               *)
LEMMA ReleasedStep == TypeOK /\ HandoverReleased /\ [Next]_vars => HandoverReleased'
<1> SUFFICES ASSUME TypeOK, HandoverReleased, [Next]_vars PROVE HandoverReleased'
  OBVIOUS
<1>1. ASSUME NEW p \in Procs, drop_controller(p)
      PROVE  ~bound'[p] /\ \A q \in Procs : q # p => bound'[q] = bound[q]
  BY Zenon, <1>1 DEF drop_controller, TypeOK
<1>2. ASSUME NEW p \in Procs, (\E d : create_daemon(p, d)) \/ (\E f : resume_controller(p, f))
      PROVE  \A q \in Procs : q # p => bound'[q] = bound[q]
  BY <1>2 DEF create_daemon, resume_controller, pathVars, TypeOK
<1>3. ASSUME NEW p \in Procs, QuitLoop(p) \/ OfflineTimeout(p) \/ graceful_shutdown(p) PROVE HandoverReleased'
  <2>1. CASE StartGracefulShutdown(p)
    BY Zenon, <2>1 DEF StartGracefulShutdown, Recv, Handled, pathVars, HandoverReleased, TypeOK
  <2>2. CASE ReleaseController(p)
    BY <2>2, <1>1 DEF ReleaseController, Recv, Handled, pathVars, HandoverReleased, TypeOK
  <2>3. CASE CancelGracefulShutdown(p)
    BY <2>3, <1>2 DEF CancelGracefulShutdown, Recv, Handled, pathVars, HandoverReleased, TypeOK
  <2>4. CASE ForceShutdown(p)
    BY <2>4, <1>1 DEF ForceShutdown, HandoverReleased, TypeOK
  <2>5. CASE OfflineTimeout(p)
    <3>1. CASE quit' = [quit EXCEPT ![p] = "drain"] /\ drop_controller(p)
      BY Zenon, <3>1, <1>1 DEF HandoverReleased, TypeOK
    <3>2. CASE quit' = [quit EXCEPT ![p] = "outer"] /\ resume_controller(p, None)
      BY <3>2, <1>2 DEF HandoverReleased, TypeOK
    <3> QED
      BY <2>5, <3>1, <3>2, Zenon DEF OfflineTimeout
  <2>6. CASE graceful_shutdown(p)
    BY Zenon, <2>6 DEF graceful_shutdown, pathVars, HandoverReleased, TypeOK
  <2> QED
    BY Zenon, <1>3, <2>1, <2>2, <2>3, <2>4, <2>5, <2>6 DEF QuitLoop
<1>4. ASSUME NEW p \in Procs, Upgrade(p) PROVE HandoverReleased'
  <2>1. CASE connect_rpc(p) \/ connect_run(p) \/ ConfigLoad(p) \/ release_old_controller(p) \/ load_and_spawn(p)
    <3>1. quit' = quit /\ bound' = bound
      BY Zenon, <2>1 DEF connect_rpc, connect_run, ConfigLoad, release_old_controller, load_and_spawn, quitVars, pathVars
    <3> QED
      BY Zenon, <3>1 DEF HandoverReleased
  <2>2. CASE StartFails(p) \/ ExitFailed(p) \/ ExitDone(p)
    <3>1. quit' = [quit EXCEPT ![p] = "off"] /\ drop_controller(p)
      BY <2>2, Zenon DEF StartFails, ExitFailed, ExitDone, End
    <3> QED
      BY Zenon, <3>1, <1>1 DEF HandoverReleased, TypeOK
  <2>3. CASE start_daemon(p)
    BY <2>3, <1>2 DEF start_daemon, HandoverReleased, TypeOK
  <2> QED
    BY Zenon, <1>4, <2>1, <2>2, <2>3 DEF Upgrade
<1>5. ASSUME NEW p \in Procs, Environment(p) PROVE HandoverReleased'
  <2>1. CASE Start(p) \/ Offline(p) \/ CancelShutdown(p) \/ trigger_force_shutdown(p)
    <3>1. quit' = quit /\ bound' = bound
      BY Zenon, <2>1 DEF Start, Offline, CancelShutdown, trigger_force_shutdown, quitVars, pathVars
    <3> QED
      BY Zenon, <3>1 DEF HandoverReleased
  <2>2. CASE Crash(p)
    <3>1. quit' = [quit EXCEPT ![p] = "off"] /\ bound' = [bound EXCEPT ![p] = FALSE]
      BY <2>2, Zenon DEF Crash, End
    <3> QED
      BY Zenon, <3>1 DEF HandoverReleased, TypeOK
  <2> QED
    BY Zenon, <1>5, <2>1, <2>2 DEF Environment
<1>6. CASE UNCHANGED vars
  BY Zenon, <1>6 DEF vars, HandoverReleased
<1> QED
  BY Zenon, <1>3, <1>4, <1>5, <1>6 DEF Next

(* Whichever way a process comes to its shutdown, confirmed, timed out or   *)
(* forced, it has released the daemon controller before start_shutdown, as  *)
(* the documentation of QuitAction promises its implementors.               *)
THEOREM ShutdownReleases == Spec => []ReleasedFirst
<1>1. Init => TypeOK /\ HandoverReleased
  BY TypeInit DEF Init, HandoverReleased
<1>2. TypeOK /\ HandoverReleased /\ [Next]_vars => (TypeOK /\ HandoverReleased)'
  BY Zenon, TypeStep, ReleasedStep
<1>3. HandoverReleased => ReleasedFirst
  BY Zenon DEF HandoverReleased, ReleasedFirst
<1> QED
  BY <1>1, <1>2, <1>3, PTL DEF Spec
=============================================================================
