----------------------- MODULE DaemonHandoverProofs -----------------------
(***************************************************************************)
(* Who serves and whom the control socket leads to, in DaemonUpgrade: for   *)
(* any set of processes and any number of requests and crashes, as long as  *)
(* none of the mishaps has occurred that the protocol has no answer to.     *)
(***************************************************************************)
EXTENDS DaemonUpgradeProofs

(* A process that has its controller, and has not given up its start.       *)
Holder(p) == quit[p] \in {"outer", "stop"} /\ ~closed[p] /\ main[p] # "cancel"

(* The new process p has had an answer to its release call, or found nobody *)
(* to call.                                                                 *)
Handing(p) == (main[p] = "release" /\ call[p] = None) \/ main[p] \in {"bind", "load"} \/ call[p] = "confirm"
Unasked(p) == Handing(p) \/ (main[p] = "config" /\ thread[p] = "end")

(* The new process b has still to tell o to stop, or to go on.              *)
Hands(o, b) ==
    /\ link[b] = o
    /\ \/ Handing(b) /\ thread[b] = "ready"
       \/ main[b] = "cancel" /\ call[b] = "cancel" /\ thread[b] \in {"ready", "rpc"}

(* A new process goes on without the word of another that has a controller  *)
(* never, and once it is connected it is connected to that one.             *)
Knows(b, q) ==
    Holder(q) /\ q # b /\ Busy(b) => ~Unasked(b) /\ (thread[b] \in {"connect", "lost"} \/ link[b] = q)

(* A command with a caller is the one that the caller waits for, has no     *)
(* second one, and no cancellation of the operator comes after it.          *)
Operators(m) == m.cmd = "cancel" /\ m.from = None
Asks(m, p) ==
    IF m.from = None THEN m.cmd # "release"
    ELSE thread[m.from] = "rpc" /\ link[m.from] = p /\ call[m.from] = m.cmd /\ m.cmd # "start"
CallersWait(p) ==
    \A i \in DOMAIN chan[p] :
        /\ Asks(chan[p][i], p)
        /\ chan[p][i].from # None =>
               \A j \in DOMAIN chan[p] :
                   (j # i => chan[p][j].from # chan[p][i].from) /\ (j > i => ~Operators(chan[p][j]))

(* A process that has released its controller serves, and takes it back on  *)
(* the word of the operator only after an order to stop: it has that order, *)
(* or the new process has still to speak.                                   *)
Ordered(s) == \A i \in DOMAIN s : Operators(s[i]) => \E j \in DOMAIN s : j < i /\ s[j].cmd = "start"
Released(p) ==
    quit[p] = "handover" =>
        /\ main[p] = "serve" /\ call[p] # "confirm" /\ Ordered(chan[p])
        /\ ~closed[p] => HasCmd(chan[p], "start") \/ \E b \in Procs : Hands(p, b)

LoopFits(p) ==
    /\ quit[p] \in {"outer", "stop"} <=> bound[p]
    /\ main[p] = "gone" => quit[p] = "off"
    /\ Holder(p) => path.owner = p
    /\ Released(p) /\ CallersWait(p)

OneAtATime == \A p, q \in Procs : Busy(p) /\ Busy(q) => p = q

Heard ==
    /\ path.mine \subseteq {path.owner} /\ OneAtATime
    /\ \A p \in Procs : LoopFits(p)
    /\ \A b, q \in Procs : Knows(b, q)
HeardInv == mishap \/ Heard

-----------------------------------------------------------------------------
(* Nothing makes up for a mishap.                                           *)
LEMMA MishapStays == TypeOK /\ mishap /\ [Next]_vars => mishap'
<1> SUFFICES ASSUME TypeOK, mishap, [Next]_vars PROVE mishap'
  OBVIOUS
<1>1. mishap = TRUE
  BY Zenon DEF TypeOK
<1>2. ASSUME NEW p \in Procs, NEW f, resume_controller(p, f) PROVE mishap'
  BY <1>1, <1>2, Zenon DEF resume_controller, create_daemon
<1>3. ASSUME NEW p \in Procs, QuitLoop(p) \/ OfflineTimeout(p) \/ graceful_shutdown(p) PROVE mishap'
  BY <1>1, <1>2, <1>3, Zenon DEF QuitLoop, StartGracefulShutdown, ReleaseController, CancelGracefulShutdown, ForceShutdown,
                         OfflineTimeout, graceful_shutdown
<1>4. ASSUME NEW p \in Procs, Upgrade(p) \/ Environment(p) PROVE mishap'
  BY <1>1, <1>4, Zenon DEF Upgrade, Environment, connect_rpc, connect_run, ConfigLoad, StartFails, release_old_controller,
                         start_daemon, create_daemon, load_and_spawn, ExitFailed, ExitDone, Start, Offline, CancelShutdown,
                         trigger_force_shutdown, Crash
<1>5. CASE UNCHANGED vars
  BY Zenon, <1>1, <1>5 DEF vars
<1> QED
  BY Zenon, <1>3, <1>4, <1>5 DEF Next

(* The drop of a controller removes no file but its own.                    *)
LEMMA DropsOwn ==
    ASSUME TypeOK, path.mine \subseteq {path.owner}, NEW p \in Procs, drop_controller(p)
    PROVE  /\ path'.mine \subseteq {path'.owner} /\ \A q \in Procs \ {p} : path.owner = q => path'.owner = q
           /\ ~bound'[p] /\ \A q \in Procs \ {p} : bound'[q] = bound[q]
<1>1. path' = path \/ (path' = [owner |-> None, mine |-> {}] /\ p \in path.mine)
  BY Zenon DEF drop_controller, Free
<1>2. path'.mine \subseteq {path'.owner} /\ \A q \in Procs \ {p} : path.owner = q => path'.owner = q
  BY <1>1
<1>3. ~bound'[p] /\ \A q \in Procs \ {p} : bound'[q] = bound[q]
  BY DEF drop_controller, TypeOK
<1> QED
  BY Zenon, <1>2, <1>3

(* What create_daemon creates is its creator's alone.                       *)
LEMMA CreatesOwn ==
    ASSUME TypeOK, NEW p \in Procs, NEW d, create_daemon(p, d), ~mishap'
    PROVE  /\ path'.mine \subseteq {path'.owner} /\ path'.owner = p /\ ~d
           /\ bound'[p] /\ \A q \in Procs \ {p} : bound'[q] = bound[q]
<1>1. PICK same \in SUBSET {q \in Procs : bound[q]} :
        /\ path' = [owner |-> p, mine |-> same \cup {p}]
        /\ bound' = [bound EXCEPT ![p] = TRUE]
        /\ mishap' = (mishap \/ d \/ same # {})
  BY Zenon DEF create_daemon
<1>2. ~d /\ same = {}
  BY Zenon, <1>1
<1>3. bound'[p] /\ \A q \in Procs \ {p} : bound'[q] = bound[q]
  BY <1>1 DEF TypeOK
<1> QED
  BY <1>1, <1>2, <1>3

(* A process that has still to speak has its start under way.               *)
LEMMA HandsBusy == ASSUME StartInv, NEW o \in Procs, NEW b \in Procs, Hands(o, b) PROVE Busy(b) /\ o # b /\ main[b] # "config"
  BY Zenon, UpgradeAssumption DEF StartInv, CallsMatch, EarlyUntouched, Hands, Handing, Busy, Starting, Calls

(* A caller waits in the start of another process than the one it calls,    *)
(* which is not starting.                                                   *)
LEMMA CallerFacts ==
    ASSUME TypeOK, StartInv, Heard, NEW p \in Procs, NEW i \in DOMAIN chan[p], chan[p][i].from # None
    PROVE  LET f == chan[p][i].from IN
           /\ f \in Procs \ {p} /\ thread[f] = "rpc" /\ link[f] = p /\ call[f] = chan[p][i].cmd
           /\ call[f] \in {"release", "cancel"} /\ main[f] = call[f] /\ Busy(f) /\ ~Busy(p)
<1> DEFINE m == chan[p][i]
           f == m.from
<1>0. m \in Command
  BY SMTT(30) DEF TypeOK
<1>a. Asks(m, p)
  BY Zenon DEF Heard, LoopFits, CallersWait
<1>1. f \in Procs /\ thread[f] = "rpc" /\ link[f] = p /\ call[f] = m.cmd /\ m.cmd \in {"release", "cancel"}
  BY <1>0, <1>a DEF Asks, Command
<1> HIDE DEF m, f
<1>2. f # p
  BY Zenon, <1>1 DEF StartInv, EarlyUntouched
<1>3. main[f] = call[f] /\ Busy(f)
  BY Zenon, <1>1, UpgradeAssumption DEF StartInv, CallsMatch, Calls, Busy, Starting
<1>4. ~Busy(p)
  BY Zenon, <1>1, <1>2, <1>3 DEF Heard, OneAtATime
<1> QED
  BY Zenon, <1>1, <1>2, <1>3, <1>4 DEF f, m

-----------------------------------------------------------------------------
(* What a step leaves alone keeps its invariant.                            *)

(* The callers of a channel that the step does not touch.                   *)
LEMMA CallersKept ==
    ASSUME TypeOK, NEW q \in Procs, CallersWait(q), chan'[q] = chan[q],
           \A f \in Procs : thread[f] = "rpc" /\ link[f] = q /\ call[f] \in {"release", "cancel"}
                                => thread'[f] = "rpc" /\ link'[f] = q /\ call'[f] = call[f]
    PROVE  CallersWait(q)'
<1>1. ASSUME NEW i \in DOMAIN chan[q] PROVE chan[q][i].from \in Procs \cup {None} /\ chan[q][i].cmd \in {"start", "release", "cancel"}
  <2>1. chan[q][i] \in Command
    BY SMTT(30) DEF TypeOK
  <2> QED
    BY <2>1 DEF Command
<1>2. ASSUME NEW i \in DOMAIN chan[q] PROVE Asks(chan[q][i], q)'
  <2>1. Asks(chan[q][i], q)
    BY Zenon DEF CallersWait
  <2> QED
    BY <1>1, <2>1 DEF Asks
<1>3. ASSUME NEW i \in DOMAIN chan[q], NEW j \in DOMAIN chan[q], chan[q][i].from # None
      PROVE  (j # i => chan[q][j].from # chan[q][i].from) /\ (j > i => ~Operators(chan[q][j]))
  BY Zenon, <1>3 DEF CallersWait
<1>4. DOMAIN chan'[q] = DOMAIN chan[q]
  OBVIOUS
<1> QED
  BY <1>2, <1>3, <1>4 DEF CallersWait, Operators

(* The quit loop of a process that the step does not touch.                 *)
LEMMA LoopKept ==
    ASSUME NEW q \in Procs, LoopFits(q), CallersWait(q)',
           main'[q] = main[q], call'[q] = "confirm" => call[q] = "confirm",
           quit'[q] = quit[q], chan'[q] = chan[q], closed'[q] = closed[q], bound'[q] = bound[q],
           Holder(q) /\ path.owner = q => path'.owner = q,
           \A b \in Procs : quit[q] = "handover" /\ ~closed[q] /\ Hands(q, b) => Hands(q, b)' \/ HasCmd(chan[q], "start")
    PROVE  LoopFits(q)'
<1>1. Holder(q)' => path'.owner = q
  BY Zenon DEF LoopFits, Holder
<1>2. Released(q)'
  BY Zenon DEF LoopFits, Released
<1> QED
  BY Zenon, <1>1, <1>2 DEF LoopFits

(* A new process that the step does not touch, when none gets a controller. *)
LEMMA KnowsKept ==
    ASSUME NEW b \in Procs, NEW q \in Procs, Knows(b, q), Holder(q)' => Holder(q),
           main'[b] = main[b], thread'[b] = thread[b], link'[b] = link[b], call'[b] = call[b]
    PROVE  Knows(b, q)'
  BY Zenon DEF Knows, Unasked, Handing, Busy

(* The steps of the quit loop, and the commands that init and the operator  *)
(* send, leave the starts alone.                                            *)
LEMMA LoopSteps ==
    ASSUME TypeOK, Heard, NEW p \in Procs, UNCHANGED upgradeVars,
           \A q \in Procs \ {p} : quit'[q] = quit[q] /\ chan'[q] = chan[q] /\ closed'[q] = closed[q] /\ bound'[q] = bound[q],
           path'.mine \subseteq {path'.owner}, \A q \in Procs \ {p} : path.owner = q => path'.owner = q,
           Holder(p)' => Holder(p), LoopFits(p)'
    PROVE  Heard'
<1>1. main' = main /\ thread' = thread /\ link' = link /\ call' = call
  BY Zenon DEF upgradeVars
<1>2. OneAtATime'
  BY Zenon, <1>1 DEF Heard, OneAtATime, Busy
<1>3. ASSUME NEW b \in Procs, NEW q \in Procs PROVE Knows(b, q)'
  <2>1. Holder(q)' => Holder(q)
    BY Zenon, <1>1 DEF Holder
  <2> QED
    BY Zenon, <2>1, <1>1, KnowsKept DEF Heard
<1>4. ASSUME NEW q \in Procs \ {p} PROVE LoopFits(q)'
  <2>1. LoopFits(q) /\ CallersWait(q)
    BY Zenon DEF Heard, LoopFits
  <2>2. CallersWait(q)'
    BY Zenon, <2>1, <1>1, CallersKept
  <2>3. \A b \in Procs : Hands(q, b) => Hands(q, b)'
    BY Zenon, <1>1 DEF Hands, Handing
  <2> QED
    BY Zenon, <2>1, <2>2, <2>3, <1>1, LoopKept
<1> QED
  BY Zenon, <1>2, <1>3, <1>4 DEF Heard

(* The end of a quit loop by a signal or a timeout, and the commands.  The  *)
(* timeout after a release takes the controller back before the new process *)
(* is heard of: a mishap.                                                   *)
LEMMA RequestStep ==
    ASSUME TypeOK, StartInv, Heard, NEW p \in Procs, ~mishap',
           ForceShutdown(p) \/ OfflineTimeout(p) \/ graceful_shutdown(p) \/ Offline(p) \/ CancelShutdown(p) \/ trigger_force_shutdown(p)
    PROVE  Heard'
<1>0. path.mine \subseteq {path.owner} /\ LoopFits(p) /\ CallersWait(p)
  BY Zenon DEF Heard, LoopFits
<1>a. ASSUME quit[p] = "handover", ~closed[p], ~HasCmd(chan[p], "start") PROVE \E b \in Procs \ {p} : Busy(b)
  <2>1. PICK b \in Procs : Hands(p, b)
    BY Zenon, <1>0, <1>a DEF LoopFits, Released
  <2> QED
    BY Zenon, <2>1, HandsBusy
<1>1. CASE ForceShutdown(p) \/ OfflineTimeout(p) \/ graceful_shutdown(p)
  <2>1. /\ drop_controller(p) \/ (~bound[p] /\ UNCHANGED pathVars)
        /\ quit' = [quit EXCEPT ![p] = quit'[p]] /\ quit'[p] \in {"drain", "done"}
        /\ UNCHANGED <<upgradeVars, chan, closed>> /\ main[p] # "gone"
    <3>0. main[p] # "gone"
      BY Zenon, <1>0, <1>1 DEF LoopFits, ForceShutdown, OfflineTimeout, graceful_shutdown
    <3>1. CASE ForceShutdown(p)
      BY <3>0, <3>1 DEF ForceShutdown, TypeOK
    <3>2. CASE OfflineTimeout(p)
      <4>1. ASSUME quit[p] = "handover", resume_controller(p, None) PROVE FALSE
        <5>1. ~HasCmd(chan[p], "start") /\ ~closed[p]
          BY <3>2 DEF OfflineTimeout, HasCmd
        <5>2. PICK b \in Procs : Busy(b)
          BY Zenon, <4>1, <5>1, <1>a
        <5>3. b # None /\ ~bound[p]
          BY Zenon, <4>1, <1>0, UpgradeAssumption DEF LoopFits
        <5>4. create_daemon(p, \E q \in Procs : q # None /\ Busy(q))
          BY <4>1, <5>3, Zenon DEF resume_controller
        <5> QED
          BY Zenon, <5>2, <5>3, <5>4, CreatesOwn
      <4>2. quit' = [quit EXCEPT ![p] = "drain"] /\ drop_controller(p)
        BY <3>2, <4>1, Zenon DEF OfflineTimeout
      <4> QED
        BY <3>0, <3>2, <4>2 DEF OfflineTimeout, TypeOK
    <3>3. CASE graceful_shutdown(p)
      <4>1. ~bound[p]
        BY Zenon, <3>3, <1>0 DEF graceful_shutdown, LoopFits
      <4> QED
        BY <3>0, <3>3, <4>1 DEF graceful_shutdown, TypeOK
    <3> QED
      BY Zenon, <1>1, <3>1, <3>2, <3>3
  <2>2. /\ path'.mine \subseteq {path'.owner} /\ ~bound'[p]
        /\ \A q \in Procs \ {p} : (path.owner = q => path'.owner = q) /\ bound'[q] = bound[q]
    BY Zenon, <2>1, <1>0, DropsOwn DEF pathVars
  <2>3. main' = main /\ thread' = thread /\ link' = link /\ call' = call
    BY Zenon, <2>1 DEF upgradeVars
  <2>4. ~Holder(p)' /\ Released(p)'
    BY Zenon, <2>1 DEF Holder, Released
  <2>5. CallersWait(p)'
    BY Zenon, <2>1, <2>3, <1>0, CallersKept
  <2>6. LoopFits(p)'
    BY Zenon, <2>1, <2>2, <2>3, <2>4, <2>5 DEF LoopFits
  <2>7. \A q \in Procs \ {p} : quit'[q] = quit[q]
    BY Zenon, <2>1 DEF TypeOK
  <2> QED
    BY Zenon, <2>1, <2>2, <2>4, <2>6, <2>7, LoopSteps
<1>2. CASE trigger_force_shutdown(p)
  <2>1. closed'[p] /\ UNCHANGED <<upgradeVars, quit, chan, bound, path>> /\ \A q \in Procs \ {p} : closed'[q] = closed[q]
    BY <1>2 DEF trigger_force_shutdown, pathVars, TypeOK
  <2>2. main' = main /\ thread' = thread /\ link' = link /\ call' = call
    BY Zenon, <2>1 DEF upgradeVars
  <2>3. ~Holder(p)' /\ Released(p)'
    BY Zenon, <2>1, <2>2, <1>0 DEF Holder, Released, LoopFits
  <2>4. CallersWait(p)'
    BY Zenon, <2>1, <2>2, <1>0, CallersKept
  <2>5. LoopFits(p)'
    BY Zenon, <2>1, <2>2, <2>3, <2>4, <1>0 DEF LoopFits
  <2> QED
    BY Zenon, <2>1, <2>3, <2>5, <1>0, LoopSteps
<1>3. CASE Offline(p) \/ CancelShutdown(p)
  <2>1. PICK m \in Command : /\ chan' = [chan EXCEPT ![p] = Append(@, m)] /\ m.from = None
                             /\ m.cmd = "start" \/ (CancelShutdown(p) /\ m.cmd = "cancel")
    BY <1>3 DEF Offline, CancelShutdown, Command
  <2>2. /\ UNCHANGED <<upgradeVars, quit, closed, bound, path>> /\ ~closed[p]
        /\ CancelShutdown(p) => ~\E q \in Procs \ {p} : Busy(q)
    BY Zenon, <1>3 DEF Offline, CancelShutdown, Asked, pathVars
  <2>3. chan[p] \in Seq(Command) /\ chan'[p] = Append(chan[p], m) /\ \A q \in Procs \ {p} : chan'[q] = chan[q]
    BY <2>1 DEF TypeOK
  <2>4. main' = main /\ thread' = thread /\ link' = link /\ call' = call
    BY Zenon, <2>2 DEF upgradeVars
  <2>5. /\ Len(chan'[p]) = Len(chan[p]) + 1 /\ DOMAIN chan[p] = 1 .. Len(chan[p]) /\ Len(chan[p]) \in Nat
        /\ DOMAIN chan'[p] = 1 .. Len(chan'[p]) /\ chan'[p][Len(chan[p]) + 1] = m
        /\ \A i \in DOMAIN chan[p] : chan'[p][i] = chan[p][i]
    BY <2>3
  <2>6. ASSUME Operators(m), NEW i \in DOMAIN chan[p] PROVE chan[p][i].from = None
    <3>1. CancelShutdown(p)
      BY Zenon, <2>1, <2>6 DEF Operators
    <3> QED
      BY SMTT(30), <3>1, <2>2, CallerFacts
  <2>7. CallersWait(p)'
    <3>1. ASSUME NEW i \in DOMAIN chan'[p] PROVE Asks(chan[p][i], p)'
      BY SMTT(30), <3>1, <2>1, <2>4, <2>5, <1>0 DEF CallersWait, Asks
    <3>2. ASSUME NEW i \in DOMAIN chan'[p], chan'[p][i].from # None, NEW j \in DOMAIN chan'[p]
          PROVE  (j # i => chan'[p][j].from # chan'[p][i].from) /\ (j > i => ~Operators(chan'[p][j]))
      <4>1. i \in DOMAIN chan[p] /\ chan'[p][i] = chan[p][i]
        BY <3>2, <2>1, <2>5
      <4>2. CASE j \in DOMAIN chan[p]
        BY SMTT(30), <3>2, <4>1, <4>2, <2>5, <1>0 DEF CallersWait
      <4>3. CASE j = Len(chan[p]) + 1
        BY SMTT(30), <3>2, <4>1, <4>3, <2>1, <2>5, <2>6
      <4> QED
        BY <4>2, <4>3, <2>5
    <3> QED
      BY Zenon, <3>1, <3>2 DEF CallersWait, Operators
  <2>8. Released(p)'
    <3>1. SUFFICES ASSUME quit[p] = "handover" PROVE Released(p)'
      BY Zenon, <2>2 DEF Released
    <3>2. main[p] = "serve" /\ call[p] # "confirm" /\ Ordered(chan[p]) /\ (HasCmd(chan[p], "start") \/ \E b \in Procs : Hands(p, b))
      BY Zenon, <3>1, <2>2, <1>0 DEF LoopFits, Released
    <3>3. HasCmd(chan[p], "start") => HasCmd(chan'[p], "start")
      BY SMTT(30), <2>5 DEF HasCmd
    <3>4. Operators(m) => HasCmd(chan[p], "start")
      BY Zenon, <3>1, <2>1, <2>2, <1>a DEF Operators
    <3>5. Ordered(chan'[p])
      <4>1. ASSUME NEW i \in DOMAIN chan[p], Operators(chan'[p][i]) PROVE \E j \in DOMAIN chan'[p] : j < i /\ chan'[p][j].cmd = "start"
        <5>1. PICK j \in DOMAIN chan[p] : j < i /\ chan[p][j].cmd = "start"
          BY Zenon, <4>1, <3>2, <2>5 DEF Ordered
        <5> QED
          BY <5>1, <2>5
      <4>2. ASSUME NEW i, i = Len(chan[p]) + 1, Operators(chan'[p][i]) PROVE \E j \in DOMAIN chan'[p] : j < i /\ chan'[p][j].cmd = "start"
        <5>1. PICK j \in DOMAIN chan[p] : chan[p][j].cmd = "start"
          BY Zenon, <4>2, <3>4, <2>5 DEF HasCmd
        <5> QED
          BY <4>2, <5>1, <2>5
      <4>3. \A i \in DOMAIN chan'[p] : i \in DOMAIN chan[p] \/ i = Len(chan[p]) + 1
        BY <2>5
      <4> QED
        BY Zenon, <4>1, <4>2, <4>3 DEF Ordered
    <3>6. \A b \in Procs : Hands(p, b) => Hands(p, b)'
      BY Zenon, <2>4 DEF Hands, Handing
    <3> QED
      BY Zenon, <3>2, <3>3, <3>5, <3>6, <2>2, <2>4 DEF Released, Ordered, Operators
  <2>9. LoopFits(p)' /\ (Holder(p)' => Holder(p))
    BY Zenon, <2>2, <2>4, <2>7, <2>8, <1>0 DEF LoopFits, Holder
  <2> QED
    BY Zenon, <2>2, <2>3, <2>9, <1>0, LoopSteps
<1> QED
  BY Zenon, <1>1, <1>2, <1>3

-----------------------------------------------------------------------------
(* The commands of the quit loop.                                           *)

(* The process f has called p, and is answered by the step.                 *)
Answered(p, f, cmd) ==
    /\ thread[f] = "rpc" /\ link[f] = p /\ call[f] = cmd /\ main[f] = cmd /\ cmd \in {"release", "cancel"} /\ Busy(f)
    /\ thread'[f] = (IF cmd = "release" THEN "ready" ELSE "end") /\ call'[f] = None
    /\ \A q \in Procs \ {f} : thread'[q] = thread[q] /\ call'[q] = call[q]
    /\ Head(chan[p]).from = f /\ main[p] = "serve" /\ call[p] # "confirm"

(* A command that was handled: the one caller it had, if any, goes on.      *)
LEMMA Handles ==
    ASSUME TypeOK, StartInv, Heard, NEW p \in Procs, NEW cmd, NEW st, Recv(p, cmd), Handled(p, st)
    PROVE  /\ main' = main /\ link' = link /\ closed' = closed /\ chan'[p] = Tail(chan[p]) /\ quit'[p] = st
           /\ \A q \in Procs \ {p} : chan'[q] = chan[q] /\ quit'[q] = quit[q]
           /\ \/ thread' = thread /\ call' = call /\ Head(chan[p]).from = None /\ cmd # "release"
              \/ \E f \in Procs \ {p} : Answered(p, f, cmd)
<1> DEFINE m == Head(chan[p])
<1>0. chan[p] \in Seq(Command) /\ chan[p] # <<>> /\ m.cmd = cmd /\ quit[p] # "off"
  BY Zenon DEF Recv, TypeOK
<1>1. 1 \in DOMAIN chan[p] /\ m = chan[p][1] /\ m \in Command
  BY SMTT(30), <1>0
<1>2. /\ main' = main /\ link' = link /\ closed' = closed /\ chan'[p] = Tail(chan[p]) /\ quit'[p] = st
      /\ \A q \in Procs \ {p} : chan'[q] = chan[q] /\ quit'[q] = quit[q]
  BY DEF Handled, TypeOK
<1>3. /\ thread' = [q \in Procs |-> IF q \notin Callers({m}) THEN thread[q] ELSE IF call[q] = "release" THEN "ready" ELSE "end"]
      /\ call' = [q \in Procs |-> IF q \in Callers({m}) THEN None ELSE call[q]]
  BY Zenon DEF Handled, Reply
<1>4. Callers({m}) = {m.from} \ {None}
  BY Zenon DEF Callers
<1> HIDE DEF m
<1>5. CASE m.from = None
  <2>1. \A q \in Procs : q \notin Callers({m})
    BY Zenon, <1>4, <1>5
  <2>2. thread' = thread /\ call' = call
    BY Zenon, <1>3, <2>1 DEF TypeOK
  <2>3. cmd # "release"
    <3>1. Asks(m, p)
      BY Zenon, <1>1 DEF Heard, LoopFits, CallersWait
    <3> QED
      BY Zenon, <3>1, <1>0, <1>5 DEF Asks
  <2> QED
    BY Zenon, <1>2, <1>5, <2>2, <2>3 DEF m
<1>6. CASE m.from # None
  <2> DEFINE f == m.from
  <2>1. /\ f \in Procs \ {p} /\ thread[f] = "rpc" /\ link[f] = p /\ call[f] = cmd
        /\ call[f] \in {"release", "cancel"} /\ main[f] = call[f] /\ Busy(f) /\ ~Busy(p)
    <3>1. chan[p][1].from # None
      BY Zenon, <1>1, <1>6
    <3>2. LET g == chan[p][1].from IN
          /\ g \in Procs \ {p} /\ thread[g] = "rpc" /\ link[g] = p /\ call[g] = chan[p][1].cmd
          /\ call[g] \in {"release", "cancel"} /\ main[g] = call[g] /\ Busy(g) /\ ~Busy(p)
      BY Zenon, <1>1, <3>1, CallerFacts
    <3> QED
      BY Zenon, <1>0, <1>1, <3>2
  <2>f. f = m.from
    BY Zenon
  <2> HIDE DEF f
  <2>2. \A q \in Procs : q \in Callers({m}) <=> q = f
    BY Zenon, <1>4, <2>f, UpgradeAssumption
  <2>3. /\ thread'[f] = (IF cmd = "release" THEN "ready" ELSE "end") /\ call'[f] = None
        /\ \A q \in Procs \ {f} : thread'[q] = thread[q] /\ call'[q] = call[q]
    BY Zenon, <1>3, <2>1, <2>2
  <2>5. main[p] = "serve" /\ call[p] # "confirm"
    <3>1. LoopFits(p) /\ quit[p] # "off"
      BY Zenon, <1>0 DEF Heard
    <3>2. main[p] \notin {"none", "gone"} \cup Starting
      BY Zenon, <1>0, <2>1, <3>1 DEF Busy, StartInv, EarlyUntouched, Early, LoopFits
    <3> QED
      BY <2>1, <3>2 DEF Busy, TypeOK
  <2>6. Head(chan[p]).from = f
    BY Zenon, <2>f DEF m
  <2> QED
    BY Zenon, <1>2, <2>1, <2>3, <2>5, <2>6 DEF Answered
<1> QED
  BY Zenon, <1>5, <1>6

(* The callers of the commands that remain wait on.                         *)
LEMMA HandledCallers ==
    ASSUME TypeOK, StartInv, Heard, NEW p \in Procs, NEW cmd, NEW st, Recv(p, cmd), Handled(p, st), NEW q \in Procs
    PROVE  CallersWait(q)'
<1>0. CallersWait(q) /\ CallersWait(p) /\ chan[p] \in Seq(Command) /\ chan[p] # <<>>
  BY Zenon DEF Heard, LoopFits, Recv, TypeOK
<1>h. /\ link' = link /\ chan'[p] = Tail(chan[p]) /\ \A x \in Procs \ {p} : chan'[x] = chan[x]
      /\ (thread' = thread /\ call' = call /\ Head(chan[p]).from = None) \/ \E f \in Procs \ {p} : Answered(p, f, cmd)
  BY Handles
<1>1. link' = link /\ chan'[p] = Tail(chan[p]) /\ \A x \in Procs \ {p} : chan'[x] = chan[x]
  BY Zenon, <1>h
<1>2. \A g \in Procs : g # Head(chan[p]).from => thread'[g] = thread[g] /\ call'[g] = call[g]
  BY Zenon, <1>h DEF Answered
<1>3. Head(chan[p]).from # None => link[Head(chan[p]).from] = p
  BY Zenon, <1>h DEF Answered
<1>4. CASE q # p
  BY Zenon, <1>0, <1>1, <1>2, <1>3, <1>4, CallersKept, UpgradeAssumption
<1>5. CASE q = p
  <2>1. /\ 1 \in DOMAIN chan[p] /\ Head(chan[p]) = chan[p][1]
        /\ \A i \in DOMAIN chan'[p] : i \in Nat /\ i + 1 \in DOMAIN chan[p] /\ chan'[p][i] = chan[p][i + 1] /\ 1 # i + 1
    BY <1>0, <1>1
  <2>2. ASSUME NEW i \in DOMAIN chan'[p] PROVE Asks(chan[p][i], p)'
    <3> DEFINE m == chan[p][i + 1]
    <3>0. chan'[p][i] = m /\ i + 1 \in DOMAIN chan[p]
      BY Zenon, <2>1
    <3>1. Asks(m, p) /\ m \in Command
      BY SMTT(30), <3>0, <1>0 DEF CallersWait
    <3>2. m.from # None => m.from # Head(chan[p]).from
      BY Zenon, <2>1, <3>0, <1>0 DEF CallersWait
    <3>3. m.from \in Procs \cup {None}
      BY <3>1 DEF Command
    <3> HIDE DEF m
    <3> QED
      BY Zenon, <3>0, <3>1, <3>2, <3>3, <1>1, <1>2 DEF Asks
  <2>3. ASSUME NEW i \in DOMAIN chan'[p], chan'[p][i].from # None, NEW j \in DOMAIN chan'[p]
        PROVE  (j # i => chan'[p][j].from # chan'[p][i].from) /\ (j > i => ~Operators(chan'[p][j]))
    <3>1. (j + 1 # i + 1 => chan[p][j + 1].from # chan[p][i + 1].from) /\ (j + 1 > i + 1 => ~Operators(chan[p][j + 1]))
      BY Zenon, <2>1, <2>3, <1>0 DEF CallersWait
    <3> QED
      BY <2>1, <3>1
  <2> QED
    BY Zenon, <2>2, <2>3, <1>5 DEF CallersWait, Operators
<1> QED
  BY Zenon, <1>4, <1>5

(* A command of init or of the operator, or a confirmation: the operator    *)
(* cannot cancel a hand-over, as the commands before it have ended it.      *)
LEMMA OrderHandled ==
    ASSUME TypeOK, StartInv, Heard, NEW p \in Procs, ~mishap', Head(chan[p]).from = None,
           StartGracefulShutdown(p) \/ ReleaseController(p) \/ CancelGracefulShutdown(p)
    PROVE  Heard'
<1>0. path.mine \subseteq {path.owner} /\ LoopFits(p)
  BY Zenon DEF Heard
<1>1. PICK cmd, st :
        /\ Recv(p, cmd) /\ Handled(p, st)
        /\ \/ cmd = "start" /\ st = (IF quit[p] \in {"outer", "stop"} THEN "stop" ELSE "drain") /\ UNCHANGED pathVars
           \/ cmd = "release"
           \/ cmd = "cancel" /\ st = (IF quit[p] = "drain" THEN "drain" ELSE "outer")
              /\ IF quit[p] \in {"stop", "handover"} THEN resume_controller(p, None) ELSE UNCHANGED pathVars
  <2>1. CASE StartGracefulShutdown(p)
    BY Zenon, <2>1 DEF StartGracefulShutdown, pathVars
  <2>2. CASE ReleaseController(p)
    BY Zenon, <2>2 DEF ReleaseController
  <2>3. CASE CancelGracefulShutdown(p)
    BY Zenon, <2>3 DEF CancelGracefulShutdown, pathVars
  <2> QED
    BY Zenon, <2>1, <2>2, <2>3
<1>2. quit[p] \notin {"off", "done"} /\ chan[p] # <<>> /\ Head(chan[p]).cmd = cmd
  BY Zenon, <1>1 DEF Recv
<1>3. /\ main' = main /\ link' = link /\ closed' = closed /\ quit'[p] = st /\ thread' = thread /\ call' = call /\ cmd # "release"
      /\ \A q \in Procs \ {p} : chan'[q] = chan[q] /\ quit'[q] = quit[q]
  <2>1. /\ main' = main /\ link' = link /\ closed' = closed /\ quit'[p] = st
        /\ \A q \in Procs \ {p} : chan'[q] = chan[q] /\ quit'[q] = quit[q]
        /\ (thread' = thread /\ call' = call /\ cmd # "release") \/ \E f \in Procs \ {p} : Answered(p, f, cmd)
    BY <1>1, Handles
  <2> QED
    BY Zenon, <2>1, UpgradeAssumption DEF Answered
<1>4. cmd = "cancel" => quit[p] # "handover"
  <2>1. SUFFICES ASSUME cmd = "cancel", quit[p] = "handover" PROVE FALSE
    OBVIOUS
  <2>2. Ordered(chan[p])
    BY Zenon, <2>1, <1>0 DEF LoopFits, Released
  <2>3. chan[p] \in Seq(Command)
    BY Zenon DEF TypeOK
  <2>4. 1 \in DOMAIN chan[p] /\ chan[p][1] = Head(chan[p]) /\ \A j \in DOMAIN chan[p] : ~(j < 1)
    BY <2>3, <1>2
  <2> QED
    BY Zenon, <2>1, <2>2, <2>4, <1>2 DEF Ordered, Operators
<1>5. bound' = bound /\ path' = path
  <2>1. CASE UNCHANGED pathVars
    BY Zenon, <2>1 DEF pathVars
  <2>2. CASE quit[p] = "stop" /\ resume_controller(p, None)
    <3>1. bound[p]
      BY Zenon, <2>2, <1>0 DEF LoopFits
    <3> QED
      BY <2>2, <3>1, Zenon DEF resume_controller, pathVars
  <2> QED
    BY Zenon, <1>1, <1>3, <1>4, <2>1, <2>2
<1>6. /\ st \in {"outer", "stop"} <=> quit[p] \in {"outer", "stop"}
      /\ st \notin {"handover", "off"}
  BY Zenon, <1>1, <1>2, <1>3, <1>4 DEF TypeOK
<1>7. CallersWait(p)'
  BY Zenon, <1>1, HandledCallers
<1>8. (Holder(p)' => Holder(p)) /\ Released(p)'
  BY Zenon, <1>3, <1>6 DEF Holder, Released
<1>9. LoopFits(p)'
  BY Zenon, <1>0, <1>2, <1>3, <1>5, <1>6, <1>7, <1>8 DEF LoopFits
<1> QED
  BY Zenon, <1>0, <1>3, <1>5, <1>8, <1>9, LoopSteps DEF upgradeVars

(* The call of a new process f: its release call drops the controller, its  *)
(* cancellation has the controller bound again.                             *)
LEMMA CallHandled ==
    ASSUME TypeOK, StartInv, Heard, NEW p \in Procs, ~mishap', Head(chan[p]).from # None,
           StartGracefulShutdown(p) \/ ReleaseController(p) \/ CancelGracefulShutdown(p)
    PROVE  Heard'
<1> USE UpgradeAssumption
<1>0. path.mine \subseteq {path.owner} /\ LoopFits(p) /\ OneAtATime
  BY Zenon DEF Heard
<1>1. PICK cmd, st :
        /\ Recv(p, cmd) /\ Handled(p, st)
        /\ \/ cmd = "start"
           \/ cmd = "release" /\ st = (IF quit[p] = "drain" THEN "drain" ELSE "handover")
              /\ IF quit[p] \in {"outer", "stop"} THEN drop_controller(p) ELSE UNCHANGED pathVars
           \/ cmd = "cancel" /\ st = (IF quit[p] = "drain" THEN "drain" ELSE "outer")
              /\ IF quit[p] \in {"stop", "handover"} THEN resume_controller(p, Head(chan[p]).from) ELSE UNCHANGED pathVars
  <2>1. CASE StartGracefulShutdown(p)
    BY Zenon, <2>1 DEF StartGracefulShutdown
  <2>2. CASE ReleaseController(p)
    BY Zenon, <2>2 DEF ReleaseController
  <2>3. CASE CancelGracefulShutdown(p)
    BY Zenon, <2>3 DEF CancelGracefulShutdown, pathVars
  <2> QED
    BY Zenon, <2>1, <2>2, <2>3
<1>2. quit[p] \notin {"off", "done"} /\ chan[p] # <<>> /\ chan[p] \in Seq(Command)
  BY Zenon, <1>1 DEF Recv, TypeOK
<1>h. /\ main' = main /\ link' = link /\ closed' = closed /\ quit'[p] = st /\ chan'[p] = Tail(chan[p])
      /\ \A q \in Procs \ {p} : chan'[q] = chan[q] /\ quit'[q] = quit[q]
      /\ Head(chan[p]).from = None \/ \E f \in Procs \ {p} : Answered(p, f, cmd)
  BY <1>1, Handles
<1>3. PICK f \in Procs \ {p} : Answered(p, f, cmd)
  BY Zenon, <1>h
<1>4. /\ thread[f] = "rpc" /\ link[f] = p /\ call[f] = cmd /\ main[f] = cmd /\ cmd \in {"release", "cancel"} /\ Busy(f)
      /\ thread'[f] = (IF cmd = "release" THEN "ready" ELSE "end") /\ call'[f] = None
      /\ \A q \in Procs \ {f} : thread'[q] = thread[q] /\ call'[q] = call[q]
      /\ Head(chan[p]).from = f /\ main[p] = "serve" /\ call[p] # "confirm"
  BY Zenon, <1>3 DEF Answered
<1>5. \A x \in Procs : (Busy(x)' <=> Busy(x)) /\ (call'[x] = "confirm" => call[x] = "confirm") /\ (Busy(x) => x = f)
  BY Zenon, <1>0, <1>4, <1>h DEF Busy, OneAtATime, Calls
<1>6. ASSUME NEW q \in Procs, q # f, Holder(q) PROVE q = p
  BY Zenon, <1>4, <1>6 DEF Heard, Knows
<1>7. ASSUME NEW q \in Procs \ {p}, Holder(q)' PROVE Holder(q)
  BY Zenon, <1>7, <1>h DEF Holder
<1>8. ~Holder(f)
  BY Zenon, <1>0, <1>4, <1>2 DEF Holder, StartInv, EarlyUntouched, Early
(* The controller.                                                          *)
<1>9. /\ path'.mine \subseteq {path'.owner} /\ \A q \in Procs \ {p} : bound'[q] = bound[q]
      /\ cmd = "release" => ~bound'[p]
      /\ cmd = "cancel" => (st \in {"outer", "stop"} <=> bound'[p]) /\ (st = "outer" => path'.owner = p \/ (path' = path /\ quit[p] \in {"outer", "stop"}))
      /\ st \in {"drain", "handover", "outer"}
  <2>1. CASE cmd = "release"
    <3>1. CASE quit[p] \in {"outer", "stop"}
      BY Zenon, <2>1, <3>1, <1>0, <1>1, DropsOwn
    <3>2. CASE quit[p] \notin {"outer", "stop"}
      <4>1. ~bound[p] /\ path' = path /\ bound' = bound
        BY Zenon, <2>1, <3>2, <1>0, <1>1 DEF LoopFits, pathVars
      <4> QED
        BY Zenon, <2>1, <4>1, <1>0, <1>1
    <3> QED
      BY Zenon, <3>1, <3>2
  <2>2. CASE cmd = "cancel"
    <3>1. CASE quit[p] \notin {"stop", "handover"}
      <4>1. path' = path /\ bound' = bound /\ quit[p] \in {"outer", "drain"}
        BY Zenon, <2>2, <3>1, <1>1, <1>2 DEF pathVars, TypeOK
      <4>2. quit[p] \in {"outer", "stop"} <=> bound[p]
        BY Zenon, <1>0 DEF LoopFits
      <4> QED
        BY Zenon, <2>2, <4>1, <4>2, <1>0, <1>1
    <3>2. CASE quit[p] = "stop"
      <4>1. bound[p] /\ resume_controller(p, f) /\ st = "outer"
        BY Zenon, <2>2, <3>2, <1>0, <1>1, <1>4 DEF LoopFits
      <4>2. path' = path /\ bound' = bound
        BY Zenon, <4>1 DEF resume_controller, pathVars
      <4> QED
        BY Zenon, <2>2, <3>2, <4>1, <4>2, <1>0
    <3>3. CASE quit[p] = "handover"
      <4>1. ~bound[p] /\ resume_controller(p, f) /\ st = "outer"
        BY Zenon, <2>2, <3>3, <1>0, <1>1, <1>4 DEF LoopFits
      <4>2. PICK d : create_daemon(p, d)
        BY <4>1, Zenon DEF resume_controller
      <4> QED
        BY Zenon, <2>2, <4>1, <4>2, CreatesOwn
    <3> QED
      BY Zenon, <3>1, <3>2, <3>3
  <2> QED
    BY Zenon, <2>1, <2>2, <1>4
(* The other processes.                                                     *)
<1>10. ASSUME NEW q \in Procs \ {p} PROVE LoopFits(q)' /\ ~Holder(q)'
  <2>0. ~Holder(q) /\ ~Holder(q)'
    BY Zenon, <1>6, <1>7, <1>8
  <2>1. LoopFits(q) /\ CallersWait(q)'
    BY Zenon, <1>1, HandledCallers DEF Heard
  <2>2. \A b \in Procs : Hands(q, b) => Hands(q, b)'
    <3>1. ASSUME NEW b \in Procs, Hands(q, b) PROVE Hands(q, b)'
      <4>1. b # f
        BY Zenon, <3>1, <1>4 DEF Hands
      <4> QED
        BY Zenon, <3>1, <4>1, <1>4, <1>h DEF Hands, Handing
    <3> QED
      BY Zenon, <3>1
  <2>3. main'[q] = main[q] /\ quit'[q] = quit[q] /\ chan'[q] = chan[q] /\ closed'[q] = closed[q] /\ bound'[q] = bound[q]
    BY Zenon, <1>h, <1>9
  <2> QED
    BY Zenon, <2>0, <2>1, <2>2, <2>3, <1>5, LoopKept
<1>11. Released(p)'
  <2>1. CASE quit'[p] # "handover"
    BY Zenon, <2>1 DEF Released
  <2>2. CASE quit'[p] = "handover"
    <3>1. cmd = "release"
      BY Zenon, <2>2, <1>1, <1>4, <1>h
    <3>2. Hands(p, f)'
      BY Zenon, <3>1, <1>4, <1>h DEF Hands, Handing
    <3>3. Ordered(chan'[p])
      <4>1. /\ 1 \in DOMAIN chan[p] /\ Head(chan[p]) = chan[p][1]
            /\ \A i \in DOMAIN chan'[p] : i + 1 \in DOMAIN chan[p] /\ chan'[p][i] = chan[p][i + 1] /\ i + 1 > 1
        BY <1>2, <1>h
      <4>2. chan[p][1].from # None /\ CallersWait(p)
        BY Zenon, <4>1, <1>0 DEF LoopFits
      <4>3. ASSUME NEW i \in DOMAIN chan'[p] PROVE ~Operators(chan'[p][i])
        BY Zenon, <4>1, <4>2 DEF CallersWait
      <4> QED
        BY Zenon, <4>3 DEF Ordered
    <3> QED
      BY Zenon, <3>2, <3>3, <1>4, <1>5, <1>h DEF Released, Ordered, Operators
  <2> QED
    BY Zenon, <2>1, <2>2
<1>12. LoopFits(p)'
  <2>1. Holder(p)' => path'.owner = p
    <3>1. SUFFICES ASSUME Holder(p)' PROVE path'.owner = p
      BY Zenon
    <3>2. st = "outer" /\ cmd = "cancel"
      BY Zenon, <3>1, <1>1, <1>4, <1>9, <1>h DEF Holder
    <3>3. path' = path /\ quit[p] \in {"outer", "stop"} => Holder(p)
      BY Zenon, <3>1, <1>h DEF Holder
    <3> QED
      BY Zenon, <3>2, <3>3, <1>0, <1>9 DEF LoopFits
  <2>2. quit'[p] \in {"outer", "stop"} <=> bound'[p]
    BY Zenon, <1>1, <1>4, <1>9, <1>h
  <2>3. CallersWait(p)'
    BY Zenon, <1>1, HandledCallers
  <2>4. main'[p] # "gone"
    BY Zenon, <1>4, <1>h
  <2> QED
    BY Zenon, <2>1, <2>2, <2>3, <2>4, <1>11 DEF LoopFits
<1>13. ASSUME NEW b \in Procs, NEW q \in Procs PROVE Knows(b, q)'
  <2>1. SUFFICES ASSUME Holder(q)', q # b, Busy(b)' PROVE Knows(b, q)'
    BY Zenon DEF Knows
  <2>2. q = p /\ b = f
    BY Zenon, <2>1, <1>5, <1>10
  <2>3. cmd = "cancel"
    BY Zenon, <2>1, <2>2, <1>1, <1>4, <1>9, <1>h DEF Holder
  <2>4. ~Unasked(f)' /\ link'[f] = p
    BY Zenon, <2>3, <1>4, <1>h DEF Unasked, Handing, Calls
  <2> QED
    BY Zenon, <2>2, <2>4 DEF Knows
<1>14. OneAtATime'
  BY Zenon, <1>5 DEF OneAtATime
<1> QED
  BY Zenon, <1>9, <1>10, <1>12, <1>13, <1>14 DEF Heard

-----------------------------------------------------------------------------
(* The end of a process.                                                    *)

(* Its callers go on, each by its own call.                                 *)
LEMMA Ends ==
    ASSUME TypeOK, StartInv, Heard, NEW p \in Procs, End(p)
    PROVE  /\ main'[p] = "gone" /\ quit'[p] = "off" /\ chan'[p] = <<>> /\ thread'[p] = "end" /\ call'[p] = None
           /\ link' = link /\ closed' = closed
           /\ \A q \in Procs \ {p} :
                 /\ main'[q] = main[q] /\ quit'[q] = quit[q] /\ chan'[q] = chan[q]
                 /\ \/ thread'[q] = thread[q] /\ call'[q] = call[q]
                    \/ thread[q] = "rpc" /\ link[q] = p /\ Busy(q) /\ call'[q] = None
<1> DEFINE ps == Callers(Pending(p))
<1>1. /\ thread' = [q \in Procs |-> IF q = p THEN "end" ELSE IF q \notin ps THEN thread[q]
                                      ELSE IF call[q] = "release" THEN "ready" ELSE "end"]
      /\ call' = [q \in Procs |-> IF q \in ps \cup {p} THEN None ELSE call[q]]
  BY Zenon DEF End
<1>2. ASSUME NEW q \in ps PROVE thread[q] = "rpc" /\ link[q] = p /\ Busy(q)
  <2>1. PICK i \in DOMAIN chan[p] : chan[p][i].from = q /\ q # None
    BY <1>2, Zenon DEF Callers, Pending
  <2> QED
    BY SMTT(30), <2>1, CallerFacts
<1>3. /\ main' = [main EXCEPT ![p] = "gone"] /\ quit' = [quit EXCEPT ![p] = "off"] /\ chan' = [chan EXCEPT ![p] = <<>>]
      /\ link' = link /\ closed' = closed
  BY Zenon DEF End
<1> HIDE DEF ps
<1>4. thread'[p] = "end" /\ call'[p] = None
  BY Zenon, <1>1
<1>5. ASSUME NEW q \in Procs \ {p}
      PROVE  \/ thread'[q] = thread[q] /\ call'[q] = call[q]
             \/ thread[q] = "rpc" /\ link[q] = p /\ Busy(q) /\ call'[q] = None
  BY Zenon, <1>1, <1>2
<1> QED
  BY Zenon, <1>3, <1>4, <1>5 DEF TypeOK

(* A process ends whose word nobody waits for.  The old process has not     *)
(* answered the release call of another, so that one finds it gone.         *)
LEMMA EndStep ==
    ASSUME TypeOK, StartInv, Heard, NEW p \in Procs, ~mishap',
           Crash(p) \/ StartFails(p) \/ ExitFailed(p) \/ ExitDone(p)
    PROVE  Heard'
<1> USE UpgradeAssumption
<1>0. path.mine \subseteq {path.owner} /\ OneAtATime
  BY Zenon DEF Heard
<1>1. End(p) /\ call[p] \notin {"release", "cancel"} /\ \A o \in Procs : ~Hands(o, p)
  <2>1. CASE ExitFailed(p)
    BY Zenon, <2>1 DEF ExitFailed, Hands, Handing, Calls
  <2>2. CASE Crash(p) \/ StartFails(p) \/ ExitDone(p)
    <3>1. End(p) /\ ~Unheard(p)
      BY Zenon, <2>2 DEF Crash, StartFails, ExitDone
    <3>2. call[p] \notin {"release", "cancel"}
      BY Zenon, <3>1 DEF Unheard, Busy, Starting, StartInv, CallsMatch, Calls
    <3> QED
      BY Zenon, <3>1, <3>2, HandsBusy DEF Unheard
  <2> QED
    BY Zenon, <2>1, <2>2
<1>2. /\ path'.mine \subseteq {path'.owner} /\ ~bound'[p]
      /\ \A q \in Procs \ {p} : (path.owner = q => path'.owner = q) /\ bound'[q] = bound[q]
  <2>1. CASE Crash(p)
    BY Zenon, <2>1, <1>0 DEF Crash, TypeOK
  <2>2. CASE drop_controller(p)
    BY Zenon, <2>2, <1>0, DropsOwn
  <2> QED
    BY Zenon, <2>1, <2>2 DEF StartFails, ExitFailed, ExitDone
<1>3. /\ main'[p] = "gone" /\ quit'[p] = "off" /\ chan'[p] = <<>> /\ thread'[p] = "end" /\ call'[p] = None
      /\ link' = link /\ closed' = closed
      /\ \A q \in Procs \ {p} :
            /\ main'[q] = main[q] /\ quit'[q] = quit[q] /\ chan'[q] = chan[q]
            /\ \/ thread'[q] = thread[q] /\ call'[q] = call[q]
               \/ thread[q] = "rpc" /\ link[q] = p /\ Busy(q) /\ call'[q] = None
  BY Zenon, <1>1, Ends
<1>4. \A q \in Procs : (Busy(q)' => Busy(q) /\ q # p) /\ (Holder(q)' => Holder(q) /\ q # p) /\ (call'[q] = "confirm" => call[q] = "confirm")
  BY Zenon, <1>3 DEF Busy, Holder, Starting, Calls
<1>5. LoopFits(p)'
  <2>1. CallersWait(p)'
    BY <1>3 DEF CallersWait
  <2> QED
    BY Zenon, <2>1, <1>2, <1>3 DEF LoopFits, Holder, Released
<1>6. ASSUME NEW q \in Procs \ {p} PROVE LoopFits(q)'
  <2>1. LoopFits(q) /\ CallersWait(q)
    BY Zenon DEF Heard, LoopFits
  <2>2. CallersWait(q)'
    BY Zenon, <2>1, <1>1, <1>3, CallersKept
  <2>3. ASSUME NEW b \in Procs, Hands(q, b) PROVE Hands(q, b)'
    <3>1. b # p /\ link[b] = q
      BY Zenon, <2>3, <1>1 DEF Hands
    <3>2. thread'[b] = thread[b] /\ call'[b] = call[b] /\ main'[b] = main[b]
      BY Zenon, <3>1, <1>3
    <3> QED
      BY Zenon, <2>3, <3>2, <1>3 DEF Hands, Handing
  <2> QED
    BY Zenon, <2>1, <2>2, <2>3, <1>2, <1>3, <1>4, LoopKept
<1>7. ASSUME NEW b \in Procs, NEW q \in Procs PROVE Knows(b, q)'
  <2>1. SUFFICES ASSUME Holder(q)', q # b, Busy(b)' PROVE Knows(b, q)'
    BY Zenon DEF Knows
  <2>2. Holder(q) /\ Busy(b) /\ q # p /\ b # p /\ Knows(b, q)
    BY Zenon, <2>1, <1>4 DEF Heard
  <2>3. ~(thread[b] = "rpc" /\ link[b] = p)
    BY Zenon, <2>1, <2>2 DEF Knows
  <2>4. thread'[b] = thread[b] /\ call'[b] = call[b] /\ main'[b] = main[b]
    BY Zenon, <2>2, <2>3, <1>3
  <2> QED
    BY Zenon, <2>2, <2>4, <1>3, <1>4, KnowsKept
<1>8. OneAtATime'
  BY Zenon, <1>0, <1>4 DEF OneAtATime
<1> QED
  BY Zenon, <1>2, <1>5, <1>6, <1>7, <1>8 DEF Heard

-----------------------------------------------------------------------------
(* The start of a process.                                                  *)

(* A step of main or of the thread of p, which has no controller yet or     *)
(* keeps the one it has.                                                    *)
LEMMA MainSteps ==
    ASSUME TypeOK, StartInv, Heard, NEW p \in Procs,
           UNCHANGED <<quit, chan, closed, bound, path>>,
           \A q \in Procs \ {p} : main'[q] = main[q] /\ thread'[q] = thread[q] /\ link'[q] = link[q] /\ call'[q] = call[q],
           thread[p] # "rpc" \/ call[p] \notin {"release", "cancel"},
           quit[p] # "handover", main'[p] # "gone",
           main[p] = "cancel" => main'[p] = "cancel",
           Busy(p)' => Busy(p) \/ ~AnyBusy,
           \A o \in Procs : Hands(o, p) => Hands(o, p)',
           \A q \in Procs : Knows(p, q)'
    PROVE  Heard'
<1>1. \A q \in Procs : Holder(q)' => Holder(q)
  BY Zenon DEF Holder
<1>2. OneAtATime'
  BY Zenon DEF Heard, OneAtATime, Busy, AnyBusy
<1>3. ASSUME NEW q \in Procs PROVE LoopFits(q)'
  <2>1. LoopFits(q) /\ CallersWait(q)
    BY Zenon DEF Heard, LoopFits
  <2>2. CallersWait(q)'
    BY Zenon, <2>1, CallersKept
  <2>3. ASSUME NEW b \in Procs, Hands(q, b) PROVE Hands(q, b)'
    BY Zenon, <2>3 DEF Hands, Handing
  <2>4. CASE q # p
    BY Zenon, <2>1, <2>2, <2>3, <2>4, LoopKept
  <2>5. CASE q = p
    <3>1. Released(p)'
      BY Zenon DEF Released
    <3> QED
      BY Zenon, <2>1, <2>2, <2>5, <3>1, <1>1 DEF LoopFits
  <2> QED
    BY Zenon, <2>4, <2>5
<1>4. ASSUME NEW b \in Procs, NEW q \in Procs PROVE Knows(b, q)'
  <2>1. CASE b # p
    BY Zenon, <2>1, <1>1, KnowsKept DEF Heard
  <2> QED
    BY Zenon, <2>1
<1> QED
  BY Zenon, <1>2, <1>3, <1>4 DEF Heard

(* A new process connects to the one that has a controller, if any, and     *)
(* goes on with what that one has answered.                                 *)
LEMMA MainStep ==
    ASSUME TypeOK, StartInv, Heard, NEW p \in Procs, ~mishap',
           Start(p) \/ connect_rpc(p) \/ ConfigLoad(p) \/ release_old_controller(p) \/ load_and_spawn(p)
    PROVE  Heard'
<1> USE UpgradeAssumption DEF Calls
<1>0. /\ LoopFits(p) /\ \A q \in Procs : Knows(p, q) /\ LoopFits(q)
      /\ quit[p] = "handover" => main[p] = "serve"
  BY Zenon DEF Heard, LoopFits, Released
<1>a. /\ main[p] \in {"none", "config", "bind", "load"} => call[p] = None
      /\ thread[p] = "connect" => main[p] \in {"config", "release", "cancel"}
      /\ thread[p] = "connect" /\ main[p] = "release" => call[p] = "release"
      /\ thread[p] = "connect" => call[p] # "confirm"
      /\ main[p] = "release" /\ call[p] = None => thread[p] \notin {"connect", "lost"}
      /\ main[p] = "load" => thread[p] \notin {"connect", "lost"}
  BY Zenon DEF StartInv, CallsMatch, EarlyUntouched
<1>1. CASE Start(p)
  <2>1. /\ main[p] = "none" /\ ~AnyBusy /\ main'[p] = "config" /\ thread'[p] = "connect" /\ link'[p] = link[p] /\ call'[p] = call[p]
        /\ UNCHANGED <<quit, chan, closed, bound, path>>
        /\ \A q \in Procs \ {p} : main'[q] = main[q] /\ thread'[q] = thread[q] /\ link'[q] = link[q] /\ call'[q] = call[q]
    BY Zenon, <1>1 DEF Start, quitVars, pathVars, TypeOK
  <2>2. \A o \in Procs : ~Hands(o, p)
    BY Zenon, <2>1, HandsBusy DEF AnyBusy
  <2>3. \A q \in Procs : Knows(p, q)'
    BY Zenon, <2>1, <1>a DEF Knows, Unasked, Handing
  <2> QED
    BY Zenon, <2>1, <2>2, <2>3, <1>0, <1>a, MainSteps
<1>2. CASE connect_rpc(p)
  <2>1. /\ thread[p] = "connect" /\ main'[p] = main[p]
        /\ UNCHANGED <<quit, chan, closed, bound, path>>
        /\ \A q \in Procs \ {p} : main'[q] = main[q] /\ thread'[q] = thread[q] /\ link'[q] = link[q] /\ call'[q] = call[q]
        /\ \/ link'[p] = path.owner /\ thread'[p] = "ready" /\ call'[p] = call[p]
           \/ ~(path.owner # None /\ bound[path.owner]) /\ call'[p] = None
    <3>1. thread[p] = "connect" /\ main' = main /\ UNCHANGED <<quit, chan, closed, bound, path>>
      BY Zenon, <1>2 DEF connect_rpc, quitVars, pathVars
    <3>2. CASE /\ link' = [link EXCEPT ![p] = path.owner] /\ thread' = [thread EXCEPT ![p] = "ready"] /\ call' = call
      BY Zenon, <3>1, <3>2 DEF TypeOK
    <3>3. CASE /\ ~(path.owner # None /\ bound[path.owner])
               /\ thread' = [thread EXCEPT ![p] = "end"] /\ call' = [call EXCEPT ![p] = None] /\ link' = link
      BY Zenon, <3>1, <3>3 DEF TypeOK
    <3> QED
      BY Zenon, <1>2, <3>2, <3>3 DEF connect_rpc
  <2>2. \A o \in Procs : ~Hands(o, p)
    BY Zenon, <2>1, <1>a DEF Hands
  <2>3. ASSUME NEW q \in Procs PROVE Knows(p, q)'
    <3>1. SUFFICES ASSUME Holder(q), q # p PROVE Knows(p, q)'
      BY Zenon, <2>1 DEF Knows, Holder
    <3>2. path.owner = q /\ bound[q] /\ q # None
      BY Zenon, <3>1, <1>0 DEF LoopFits, Holder
    <3>3. link'[p] = q /\ thread'[p] = "ready" /\ call'[p] = call[p]
      BY Zenon, <2>1, <3>2
    <3>4. ~Unasked(p)'
      BY Zenon, <2>1, <3>3, <1>a DEF Unasked, Handing
    <3> QED
      BY Zenon, <3>3, <3>4 DEF Knows
  <2>4. Busy(p)' => Busy(p)
    BY Zenon, <2>1 DEF Busy
  <2>5. quit[p] # "handover" /\ main[p] # "gone"
    BY Zenon, <2>1, <1>0, <1>a
  <2> QED
    BY Zenon, <2>1, <2>2, <2>3, <2>4, <2>5, MainSteps
<1>3. CASE ConfigLoad(p)
  <2>1. /\ main[p] = "config" /\ UNCHANGED <<link, quit, chan, closed, bound, path>>
        /\ \A q \in Procs \ {p} : main'[q] = main[q] /\ thread'[q] = thread[q] /\ call'[q] = call[q]
        /\ \/ main'[p] = "release" /\ call'[p] = (IF thread[p] = "end" THEN None ELSE "release") /\ thread'[p] \in {thread[p], "lost"}
           \/ main'[p] = "cancel" /\ call'[p] # "confirm" /\ thread'[p] = thread[p]
    <3>1. main[p] = "config" /\ UNCHANGED <<link, quit, chan, closed, bound, path>>
      BY Zenon, <1>3 DEF ConfigLoad, quitVars, pathVars
    <3>2. CASE main' = [main EXCEPT ![p] = "release"] /\ Ask(p, "release") /\ (thread' = thread \/ thread' = [thread EXCEPT ![p] = "lost"])
      BY <3>1, <3>2 DEF Ask, TypeOK
    <3>3. CASE main' = [main EXCEPT ![p] = "cancel"] /\ Ask(p, "cancel") /\ thread' = thread
      BY <3>1, <3>3 DEF Ask, TypeOK
    <3> QED
      BY Zenon, <1>3, <3>2, <3>3 DEF ConfigLoad
  <2>2. \A o \in Procs : ~Hands(o, p)
    BY Zenon, <2>1, HandsBusy
  <2>3. ASSUME NEW q \in Procs PROVE Knows(p, q)'
    <3>1. SUFFICES ASSUME Holder(q), q # p PROVE Knows(p, q)'
      BY Zenon, <2>1 DEF Knows, Holder
    <3>2. Busy(p)
      BY Zenon, <2>1 DEF Busy, Starting
    <3>3. thread[p] # "end" /\ (thread[p] \in {"connect", "lost"} \/ link[p] = q)
      BY Zenon, <2>1, <3>1, <3>2, <1>0 DEF Knows, Unasked
    <3>4. ~Unasked(p)'
      BY Zenon, <2>1, <3>3 DEF Unasked, Handing
    <3> QED
      BY Zenon, <2>1, <3>3, <3>4 DEF Knows
  <2>4. Busy(p) /\ quit[p] # "handover" /\ main'[p] # "gone" /\ call[p] \notin {"release", "cancel"}
    BY Zenon, <2>1, <1>0, <1>a DEF Busy, Starting
  <2> QED
    BY Zenon, <2>1, <2>2, <2>3, <2>4, MainSteps
<1>4. CASE release_old_controller(p)
  <2>1. /\ main[p] = "release" /\ call[p] = None /\ main'[p] = "bind" /\ UNCHANGED <<thread, link, call, quit, chan, closed, bound, path>>
        /\ \A q \in Procs \ {p} : main'[q] = main[q]
    BY Zenon, <1>4 DEF release_old_controller, quitVars, pathVars, TypeOK
  <2>2. \A o \in Procs : Hands(o, p) => Hands(o, p)'
    BY Zenon, <2>1 DEF Hands, Handing
  <2>3. \A q \in Procs : Knows(p, q)'
    BY Zenon, <2>1, <1>0 DEF Knows, Holder, Busy, Starting, Unasked, Handing
  <2>4. Busy(p) /\ quit[p] # "handover"
    BY Zenon, <2>1, <1>0 DEF Busy, Starting
  <2> QED
    BY Zenon, <2>1, <2>2, <2>3, <2>4, MainSteps
<1>5. CASE load_and_spawn(p)
  <2>1. /\ main[p] = "load" /\ UNCHANGED <<thread, link, quit, chan, closed, bound, path>>
        /\ \A q \in Procs \ {p} : main'[q] = main[q] /\ call'[q] = call[q]
        /\ \/ main'[p] = "serve" /\ call'[p] = (IF thread[p] = "end" THEN None ELSE "confirm")
           \/ main'[p] = "cancel" /\ call'[p] = (IF thread[p] = "end" THEN None ELSE "cancel")
    <3>1. main[p] = "load" /\ UNCHANGED <<thread, link, quit, chan, closed, bound, path>>
      BY Zenon, <1>5 DEF load_and_spawn, quitVars, pathVars
    <3>2. CASE main' = [main EXCEPT ![p] = "serve"] /\ Ask(p, "confirm")
      BY <3>1, <3>2 DEF Ask, TypeOK
    <3>3. CASE main' = [main EXCEPT ![p] = "cancel"] /\ Ask(p, "cancel")
      BY <3>1, <3>3 DEF Ask, TypeOK
    <3> QED
      BY Zenon, <1>5, <3>2, <3>3 DEF load_and_spawn
  <2>2. \A o \in Procs : Hands(o, p) => Hands(o, p)'
    BY Zenon, <2>1, <1>a DEF Hands, Handing
  <2>3. ASSUME NEW q \in Procs PROVE Knows(p, q)'
    <3>1. q # p => ~Holder(q)
      BY Zenon, <2>1, <1>0 DEF Knows, Busy, Starting, Unasked, Handing
    <3> QED
      BY Zenon, <2>1, <3>1 DEF Knows, Holder
  <2>4. Busy(p) /\ quit[p] # "handover" /\ call[p] \notin {"release", "cancel"}
    BY Zenon, <2>1, <1>0, <1>a DEF Busy, Starting
  <2> QED
    BY Zenon, <2>1, <2>2, <2>3, <2>4, MainSteps
<1> QED
  BY Zenon, <1>1, <1>2, <1>3, <1>4, <1>5

(* A new process binds its controller when no other has one.                *)
LEMMA BindStep == ASSUME TypeOK, StartInv, Heard, NEW p \in Procs, ~mishap', start_daemon(p) PROVE Heard'
<1> USE UpgradeAssumption DEF Calls
<1>1. /\ main[p] = "bind" /\ main'[p] = "load" /\ quit'[p] = "outer" /\ create_daemon(p, FALSE)
      /\ UNCHANGED <<thread, link, call, chan, closed>>
      /\ \A q \in Procs \ {p} : main'[q] = main[q] /\ quit'[q] = quit[q]
  BY Zenon DEF start_daemon, TypeOK
<1>2. /\ path'.mine \subseteq {path'.owner} /\ path'.owner = p
      /\ bound'[p] /\ \A q \in Procs \ {p} : bound'[q] = bound[q]
  BY Zenon, <1>1, CreatesOwn
<1>3. OneAtATime /\ Busy(p) /\ \A q \in Procs : Knows(p, q) /\ LoopFits(q) /\ CallersWait(q)
  BY Zenon, <1>1 DEF Heard, LoopFits, Busy, Starting
<1>4. \A q \in Procs : Busy(q)' => q = p
  BY Zenon, <1>1, <1>3 DEF Busy, OneAtATime
<1>5. ASSUME NEW q \in Procs \ {p} PROVE ~Holder(q) /\ ~Holder(q)'
  <2>1. ~Holder(q)
    BY Zenon, <1>1, <1>3 DEF Knows, Unasked, Handing
  <2> QED
    BY Zenon, <2>1, <1>1 DEF Holder
<1>6. ASSUME NEW q \in Procs PROVE CallersWait(q)'
  BY Zenon, <1>1, <1>3, CallersKept
<1>7. ASSUME NEW q \in Procs PROVE LoopFits(q)'
  <2>1. ASSUME NEW b \in Procs, Hands(q, b) PROVE Hands(q, b)'
    BY Zenon, <2>1, <1>1 DEF Hands, Handing
  <2>2. CASE q # p
    BY Zenon, <2>1, <2>2, <1>1, <1>2, <1>3, <1>5, <1>6, LoopKept
  <2>3. CASE q = p
    BY Zenon, <2>3, <1>1, <1>2, <1>6 DEF LoopFits, Released
  <2> QED
    BY Zenon, <2>2, <2>3
<1>8. \A b, q \in Procs : Knows(b, q)'
  BY Zenon, <1>4, <1>5 DEF Knows
<1>9. OneAtATime'
  BY Zenon, <1>4 DEF OneAtATime
<1> QED
  BY Zenon, <1>2, <1>7, <1>8, <1>9 DEF Heard

(* A message of the new process p reaches the old one, or finds it gone.    *)
LEMMA CallStep == ASSUME TypeOK, StartInv, Heard, NEW p \in Procs, connect_run(p) PROVE Heard'
<1> USE UpgradeAssumption DEF Calls
<1> DEFINE o == link[p]
           open == main[o] # "gone" /\ quit[o] \notin {"off", "done"} /\ ~closed[o]
           cmd == IF call[p] = "confirm" THEN "start" ELSE call[p]
           m == [cmd |-> cmd, from |-> IF cmd = "start" THEN None ELSE p]
<1>0. path.mine \subseteq {path.owner} /\ OneAtATime /\ \A q \in Procs : Knows(p, q) /\ LoopFits(q) /\ CallersWait(q)
  BY Zenon DEF Heard, LoopFits
<1>1. thread[p] = "ready" /\ call[p] \in Calls /\ UNCHANGED <<main, link, quit, closed, bound, path>>
  BY DEF connect_run, TypeOK, pathVars
<1>m. m \in Command
  BY Zenon, <1>1 DEF Command
<1>2. PICK e \in Command : e = m
  BY Zenon, <1>m
<1>3. (call[p] = "confirm" => e.from = None /\ e.cmd = "start") /\ (call[p] # "confirm" => e.from = p /\ e.cmd = call[p])
  BY <1>1, <1>2
<1>4. /\ chan' = IF open THEN [chan EXCEPT ![o] = Append(@, e)] ELSE chan
      /\ IF open /\ call[p] # "confirm" THEN thread' = [thread EXCEPT ![p] = "rpc"] /\ call' = call ELSE Reply({p})
  BY <1>1, <1>2 DEF connect_run
<1> HIDE DEF m, cmd
<1>5. /\ \A q \in Procs \ {p} : thread'[q] = thread[q] /\ call'[q] = call[q]
      /\ open /\ call[p] # "confirm" => thread'[p] = "rpc" /\ call'[p] = call[p]
      /\ ~(open /\ call[p] # "confirm") => call'[p] = None /\ thread'[p] = IF call[p] = "release" THEN "ready" ELSE "end"
  <2>1. CASE open /\ call[p] # "confirm"
    BY <2>1, <1>4 DEF TypeOK
  <2>2. CASE ~(open /\ call[p] # "confirm")
    BY <2>2, <1>4 DEF TypeOK, Reply
  <2> QED
    BY Zenon, <2>1, <2>2
<1>6. /\ \A q \in Procs : q # o \/ ~open => chan'[q] = chan[q]
      /\ o \in Procs /\ open => chan'[o] = Append(chan[o], e)
  BY Zenon, <1>4 DEF TypeOK
<1>7. \A q \in Procs : (Busy(q)' => Busy(q)) /\ (Holder(q)' <=> Holder(q)) /\ (call'[q] = "confirm" => call[q] = "confirm")
  BY Zenon, <1>1, <1>5 DEF Busy, Holder
<1>8. /\ call[p] = "release" => main[p] = "release"
      /\ call[p] = "cancel" => main[p] = "cancel"
      /\ call[p] = "confirm" => main[p] = "serve"
      /\ Busy(p)
  BY Zenon, <1>1 DEF StartInv, CallsMatch, Busy, Starting
(* The channel of the old process.                                          *)
<1>9. ASSUME NEW q \in Procs, q = o, open
      PROVE  CallersWait(q)' /\ (Ordered(chan[q]) => Ordered(chan'[q])) /\ (HasCmd(chan[q], "start") \/ call[p] = "confirm" => HasCmd(chan'[q], "start"))
  <2>1. chan[q] \in Seq(Command) /\ chan'[q] = Append(chan[q], e)
    BY Zenon, <1>6, <1>9 DEF TypeOK
  <2>2. /\ Len(chan'[q]) = Len(chan[q]) + 1 /\ DOMAIN chan[q] = 1 .. Len(chan[q]) /\ Len(chan[q]) \in Nat
        /\ DOMAIN chan'[q] = 1 .. Len(chan'[q]) /\ chan'[q][Len(chan[q]) + 1] = e
        /\ \A i \in DOMAIN chan[q] : chan'[q][i] = chan[q][i] /\ chan[q][i] \in Command
    BY SMTT(30), <2>1
  <2>3. \A i \in DOMAIN chan'[q] : i \in DOMAIN chan[q] \/ i = Len(chan[q]) + 1
    BY <2>2
  <2>4. ~Operators(e)
    BY Zenon, <1>1, <1>3 DEF Operators
  <2>5. ASSUME NEW i \in DOMAIN chan[q] PROVE chan[q][i].from # p /\ chan[q][i].from \in Procs \cup {None}
    <3>1. Asks(chan[q][i], q) /\ chan[q][i] \in Command
      BY Zenon, <2>2, <1>0 DEF CallersWait
    <3>2. chan[q][i].from \in Procs \cup {None}
      BY <3>1 DEF Command
    <3> QED
      BY Zenon, <3>1, <3>2, <1>1 DEF Asks
  <2>6. ASSUME NEW i \in DOMAIN chan'[q] PROVE Asks(chan[q][i], q)'
    <3>1. CASE i \in DOMAIN chan[q]
      <4>1. Asks(chan[q][i], q) /\ chan'[q][i] = chan[q][i]
        BY Zenon, <3>1, <2>2, <1>0 DEF CallersWait
      <4> QED
        BY <3>1, <4>1, <2>5, <1>1, <1>5 DEF Asks
    <3>2. CASE i = Len(chan[q]) + 1
      <4>1. chan'[q][i] = e
        BY Zenon, <3>2, <2>2
      <4> QED
        BY Zenon, <4>1, <1>1, <1>3, <1>5, <1>9 DEF Asks
    <3> QED
      BY Zenon, <3>1, <3>2, <2>3
  <2>7. ASSUME NEW i \in DOMAIN chan'[q], chan'[q][i].from # None, NEW j \in DOMAIN chan'[q]
        PROVE  (j # i => chan'[q][j].from # chan'[q][i].from) /\ (j > i => ~Operators(chan'[q][j]))
    <3>1. CASE i \in DOMAIN chan[q] /\ j \in DOMAIN chan[q]
      <4>1. chan'[q][i] = chan[q][i] /\ chan'[q][j] = chan[q][j] /\ CallersWait(q)
        BY Zenon, <3>1, <2>2, <1>0
      <4> QED
        BY Zenon, <3>1, <4>1, <2>7 DEF CallersWait
    <3>2. CASE i \in DOMAIN chan[q] /\ j = Len(chan[q]) + 1
      <4>1. chan'[q][j] = e /\ chan'[q][i] = chan[q][i]
        BY Zenon, <3>2, <2>2
      <4>2. e.from # chan[q][i].from
        BY Zenon, <3>2, <4>1, <2>5, <2>7, <1>3
      <4> QED
        BY Zenon, <4>1, <4>2, <2>4
    <3>3. CASE i = Len(chan[q]) + 1 /\ j \in DOMAIN chan[q]
      <4>1. chan'[q][i] = e /\ chan'[q][j] = chan[q][j] /\ ~(j > i)
        BY <3>3, <2>2
      <4>2. e.from # chan[q][j].from
        BY Zenon, <3>3, <4>1, <2>5, <2>7, <1>3
      <4> QED
        BY Zenon, <4>1, <4>2
    <3>4. CASE i = Len(chan[q]) + 1 /\ j = Len(chan[q]) + 1
      BY <3>4, <2>2
    <3> QED
      BY Zenon, <3>1, <3>2, <3>3, <3>4, <2>3
  <2>8. CallersWait(q)'
    BY Zenon, <2>6, <2>7 DEF CallersWait, Operators
  <2>9. ASSUME Ordered(chan[q]) PROVE Ordered(chan'[q])
    <3>1. ASSUME NEW i \in DOMAIN chan'[q], Operators(chan'[q][i]) PROVE \E j \in DOMAIN chan'[q] : j < i /\ chan'[q][j].cmd = "start"
      <4>1. i \in DOMAIN chan[q] /\ Operators(chan[q][i])
        BY Zenon, <3>1, <2>2, <2>3, <2>4
      <4>2. PICK j \in DOMAIN chan[q] : j < i /\ chan[q][j].cmd = "start"
        BY Zenon, <4>1, <2>9 DEF Ordered
      <4> QED
        BY <4>2, <2>2
    <3> QED
      BY Zenon, <3>1 DEF Ordered
  <2>10. HasCmd(chan[q], "start") \/ call[p] = "confirm" => HasCmd(chan'[q], "start")
    BY <2>2, <1>3 DEF HasCmd
  <2> QED
    BY Zenon, <2>8, <2>9, <2>10
<1>10. ASSUME NEW q \in Procs PROVE LoopFits(q)'
  <2>1. LoopFits(q) /\ CallersWait(q)'
    BY Zenon, <1>0, <1>1, <1>5, <1>6, <1>9, CallersKept
  <2>2. Released(q)'
    <3>1. SUFFICES ASSUME quit[q] = "handover" PROVE Released(q)'
      BY Zenon, <1>1 DEF Released
    <3>2. main[q] = "serve" /\ call[q] # "confirm" /\ Ordered(chan[q]) /\ (~closed[q] => HasCmd(chan[q], "start") \/ \E b \in Procs : Hands(q, b))
      BY Zenon, <3>1, <2>1 DEF LoopFits, Released
    <3>3. Ordered(chan'[q]) /\ (HasCmd(chan[q], "start") => HasCmd(chan'[q], "start"))
      BY Zenon, <3>2, <1>6, <1>9
    <3>4. ASSUME NEW b \in Procs, Hands(q, b), ~closed[q] PROVE Hands(q, b)' \/ HasCmd(chan'[q], "start")
      <4>1. CASE b # p
        BY Zenon, <3>4, <4>1, <1>1, <1>5 DEF Hands, Handing
      <4>2. CASE b = p
        <5>1. q = o /\ open /\ call[p] \in {"confirm", "cancel"}
          BY Zenon, <3>1, <3>2, <3>4, <4>2, <1>1, <1>8 DEF Hands, Handing
        <5>2. CASE call[p] = "confirm"
          BY Zenon, <5>1, <5>2, <1>9
        <5>3. CASE call[p] = "cancel"
          BY Zenon, <5>1, <5>3, <4>2, <1>1, <1>5, <1>8 DEF Hands
        <5> QED
          BY Zenon, <5>1, <5>2, <5>3
      <4> QED
        BY Zenon, <4>1, <4>2
    <3> QED
      BY Zenon, <3>1, <3>2, <3>3, <3>4, <1>1, <1>7 DEF Released, Ordered, Operators, HasCmd
  <2> QED
    BY Zenon, <2>1, <2>2, <1>1, <1>7 DEF LoopFits
<1>11. ASSUME NEW b \in Procs, NEW q \in Procs PROVE Knows(b, q)'
  <2>1. CASE b # p
    BY Zenon, <2>1, <1>1, <1>5, <1>7, KnowsKept DEF Heard
  <2>2. CASE b = p
    <3>1. SUFFICES ASSUME Holder(q), q # p, Busy(p)' PROVE Knows(p, q)'
      BY Zenon, <2>2, <1>7 DEF Knows
    <3>2. q = o
      BY Zenon, <3>1, <1>0, <1>1, <1>8 DEF Knows
    <3>3. open
      BY Zenon, <3>1, <3>2, <1>0 DEF Holder, LoopFits
    <3>4. call[p] # "confirm"
      BY Zenon, <3>1, <1>1, <1>5, <1>8 DEF Busy, Starting
    <3>5. ~Unasked(p)'
      BY Zenon, <3>3, <3>4, <1>1, <1>5, <1>8 DEF Unasked, Handing
    <3> QED
      BY Zenon, <3>2, <3>5, <1>1 DEF Knows
  <2> QED
    BY Zenon, <2>1, <2>2
<1>12. OneAtATime'
  BY Zenon, <1>0, <1>7 DEF OneAtATime
<1> QED
  BY Zenon, <1>0, <1>1, <1>10, <1>11, <1>12 DEF Heard

-----------------------------------------------------------------------------
(* Every step keeps what was heard, or is a mishap.                         *)
LEMMA HeardStep == TypeOK /\ StartInv /\ HeardInv /\ [Next]_vars => HeardInv'
<1> SUFFICES ASSUME TypeOK, StartInv, HeardInv, [Next]_vars, ~mishap' PROVE Heard'
  BY Zenon DEF HeardInv
<1>1. Heard
  BY Zenon, MishapStays DEF HeardInv
<1>2. CASE UNCHANGED vars
  <2>1. UNCHANGED <<main, thread, link, call, quit, chan, closed, bound, path>>
    BY Zenon, <1>2 DEF vars
  <2>2. ASSUME NEW q \in Procs PROVE LoopFits(q)'
    <3>1. LoopFits(q) /\ CallersWait(q)
      BY Zenon, <1>1 DEF Heard, LoopFits
    <3>2. CallersWait(q)'
      BY Zenon, <3>1, <2>1, CallersKept
    <3>3. \A b \in Procs : Hands(q, b) => Hands(q, b)'
      BY Zenon, <2>1 DEF Hands, Handing
    <3> QED
      BY Zenon, <3>1, <3>2, <3>3, <2>1, LoopKept
  <2>3. \A b, q \in Procs : Knows(b, q)'
    BY Zenon, <1>1, <2>1, KnowsKept DEF Heard, Holder
  <2> QED
    BY Zenon, <1>1, <2>1, <2>2, <2>3 DEF Heard, OneAtATime, Busy
<1>3. ASSUME NEW p \in Procs, QuitLoop(p) \/ OfflineTimeout(p) \/ graceful_shutdown(p) PROVE Heard'
  BY Zenon, <1>1, <1>3, OrderHandled, CallHandled, RequestStep DEF QuitLoop
<1>4. ASSUME NEW p \in Procs, Upgrade(p) PROVE Heard'
  BY Zenon, <1>1, <1>4, MainStep, BindStep, CallStep, EndStep DEF Upgrade
<1>5. ASSUME NEW p \in Procs, Environment(p) PROVE Heard'
  BY Zenon, <1>1, <1>5, MainStep, RequestStep, EndStep DEF Environment
<1> QED
  BY Zenon, <1>2, <1>3, <1>4, <1>5 DEF Next

(* The first process serves and has the socket.                             *)
LEMMA HeardInit == Init => HeardInv
<1> SUFFICES ASSUME Init PROVE Heard
  BY Zenon DEF HeardInv
<1> USE UpgradeAssumption DEF Calls
<1>1. /\ \A p \in Procs : /\ main[p] = IF p = First THEN "serve" ELSE "none"
                          /\ quit[p] = IF p = First THEN "outer" ELSE "off"
                          /\ call[p] = None /\ chan[p] = <<>> /\ (bound[p] <=> p = First)
      /\ path.owner = First /\ path.mine = {First}
  BY DEF Init
<1>2. ASSUME NEW p \in Procs PROVE ~Busy(p) /\ Released(p) /\ CallersWait(p) /\ (Holder(p) => p = First)
  <2>1. CallersWait(p)
    BY <1>1 DEF CallersWait
  <2> QED
    BY Zenon, <2>1, <1>1 DEF Busy, Starting, Released, Holder
<1> QED
  BY Zenon, <1>1, <1>2 DEF Heard, OneAtATime, LoopFits, Knows

(* What was heard stays so, through all that a group of processes does.     *)
LEMMA AlwaysHeard == Spec => [](TypeOK /\ StartInv /\ OrderInv /\ HeardInv)
<1>1. Init => TypeOK /\ StartInv /\ HeardInv
  BY Zenon, TypeInit, StartInit, HeardInit
<1>2. TypeOK /\ StartInv /\ HeardInv /\ [Next]_vars => (TypeOK /\ StartInv /\ HeardInv)'
  BY Zenon, TypeStep, StartStep, HeardStep
<1> QED
  BY <1>1, <1>2, AlwaysOrdered, PTL DEF Spec

(* The socket leads to each process that serves and has its controller,     *)
(* through hand-overs, cancelled ones, crashes and requests in any order,   *)
(* until a mishap: a release is followed by the word of the new process, or *)
(* the controller is not bound again.                                       *)
THEOREM SocketLeadsToServer == Spec => []ControllerReachable
<1>1. HeardInv => ControllerReachable
  BY Zenon DEF HeardInv, Heard, LoopFits, Holder, ControllerReachable, Up
<1> QED
  BY <1>1, AlwaysHeard, PTL

(* Only one process is left serving without an order to stop, once no start *)
(* is under way, until a mishap: one that has released its controller has   *)
(* the confirmation by then, and two controllers exclude each other.        *)
THEOREM OneProcessServes == Spec => []OneServes
<1>1. ASSUME StartInv, OrderInv, HeardInv, ~mishap, ~AnyBusy, NEW p \in Procs, Stays(p) PROVE path.owner = p
  <2>1. LoopFits(p) /\ Unordered(p)
    BY Zenon, <1>1 DEF HeardInv, Heard, OrderInv
  <2>2. quit[p] # "handover"
    <3>1. ASSUME quit[p] = "handover" PROVE FALSE
      <4>1. PICK b \in Procs : Hands(p, b)
        BY Zenon, <1>1, <2>1, <3>1 DEF Stays, Unordered, LoopFits, Released
      <4> QED
        BY Zenon, <4>1, <1>1, HandsBusy DEF AnyBusy
    <3> QED
      BY Zenon, <3>1
  <2> QED
    BY Zenon, <1>1, <2>1, <2>2 DEF Stays, Up, LoopFits, Holder
<1>2. StartInv /\ OrderInv /\ HeardInv => OneServes
  BY Zenon, <1>1 DEF OneServes
<1> QED
  BY <1>2, AlwaysHeard, PTL
=============================================================================
