------------------------- MODULE EscaperLoadProofs -------------------------
(***************************************************************************)
(* What a reload of everything and a reload of one escaper do to the       *)
(* running escapers, step by step and in any interleaving: what load_all   *)
(* leaves running is what is configured, and the mixture of old and new    *)
(* escapers has no loop that the check could have seen.  Then the theorems *)
(* about the reload control plane, for any number of escapers, servers,    *)
(* files and operations.                                                   *)
(***************************************************************************)
EXTENDS EscaperRegistryProofs, FiniteSetTheorems

---------------------------------------------------------------------------
(* What the reloads rely on. *)

(* applied falls when the registry of configurations is cleared, and rises *)
(* only at the end of load_all.                                            *)
TurnInv == applied => full \in {"idle", "auditors", "servers", "spawn"}

(* The names of the plan that load_all has come to.                        *)
Done == Configured(plan) \ todo

(* load_all holds ESCAPER_OPS_LOCK, so that the configuration stays what   *)
(* it planned with; Done run as planned, and where the check sees the      *)
(* plan, they depend on each other only.                                   *)
FullInv ==
    /\ full \in {"load", "delete"} =>
         /\ plan = conf /\ ~Loops(plan)
         /\ \A n \in Done : Deps(run, n) = Deps(plan, n)
         /\ ~blind => Seen(plan) /\ Complete(plan) /\ \A n \in Done : Deps(plan, n) \subseteq Done
    /\ full = "delete" =>
         /\ dels \cap Configured(plan) = {}
         /\ \A n \in Names \ (Configured(plan) \cup dels) : Deps(run, n) = {}

(* The reload of one escaper: conf is ahead of run by what it has read,    *)
(* until a reload of everything clears it.                                 *)
OneSync ==
    /\ applied /\ one.st \in {"idle", "read", "follow"} => Same(run, conf)
    /\ applied /\ one.st \in {"check", "load"} =>
         conf[one.got] = one.new /\ \A n \in Names \ {one.got} : Deps(conf, n) = Deps(run, n)
    /\ applied /\ one.st = "check" => Deps(run, one.got) = IF one.old = None THEN {} ELSE one.old.next
    /\ one.st = "load" /\ ~blind => ~HasLoop([run EXCEPT ![one.name] = one.new])

LoadInv == TurnInv /\ FullInv /\ OneSync /\ NoLoop

(* A step beside the reloads: the dependencies stay what they are.         *)
Aside == Same(run', run) /\ UNCHANGED <<confVars, loadVars, full, one, applied, blind>>

(* The operations on resolvers, auditors and servers, and the recursion of *)
(* update_dependency_to_escaper, are such steps.                           *)
LEMMA AsideSteps ==
    ASSUME Shape,
           \/ FullUpdates \/ UsersBegin \/ UsersEnd \/ (\E s \in Servers : ServerBegin(s))
           \/ ServerBuild \/ ServerAdd \/ ServerSame \/ Work \/ UNCHANGED vars
    PROVE  Aside
<1>1. CASE FullUpdates \/ UsersBegin \/ UsersEnd \/ (\E s \in Servers : ServerBegin(s)) \/ ServerAdd \/ ServerSame
  <2>1. UNCHANGED <<run, confVars, loadVars, full, one, applied, blind>>
    BY Zenon, <1>1 DEF FullUpdates, UsersBegin, UsersEnd, ServerBegin, ServerAdd, ServerSame, srvRest
  <2> QED
    BY Zenon, <2>1 DEF Aside, Same
<1>2. CASE ServerBuild
  <2>1. PICK n \in Names : run' = WithDefault({n})
    BY Zenon, <1>2 DEF ServerBuild
  <2>2. UNCHANGED <<confVars, loadVars, full, one, applied, blind>>
    BY Zenon, <1>2 DEF ServerBuild, srvRest
  <2> QED
    BY Zenon, <2>1, <2>2, DefaultSame DEF Aside
<1>3. CASE Work
  <2>1. work # <<>> /\ UNCHANGED <<confVars, loadVars, full, one, applied, blind>>
    BY Zenon, <1>3 DEF Work
  <2> DEFINE n == Head(work).name
  <2>2. n \in Names
    BY Zenon, <2>1, WorkTasks DEF Task
  <2> HIDE DEF n
  <2>3. ASSUME reload_existed(n) PROVE Same(run', run)
    <3>1. run[n] \in Sections /\ run[n] # None /\ add(n, run[n])
      BY Zenon, <2>2, <2>3 DEF reload_existed, Shape, TypeOK, Configs
    <3>2. Deps(run', n) = run[n].next /\ \A m \in Names \ {n} : Deps(run', m) = Deps(run, m)
      BY Zenon, <2>2, <3>1, AddDeps
    <3> QED
      BY Zenon, <3>1, <3>2 DEF Same, Deps
  <2>4. ASSUME serve_update(n) PROVE Same(run', run)
    BY Zenon, <2>4, DefaultSame DEF serve_update, Same
  <2>5. ASSUME update_dependency(n) \/ reload_fails(n) PROVE Same(run', run)
    BY Zenon, <2>5 DEF update_dependency, reload_fails, Same
  <2>6. update_dependency(n) \/ reload_existed(n) \/ reload_fails(n) \/ serve_update(n)
    BY Zenon, <1>3 DEF Work, n
  <2> QED
    BY Zenon, <2>1, <2>3, <2>4, <2>5, <2>6 DEF Aside
<1>4. CASE UNCHANGED vars
  BY Zenon, <1>4 DEF vars, Aside, Same, confVars, loadVars
<1> QED
  BY Zenon, <1>1, <1>2, <1>3, <1>4

(* OneSync is about the dependencies that run.                             *)
LEMMA OneQuiet ==
    ASSUME Shape, OneSync, Same(run', run), run' \in Configs, UNCHANGED <<conf, one, applied>>, blind => blind'
    PROVE  OneSync'
<1>1. \A n \in Names : Deps(run', n) = Deps(run, n)
  BY Zenon DEF Same
<1>2. Same(run, conf) => Same(run', conf')
  BY Zenon, <1>1 DEF Same
<1>3. applied /\ one.st \in {"check", "load"} =>
       conf'[one.got] = one.new /\ \A n \in Names \ {one.got} : Deps(conf', n) = Deps(run', n)
  BY Zenon, <1>1 DEF OneSync
<1>4. applied /\ one.st = "check" => Deps(run', one.got) = IF one.old = None THEN {} ELSE one.old.next
  BY Zenon, <1>1 DEF OneSync, Shape, OneInv
<1>5. ASSUME one.st = "load", ~blind' PROVE ~HasLoop([run' EXCEPT ![one.name] = one.new])
  <2>1. one.name \in Names /\ run \in Configs
    BY Zenon, <1>5 DEF Shape, TypeOK, OneInv
  <2>2. \A n \in Names : [run' EXCEPT ![one.name] = one.new][n] = IF n = one.name THEN one.new ELSE run'[n]
    BY Zenon, <2>1 DEF Configs
  <2>3. \A n \in Names : [run EXCEPT ![one.name] = one.new][n] = IF n = one.name THEN one.new ELSE run[n]
    BY Zenon, <2>1 DEF Configs
  <2>4. Same([run EXCEPT ![one.name] = one.new], [run' EXCEPT ![one.name] = one.new])
    BY <1>1, <2>2, <2>3 DEF Same, Deps
  <2> QED
    BY Zenon, <1>5, <2>4, SameLoops DEF OneSync
<1> QED
  BY Zenon, <1>2, <1>3, <1>4, <1>5 DEF OneSync

(* NoLoop is, too.                                                         *)
LEMMA LoopQuiet ==
    ASSUME NoLoop, Same(run', run), blind => blind'
    PROVE  NoLoop'
  BY Zenon, SameLoops DEF NoLoop

(* A step beside the reloads keeps what holds of them.                     *)
LEMMA AsideKeeps ==
    ASSUME Shape, Shape', LoadInv, Aside
    PROVE  LoadInv'
<1>1. conf' = conf /\ plan' = plan /\ todo' = todo /\ dels' = dels /\ full' = full /\ one' = one
      /\ (applied' <=> applied) /\ (blind' <=> blind)
  BY Zenon DEF Aside, confVars, loadVars
<1>2. \A n \in Names : Deps(run', n) = Deps(run, n)
  BY Zenon DEF Aside, Same
<1>3. NoLoop'
  BY Zenon, <1>1, LoopQuiet DEF LoadInv, Aside
<1>4. TurnInv'
  BY Zenon, <1>1 DEF LoadInv, TurnInv
<1>5. OneSync'
  BY Zenon, <1>1, OneQuiet DEF LoadInv, Aside, Shape, TypeOK
<1>6. Done' = Done /\ Done \subseteq Names
  BY Zenon, <1>1 DEF Done, Configured
<1>7. FullInv'
  <2>1. FullInv
    BY Zenon DEF LoadInv
  <2>2. full \in {"load", "delete"} => \A n \in Done' : Deps(run', n) = Deps(plan', n)
    BY Zenon, <2>1, <1>1, <1>2, <1>6 DEF FullInv
  <2>3. full = "delete" =>
         /\ dels' \cap Configured(plan') = {}
         /\ \A n \in Names \ (Configured(plan') \cup dels') : Deps(run', n) = {}
    BY Zenon, <2>1, <1>1, <1>2 DEF FullInv
  <2> QED
    BY Zenon, <2>1, <2>2, <2>3, <1>1, <1>6 DEF FullInv
<1> QED
  BY Zenon, <1>3, <1>4, <1>5, <1>7 DEF LoadInv

(* While load_all holds the lock no reload of one escaper is under way,    *)
(* and the other way round; nothing is applied before it has ended.        *)
LEMMA InTurn ==
    ASSUME Shape, TurnInv
    PROVE  /\ full \in {"load", "delete"} => one.st = "idle" /\ ~applied
           /\ one'.st = "idle" /\ ~applied' => OneSync'
           /\ one.st # "idle" => full \notin {"load", "delete"}
           /\ full' \notin {"load", "delete"} => FullInv'
  BY DEF Shape, LockInv, TurnInv, OneSync, FullInv

(* The next of load_all finds everything it depends on loaded, if the      *)
(* check sees its plan.                                                    *)
LEMMA NextIsReady ==
    ASSUME Counting, Shape, FullInv, full = "load", NEW n \in sorted_first(build_topology_map(plan), todo)
    PROVE  /\ n \in Names /\ plan[n] \in Sections /\ Deps(plan, n) = plan[n].next
           /\ n \in Configured(plan) /\ n \notin Done
           /\ ~blind => Deps(plan, n) \subseteq Done
<1>1. n \in todo /\ todo \subseteq Configured(plan) /\ plan \in Configs
  BY Zenon DEF sorted_first, Shape, TypeOK, PlanInv
<1>2. n \in Names /\ plan[n] \in Sections /\ Deps(plan, n) = plan[n].next
  BY Zenon, <1>1 DEF Configured, Configs, Deps
<1>3. todo \in SUBSET Names /\ build_topology_map(plan) \in Configs /\ ~HasLoop(build_topology_map(plan))
  BY Zenon, <1>1, TopologyMap DEF Configured, FullInv, Loops
<1>4. Deps(build_topology_map(plan), n) \cap todo = {}
  BY Zenon, <1>3, FirstIsReady
<1>5. ASSUME ~blind PROVE Deps(plan, n) \subseteq Done
  <2>1. Deps(build_topology_map(plan), n) = Deps(plan, n) /\ Deps(plan, n) \subseteq Configured(plan)
    BY Zenon, <1>2, <1>5 DEF FullInv, Seen, Complete
  <2> QED
    BY Zenon, <1>4, <2>1 DEF Done
<1> QED
  BY Zenon, <1>1, <1>2, <1>5 DEF Done

(* Where the check sees a configuration, it finds every loop of it.        *)
LEMMA SeenLoops ==
    ASSUME NEW g, Seen(g), ~Loops(g)
    PROVE  ~HasLoop(g)
  BY Zenon, SameLoops DEF Seen, Loops, Same

(* Every step of the reload of everything keeps LoadInv.                   *)
LEMMA FullKeeps ==
    ASSUME Counting, Shape, Shape', LoadInv,
           \/ reload_all \/ ReadSection \/ ReadAll \/ FullUsers \/ LoadAll \/ LoadNext \/ LoadSame
           \/ LoadedAll \/ DeleteNext \/ DeletedAll \/ FullFails \/ SpawnAll \/ ServerEnd
    PROVE  LoadInv'
<1> USE DEF LoadInv
<1>Q. ASSUME UNCHANGED <<conf, run, one, applied>>, blind => blind' PROVE OneSync' /\ NoLoop'
  <2>1. Same(run', run) /\ run' \in Configs
    BY Zenon, <1>Q DEF Same, Shape, TypeOK
  <2> QED
    BY Zenon, <1>Q, <2>1, OneQuiet, LoopQuiet
<1>1. CASE reload_all
  <2>1. full' = "config" /\ ~applied' /\ UNCHANGED <<run, one, blind>>
    BY Zenon, <1>1 DEF reload_all
  <2>2. TurnInv' /\ FullInv' /\ NoLoop'
    BY Zenon, <2>1, InTurn DEF TurnInv, NoLoop
  <2>3. OneSync'
    BY Zenon, <2>1 DEF OneSync
  <2> QED
    BY Zenon, <2>2, <2>3
<1>2. CASE ReadSection
  <2>1. full = "config" /\ UNCHANGED <<run, full, one, applied, blind>>
    BY Zenon, <1>2 DEF ReadSection
  <2>2. ~applied'
    BY Zenon, <2>1 DEF TurnInv
  <2>3. TurnInv' /\ FullInv' /\ NoLoop'
    BY Zenon, <2>1, <2>2, InTurn DEF TurnInv, NoLoop
  <2>4. OneSync'
    BY Zenon, <2>1, <2>2 DEF OneSync
  <2> QED
    BY Zenon, <2>3, <2>4
<1>3. CASE ReadAll \/ FullUsers \/ SpawnAll
  <2>1. /\ \/ full = "config" /\ full' = "resolvers"
           \/ full = "resolvers" /\ full' = "escapers"
           \/ full = "auditors" /\ full' = "servers"
           \/ full = "servers" /\ full' = "spawn"
        /\ UNCHANGED <<conf, run, one, applied, blind>>
    BY Zenon, <1>3 DEF ReadAll, FullUsers, SpawnAll, srvRest, confVars
  <2>2. TurnInv' /\ FullInv'
    BY Zenon, <2>1, InTurn DEF TurnInv
  <2> QED
    BY Zenon, <1>Q, <2>1, <2>2
<1>4. CASE LoadAll
  <2>1. /\ full = "escapers" /\ full' = "load" /\ plan' = conf /\ todo' = Configured(conf) /\ ~Loops(conf)
        /\ UNCHANGED <<conf, run, one, applied>>
        /\ blind' = (blind \/ ~Seen(conf) \/ ~Complete(conf))
    BY Zenon, <1>4 DEF LoadAll, confVars
  <2>2. Done' = {} /\ (blind => blind') /\ ~applied'
    BY Zenon, <2>1 DEF Done, TurnInv
  <2>3. FullInv'
    BY Zenon, <2>1, <2>2 DEF FullInv
  <2> QED
    BY Zenon, <1>Q, <2>1, <2>2, <2>3 DEF TurnInv
<1>5. CASE LoadNext
  <2>1. PICK n \in sorted_first(build_topology_map(plan), todo) : todo' = todo \ {n} /\ add(n, plan[n])
    BY Zenon, <1>5 DEF LoadNext
  <2>2. full = "load" /\ UNCHANGED <<conf, full, plan, one, applied, blind>>
    BY Zenon, <1>5 DEF LoadNext, confVars
  <2>3. /\ n \in Names /\ plan[n] \in Sections /\ Deps(plan, n) = plan[n].next
        /\ n \in Configured(plan) /\ n \notin Done
        /\ ~blind => Deps(plan, n) \subseteq Done
    BY Zenon, <2>1, <2>2, NextIsReady
  <2>4. Deps(run', n) = Deps(plan, n) /\ \A m \in Names \ {n} : Deps(run', m) = Deps(run, m)
    BY Zenon, <2>1, <2>3, AddDeps
  <2>5. Done' = Done \cup {n} /\ Done \in SUBSET Names
    BY Zenon, <2>1, <2>2, <2>3 DEF Done, Configured
  <2>6. /\ \A m \in Done : Deps(run, m) = Deps(plan, m)
        /\ ~blind => Seen(plan) /\ Complete(plan) /\ \A m \in Done : Deps(plan, m) \subseteq Done
    BY Zenon, <2>2 DEF FullInv
  <2>7. ASSUME ~blind PROVE ~HasLoop(run')
    <3>1. ~HasLoop(run) /\ ~HasLoop(plan)
      BY Zenon, <2>2, <2>6, <2>7, SeenLoops DEF FullInv, NoLoop
    <3>2. \A x \in Done : Deps(plan, x) \subseteq Done /\ Deps(run, x) = Deps(plan, x)
      BY Zenon, <2>6, <2>7
    <3>3. Deps(plan, n) \subseteq Done
      BY Zenon, <2>3, <2>7
    <3> QED
      BY Zenon, <2>3, <2>4, <2>5, <3>1, <3>2, <3>3, LoadKeepsAcyclic
  <2>8. \A m \in Done' : Deps(run', m) = Deps(plan', m)
    BY Zenon, <2>2, <2>3, <2>4, <2>5, <2>6
  <2>9. ~blind' => Seen(plan') /\ Complete(plan') /\ \A m \in Done' : Deps(plan', m) \subseteq Done'
    BY Zenon, <2>2, <2>3, <2>5, <2>6
  <2>10. FullInv'
    BY Zenon, <2>2, <2>8, <2>9 DEF FullInv
  <2> QED
    BY Zenon, <2>2, <2>7, <2>10, InTurn DEF TurnInv, NoLoop
<1>6. CASE LoadSame
  <2>1. PICK n \in sorted_first(build_topology_map(plan), todo) : run[n] = plan[n] /\ todo' = todo \ {n}
    BY Zenon, <1>6 DEF LoadSame
  <2>2. full = "load" /\ UNCHANGED <<conf, run, full, plan, one, applied, blind>>
    BY Zenon, <1>6 DEF LoadSame, confVars
  <2>3. /\ n \in Configured(plan) /\ (~blind => Deps(plan, n) \subseteq Done)
        /\ Deps(run, n) = Deps(plan, n)
    BY Zenon, <2>1, <2>2, NextIsReady DEF Deps
  <2>4. Done' = Done \cup {n}
    BY Zenon, <2>1, <2>2, <2>3 DEF Done
  <2>5. /\ \A m \in Done' : Deps(run', m) = Deps(plan', m)
        /\ ~blind' => Seen(plan') /\ Complete(plan') /\ \A m \in Done' : Deps(plan', m) \subseteq Done'
    BY Zenon, <2>2, <2>3, <2>4 DEF FullInv
  <2>6. FullInv'
    BY Zenon, <2>2, <2>5 DEF FullInv
  <2> QED
    BY Zenon, <1>Q, <2>2, <2>6 DEF TurnInv
<1>7. CASE LoadedAll
  <2>1. /\ full = "load" /\ full' = "delete" /\ dels' = Leftover
        /\ UNCHANGED <<conf, run, plan, todo, one, applied, blind>>
    BY Zenon, <1>7 DEF LoadedAll, confVars
  <2>2. Done' = Done
    BY Zenon, <2>1 DEF Done
  <2>3. /\ dels' \cap Configured(plan') = {}
        /\ \A n \in Names \ (Configured(plan') \cup dels') : Deps(run', n) = {}
    BY Zenon, <2>1 DEF Leftover, Configured, Deps
  <2>4. FullInv'
    BY Zenon, <2>1, <2>2, <2>3 DEF FullInv
  <2>5. TurnInv'
    BY Zenon, <2>1 DEF TurnInv
  <2> QED
    BY Zenon, <1>Q, <2>1, <2>4, <2>5
<1>8. CASE DeleteNext
  <2>1. PICK n \in dels : dels' = dels \ {n} /\ del(n)
    BY Zenon, <1>8 DEF DeleteNext
  <2>2. full = "delete" /\ UNCHANGED <<conf, full, plan, todo, one, applied, blind>>
    BY Zenon, <1>8 DEF DeleteNext, confVars
  <2>3. n \in Names /\ n \notin Configured(plan)
    BY Zenon, <2>1, <2>2 DEF FullInv, Shape, TypeOK
  <2>4. Deps(run', n) = {} /\ \A m \in Names \ {n} : Deps(run', m) = Deps(run, m)
    BY <2>1, <2>3, DelDeps
  <2>5. NoLoop'
    BY Zenon, <2>2, <2>4, FewerDeps DEF NoLoop
  <2>6. Done' = Done /\ Done \subseteq Names /\ n \notin Done
    BY Zenon, <2>2, <2>3 DEF Done, Configured
  <2>7. /\ dels' \cap Configured(plan') = {}
        /\ \A m \in Names \ (Configured(plan') \cup dels') : Deps(run', m) = {}
    BY Zenon, <2>1, <2>2, <2>4 DEF FullInv
  <2>8. \A m \in Done' : Deps(run', m) = Deps(plan', m)
    BY Zenon, <2>2, <2>4, <2>6 DEF FullInv
  <2>9. FullInv'
    BY Zenon, <2>2, <2>6, <2>7, <2>8 DEF FullInv
  <2> QED
    BY Zenon, <2>2, <2>5, <2>9, InTurn DEF TurnInv
<1>9. CASE DeletedAll
  <2>1. /\ full = "delete" /\ full' = "auditors" /\ dels = {} /\ todo = {}
        /\ UNCHANGED <<conf, run, one, blind>>
    BY Zenon, <1>9 DEF DeletedAll, confVars, Shape, PlanInv
  <2>2. Same(run, conf)
    <3>1. ASSUME NEW n \in Names PROVE Deps(run, n) = Deps(conf, n)
      <4>1. n \in Configured(plan) => Deps(run, n) = Deps(plan, n)
        BY Zenon, <2>1 DEF FullInv, Done
      <4>2. n \notin Configured(plan) => Deps(run, n) = {} /\ Deps(plan, n) = {}
        BY Zenon, <2>1 DEF FullInv, Configured, Deps
      <4> QED
        BY Zenon, <2>1, <4>1, <4>2 DEF FullInv
    <3> QED
      BY Zenon, <3>1 DEF Same
  <2>3. one'.st = "idle" /\ Same(run', conf')
    BY Zenon, <2>1, <2>2, InTurn DEF Same
  <2>4. OneSync' /\ TurnInv' /\ FullInv'
    BY Zenon, <2>1, <2>3, InTurn DEF OneSync, TurnInv
  <2> QED
    BY Zenon, <2>1, <2>4 DEF NoLoop
<1>10. CASE FullFails \/ ServerEnd
  <2>1. UNCHANGED <<conf, run, one, applied, blind>>
    BY Zenon, <1>10 DEF FullFails, ServerEnd, srvRest, confVars
  <2>2. full' = "idle" \/ UNCHANGED <<full, plan, todo, dels>>
    BY Zenon, <1>10 DEF FullFails, ServerEnd, srvRest, loadVars
  <2>3. CASE full' = "idle"
    BY Zenon, <1>Q, <2>1, <2>3, InTurn DEF TurnInv
  <2>4. CASE UNCHANGED <<full, plan, todo, dels>>
    <3>1. Done' = Done
      BY Zenon, <2>4 DEF Done
    <3>2. FullInv' /\ TurnInv'
      BY Zenon, <2>1, <2>4, <3>1 DEF FullInv, TurnInv
    <3> QED
      BY Zenon, <1>Q, <2>1, <3>2
  <2> QED
    BY Zenon, <2>2, <2>3, <2>4
<1> QED
  BY Zenon, <1>1, <1>2, <1>3, <1>4, <1>5, <1>6, <1>7, <1>8, <1>9, <1>10

(* Every step of the reload of one escaper keeps LoadInv.                  *)
LEMMA OneKeeps ==
    ASSUME Shape, LoadInv,
           \/ (\E n \in Names : reload_one(n))
           \/ OneRead \/ OneLoops \/ OneChecked \/ OneSame \/ OneLoad \/ OneDone \/ OneFails
    PROVE  LoadInv'
<1> USE DEF LoadInv
<1>1. ASSUME NEW n \in Names, reload_one(n) PROVE LoadInv'
  <2>1. lock = None /\ one'.st = "read" /\ UNCHANGED <<run, confVars, loadVars, full, applied, blind>>
    BY Zenon, <1>1 DEF reload_one, Idle
  <2>2. one.st = "idle" /\ full \notin {"load", "delete"}
    BY Zenon, <2>1, RegistryAssumption DEF Shape, LockInv
  <2>3. applied => Same(run', conf')
    BY Zenon, <2>1, <2>2 DEF OneSync, confVars, Same
  <2>4. TurnInv' /\ FullInv'
    BY Zenon, <2>1, <2>2, InTurn DEF TurnInv
  <2>5. OneSync' /\ NoLoop'
    BY Zenon, <2>1, <2>3 DEF OneSync, NoLoop
  <2> QED
    BY Zenon, <2>4, <2>5
<1>2. ASSUME one.st # "idle", UNCHANGED full, applied' => applied PROVE TurnInv' /\ FullInv'
  BY Zenon, <1>2, InTurn DEF TurnInv
<1>3. CASE OneRead
  <2>1. PICK d \in Docs, m \in Names :
          /\ d[m] # None /\ conf' = [conf EXCEPT ![m] = d[m]]
          /\ one' = [one EXCEPT !.st = "check", !.got = m, !.new = d[m], !.old = conf[m]]
    BY Zenon, <1>3 DEF OneRead
  <2>2. one.st = "read" /\ UNCHANGED <<run, full, applied, blind>>
    BY Zenon, <1>3 DEF OneRead
  <2>3. one'.st = "check" /\ one'.got = m /\ one'.new = d[m] /\ one'.old = conf[m]
    BY Zenon, <2>1 DEF Shape, TypeOK
  <2>4. ASSUME applied
        PROVE  /\ conf'[m] = d[m] /\ \A n \in Names \ {m} : Deps(conf', n) = Deps(run', n)
               /\ Deps(run', m) = IF conf[m] = None THEN {} ELSE conf[m].next
    <3>1. Same(run, conf)
      BY Zenon, <2>2, <2>4 DEF OneSync
    <3>2. conf'[m] = d[m] /\ \A n \in Names \ {m} : conf'[n] = conf[n]
      BY Zenon, <2>1 DEF Shape, TypeOK, Configs
    <3> QED
      BY Zenon, <2>2, <3>1, <3>2 DEF Same, Deps
  <2>5. OneSync'
    BY Zenon, <2>2, <2>3, <2>4 DEF OneSync
  <2> QED
    BY Zenon, <2>2, <2>5, <1>2 DEF NoLoop
<1>4. CASE OneLoops
  <2>1. one.st = "check" /\ one' = Idle /\ UNCHANGED <<run, full, applied, blind>>
    BY Zenon, <1>4 DEF OneLoops, OneEnds
  <2>2. conf' = [conf EXCEPT ![one.got] = one.old] /\ one.got \in Names
    BY Zenon, <1>4 DEF OneLoops, Shape, OneInv
  <2>3. ASSUME applied PROVE Same(run', conf')
    <3>1. conf'[one.got] = one.old /\ \A n \in Names \ {one.got} : conf'[n] = conf[n]
      BY Zenon, <2>2 DEF Shape, TypeOK, Configs
    <3> QED
      BY <2>1, <2>2, <2>3, <3>1 DEF OneSync, Same, Deps
  <2>4. one'.st = "idle"
    BY Zenon, <2>1 DEF Idle
  <2>5. OneSync'
    BY Zenon, <2>1, <2>3, <2>4 DEF OneSync
  <2> QED
    BY Zenon, <2>1, <2>5, <1>2 DEF NoLoop
<1>5. CASE OneChecked
  <2>1. /\ one.st = "check" /\ ~Loops(conf) /\ one.got = one.name /\ UNCHANGED <<conf, run, full, applied>>
        /\ blind' = (blind \/ ~Seen(conf) \/ ~applied)
    BY Zenon, <1>5 DEF OneChecked, confVars
  <2>2. one'.st = "load" /\ one'.got = one.got /\ one'.new = one.new /\ one'.name = one.name
    BY Zenon, <1>5 DEF OneChecked, Shape, TypeOK
  <2>3. ASSUME ~blind' PROVE ~HasLoop([run EXCEPT ![one.name] = one.new])
    <3>1. applied /\ ~HasLoop(conf) /\ one.got \in Names /\ run \in Configs
      BY Zenon, <2>1, <2>3, SeenLoops DEF Shape, TypeOK, OneInv
    <3>2. conf[one.got] = one.new /\ \A n \in Names \ {one.got} : Deps(conf, n) = Deps(run, n)
      BY Zenon, <2>1, <3>1 DEF OneSync
    <3>3. \A n \in Names : [run EXCEPT ![one.name] = one.new][n] = IF n = one.name THEN one.new ELSE run[n]
      BY Zenon, <3>1 DEF Configs
    <3>4. Same(conf, [run EXCEPT ![one.name] = one.new])
      BY <2>1, <3>2, <3>3 DEF Same, Deps
    <3> QED
      BY Zenon, <3>1, <3>4, SameLoops
  <2>4. OneSync'
    BY Zenon, <2>1, <2>2, <2>3 DEF OneSync
  <2> QED
    BY Zenon, <2>1, <2>4, <1>2 DEF NoLoop
<1>6. CASE OneSame
  <2>1. /\ one.st = "load" /\ run[one.name] = one.new /\ one' = Idle
        /\ UNCHANGED <<conf, run, full, applied, blind>>
    BY Zenon, <1>6 DEF OneSame, OneEnds, confVars
  <2>2. applied => Same(run', conf')
    BY Zenon, <2>1 DEF OneSync, Same, Deps, Shape, OneInv
  <2>3. one'.st = "idle"
    BY Zenon, <2>1 DEF Idle
  <2>4. OneSync'
    BY Zenon, <2>1, <2>2, <2>3 DEF OneSync
  <2> QED
    BY Zenon, <2>1, <2>4, <1>2 DEF NoLoop
<1>7. CASE OneLoad
  <2>1. /\ one.st = "load" /\ one.name \in Names /\ one.got = one.name /\ one.new \in Sections
        /\ add(one.name, one.new) /\ run \in Configs /\ UNCHANGED <<conf, full, applied, blind>>
    BY Zenon, <1>7 DEF OneLoad, confVars, Shape, TypeOK, OneInv
  <2>2. one'.st = "follow"
    BY Zenon, <1>7 DEF OneLoad, Shape, TypeOK
  <2>3. Deps(run', one.name) = one.new.next /\ \A m \in Names \ {one.name} : Deps(run', m) = Deps(run, m)
    BY Zenon, <2>1, AddDeps
  <2>4. one.new # None
    BY Zenon, <2>1, SectionNext
  <2>5. applied => Same(run', conf')
    BY <2>1, <2>3, <2>4 DEF OneSync, Same, Deps
  <2>6. NoLoop'
    <3>1. \A n \in Names : [run EXCEPT ![one.name] = one.new][n] = IF n = one.name THEN one.new ELSE run[n]
      BY Zenon, <2>1 DEF Configs
    <3>2. Same([run EXCEPT ![one.name] = one.new], run')
      <4>1. ASSUME NEW n \in Names PROVE Deps([run EXCEPT ![one.name] = one.new], n) = Deps(run', n)
        <5>1. CASE n = one.name
          BY Zenon, <2>3, <2>4, <3>1, <5>1 DEF Deps
        <5>2. CASE n # one.name
          BY Zenon, <2>3, <3>1, <5>2 DEF Deps
        <5> QED
          BY Zenon, <5>1, <5>2
      <4> QED
        BY Zenon, <4>1 DEF Same
    <3> QED
      BY Zenon, <2>1, <3>2, SameLoops DEF NoLoop, OneSync
  <2>7. OneSync'
    BY Zenon, <2>1, <2>2, <2>5 DEF OneSync
  <2> QED
    BY Zenon, <2>1, <2>6, <2>7, <1>2
<1>8. CASE OneDone
  <2>1. one.st = "follow" /\ one' = Idle /\ UNCHANGED <<conf, run, full, applied, blind>>
    BY Zenon, <1>8 DEF OneDone, OneEnds, confVars
  <2>2. OneSync'
    BY Zenon, <2>1 DEF OneSync, Idle, Same
  <2> QED
    BY Zenon, <2>1, <2>2, <1>2 DEF NoLoop
<1>9. CASE OneFails
  <2>1. one.st # "idle" /\ one' = Idle /\ UNCHANGED <<conf, run, full, blind>>
    BY Zenon, <1>9 DEF OneFails, OneEnds, confVars
  <2>2. (one.st = "read" /\ UNCHANGED applied) \/ ~applied'
    BY Zenon, <1>9 DEF OneFails
  <2>3. OneSync'
    BY <2>1, <2>2 DEF OneSync, Idle, Same
  <2> QED
    BY <2>1, <2>2, <2>3, <1>2 DEF NoLoop
<1> QED
  BY Zenon, <1>1, <1>3, <1>4, <1>5, <1>6, <1>7, <1>8, <1>9

(* The initial state is what a file without a loop gives.                  *)
LEMMA LoadInit == Init => LoadInv
<1> SUFFICES ASSUME Init PROVE LoadInv
  OBVIOUS
<1>1. conf \in Configs /\ ~HasLoop(conf)
  BY Zenon, RegistryAssumption DEF Init
<1>2. Same(run, conf)
  BY Zenon, <1>1, DefaultSection DEF Init, Same, Deps
<1>3. NoLoop
  BY Zenon, <1>1, <1>2, SameLoops DEF NoLoop
<1>4. TurnInv /\ FullInv /\ OneSync
  BY Zenon, <1>2 DEF Init, Idle, TurnInv, FullInv, OneSync
<1> QED
  BY Zenon, <1>3, <1>4 DEF LoadInv

---------------------------------------------------------------------------
(* The theorems. *)

(* There are finitely many names.                                          *)
LEMMA NamesCount == Counting
<1>1. ASSUME NEW S \in SUBSET Names PROVE IsFiniteSet(S)
  BY Zenon, FS_Subset, RegistryAssumption
<1>2. ASSUME NEW S \in SUBSET Names PROVE Cardinality(S) \in Nat
  BY Zenon, <1>1, FS_CardinalityType
<1>3. ASSUME NEW S \in SUBSET Names, NEW T \in SUBSET Names, T \subseteq S
      PROVE  Cardinality(T) <= Cardinality(S) /\ (Cardinality(S) = Cardinality(T) => S = T)
  BY Zenon, <1>1, <1>3, FS_Subset
<1> QED
  BY Zenon, <1>2, <1>3 DEF Counting

(* The shape of the state holds throughout.                                *)
THEOREM AlwaysShape == Spec => []Shape
  BY NamesCount, ShapeInit, ShapeStep, PTL DEF Spec

(* HandlesCurrent, for any number of escapers and operations: whichever    *)
(* way reloads, changes of resolvers and failed rebuilds interleave, an    *)
(* escaper that holds a replaced one is in the work that is left.          *)
THEOREM HandlesStayCurrent == Spec => []HandlesCurrent
<1>1. Init => HandlesCurrent
  BY DEF Init, HandlesCurrent
<1> QED
  BY <1>1, NamesCount, HandlesStep, AlwaysShape, PTL DEF Spec

(* ServersCurrent, for any number of servers: also the server that is      *)
(* built while its escaper is replaced gets the new one.                   *)
THEOREM ServersStayCurrent == Spec => []ServersCurrent
<1>1. Init => ServersCurrent
  BY Zenon DEF Init, ServersCurrent
<1> QED
  BY <1>1, NamesCount, ServersStep, AlwaysShape, PTL DEF Spec

(* The reload of everything and the reload of one escaper keep what each   *)
(* relies on, step by step (LoadInv), however they interleave.             *)
THEOREM AlwaysLoadInv == Spec => []LoadInv
<1>1. Shape /\ Shape' /\ LoadInv /\ [Next]_vars => LoadInv'
  BY Zenon, NamesCount, AsideSteps, AsideKeeps, FullKeeps, OneKeeps DEF Next, Full, One, Server
<1> QED
  BY <1>1, LoadInit, AlwaysShape, PTL DEF Spec

(* NoLoop, for any number of escapers, any files and any operations in any *)
(* order: load_all, deleting and loading while old and new escapers run    *)
(* side by side, closes no circle of what build_topology_map sees, because *)
(* it loads a name only after all it depends on (TopoMap::sorted_nodes).   *)
(* The three ways in which the check does not see are those of blind.      *)
THEOREM NeverLoops == Spec => []NoLoop
<1>1. LoadInv => NoLoop
  BY Zenon DEF LoadInv
<1> QED
  BY <1>1, AlwaysLoadInv, PTL

(* InSync, for any interleaving of reloads: what load_all leaves running   *)
(* is what is configured, down to every dependency, deleted escapers are   *)
(* gone, and reloads of single escapers that end well keep it so.          *)
THEOREM AppliedIsRunning == Spec => []InSync
<1>1. one = Idle => one.st = "idle"
  BY DEF Idle
<1>2. LoadInv => InSync
  BY <1>1, Zenon DEF LoadInv, OneSync, InSync, Same
<1> QED
  BY <1>2, AlwaysLoadInv, PTL

=============================================================================
