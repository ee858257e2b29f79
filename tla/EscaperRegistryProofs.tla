----------------------- MODULE EscaperRegistryProofs -----------------------
(***************************************************************************)
(* Lemmas about the reload control plane: graphs of dependencies, the      *)
(* tasks left to the holder of ESCAPER_OPS_LOCK, the shape of the state,   *)
(* and that every step keeps HandlesCurrent and ServersCurrent.            *)
(***************************************************************************)
EXTENDS EscaperRegistry, TLAPS

---------------------------------------------------------------------------
(* Graphs of dependencies. *)

Same(g, h) == \A n \in Names : Deps(g, n) = Deps(h, n)

(* A node is not below itself when a closed set has its children, not it:  *)
(* what add_node_internal establishes with parents and all_children.       *)
LEMMA Separated ==
    ASSUME NEW g, NEW n \in Names
    PROVE  n \notin all_children(g, n) <=>
             \E C \in SUBSET Names : Deps(g, n) \subseteq C /\ Closed(g, C) /\ n \notin C
  BY Zenon DEF all_children

(* Graphs with the same dependencies have the same loops.                  *)
LEMMA SameLoops ==
    ASSUME NEW g, NEW h, Same(g, h)
    PROVE  HasLoop(g) <=> HasLoop(h)
<1>1. \A n \in Names : Deps(g, n) = Deps(h, n)
  BY Zenon DEF Same
<1>2. \A C \in SUBSET Names : Closed(g, C) <=> Closed(h, C)
  BY Zenon, <1>1 DEF Closed
<1>3. \A n \in Names : all_children(g, n) = all_children(h, n)
  BY Zenon, <1>1, <1>2 DEF all_children
<1> QED
  BY Zenon, <1>3 DEF HasLoop

(* A graph with fewer dependencies has no new loop: the deletion of an     *)
(* escaper (delete_existed_unlocked) closes no circle.                     *)
LEMMA FewerDeps ==
    ASSUME NEW g, NEW h, \A n \in Names : Deps(h, n) \subseteq Deps(g, n), ~HasLoop(g)
    PROVE  ~HasLoop(h)
<1>1. ASSUME NEW n \in Names PROVE n \notin all_children(h, n)
  <2>1. PICK C \in SUBSET Names : Deps(g, n) \subseteq C /\ Closed(g, C) /\ n \notin C
    BY Zenon, Separated DEF HasLoop
  <2>2. Deps(h, n) \subseteq C /\ Closed(h, C)
    BY Zenon, <2>1 DEF Closed
  <2> QED
    BY Zenon, <2>1, <2>2, Separated
<1> QED
  BY Zenon, <1>1 DEF HasLoop

(* The core of load_all.  P are the names that already run as the new file *)
(* p wants them; they depend on each other only.  The next one depends on  *)
(* them only.  The mixture of old and new then stays free of loops.        *)
LEMMA LoadKeepsAcyclic ==
    ASSUME NEW g, NEW p, NEW h, NEW P \in SUBSET Names, NEW n \in Names,
           ~HasLoop(g), ~HasLoop(p),
           \A x \in P : Deps(p, x) \subseteq P /\ Deps(g, x) = Deps(p, x),
           Deps(p, n) \subseteq P, n \notin P,
           Deps(h, n) = Deps(p, n), \A x \in Names \ {n} : Deps(h, x) = Deps(g, x)
    PROVE  ~HasLoop(h)
<1>1. ASSUME NEW y \in P \cup {n} PROVE y \notin all_children(h, y)
  <2>1. PICK C \in SUBSET Names : Deps(p, y) \subseteq C /\ Closed(p, C) /\ y \notin C
    BY Zenon, Separated DEF HasLoop
  <2>2. Deps(h, y) \subseteq C \cap P
    BY Zenon, <2>1
  <2>3. Closed(h, C \cap P)
    BY Zenon, <2>1 DEF Closed
  <2> QED
    BY Zenon, <2>1, <2>2, <2>3, Separated
<1>2. ASSUME NEW x \in Names \ (P \cup {n}) PROVE x \notin all_children(h, x)
  <2>1. PICK C \in SUBSET Names : Deps(g, x) \subseteq C /\ Closed(g, C) /\ x \notin C
    BY Zenon, Separated DEF HasLoop
  <2>2. Deps(h, x) \subseteq C \cup P \cup {n}
    BY Zenon, <2>1
  <2>3. Closed(h, C \cup P \cup {n})
    BY Zenon, <2>1 DEF Closed
  <2>4. x \notin C \cup P \cup {n} /\ C \cup P \cup {n} \in SUBSET Names
    BY Zenon, <2>1, <1>2
  <2> QED
    BY Zenon, <2>2, <2>3, <2>4, Separated
<1> QED
  BY Zenon, <1>1, <1>2 DEF HasLoop

(* What the proofs use of finite sets: sorted_nodes compares the numbers   *)
(* of children, and a loop goes through a number of names.                 *)
Counting ==
    /\ \A S \in SUBSET Names : Cardinality(S) \in Nat
    /\ \A S, T \in SUBSET Names :
         T \subseteq S => Cardinality(T) <= Cardinality(S) /\ (Cardinality(S) = Cardinality(T) => S = T)

(* The first of sorted_nodes depends on none of the others: what it        *)
(* depends on has fewer children (TopoMap::sorted_nodes).                  *)
LEMMA FirstIsReady ==
    ASSUME Counting, NEW g \in Configs, ~HasLoop(g), NEW S \in SUBSET Names, NEW n \in sorted_first(g, S)
    PROVE  Deps(g, n) \cap S = {}
<1>1. SUFFICES ASSUME NEW d \in Deps(g, n) \cap S PROVE FALSE
  OBVIOUS
<1>2. n \in Names /\ d \in Names /\ Cardinality(all_children(g, n)) <= Cardinality(all_children(g, d))
  BY Zenon, <1>1 DEF sorted_first
<1>3. all_children(g, d) \subseteq all_children(g, n)
  BY Zenon, <1>1, <1>2 DEF all_children, Closed
<1>4. d \in all_children(g, n)
  BY Zenon, <1>1, <1>2 DEF all_children
<1>5. d \notin all_children(g, d)
  BY Zenon, <1>2 DEF HasLoop
<1>6. all_children(g, n) \in SUBSET Names /\ all_children(g, d) \in SUBSET Names
  BY Zenon DEF all_children
<1>7. Cardinality(all_children(g, n)) # Cardinality(all_children(g, d))
  BY Zenon, <1>3, <1>4, <1>5, <1>6 DEF Counting
<1>8. /\ Cardinality(all_children(g, d)) <= Cardinality(all_children(g, n))
      /\ Cardinality(all_children(g, d)) \in Nat /\ Cardinality(all_children(g, n)) \in Nat
  BY Zenon, <1>3, <1>6 DEF Counting
<1> QED
  BY <1>2, <1>7, <1>8

---------------------------------------------------------------------------
(* The tasks that are left to the holder of the lock. *)

Task == [op : {"update", "reload", "serve"}, name : Names]

In(s, x) == \E i \in DOMAIN s : s[i] = x

(* The first task is done, the others are left.                            *)
LEMMA InTail ==
    ASSUME NEW s \in Seq(Task), s # <<>>
    PROVE  /\ Head(s) \in Task /\ Tail(s) \in Seq(Task)
           /\ \A x : In(s, x) => x = Head(s) \/ In(Tail(s), x)
<1>1. /\ Head(s) \in Task /\ Tail(s) \in Seq(Task) /\ Len(Tail(s)) = Len(s) - 1
      /\ Head(s) = s[1] /\ \A i \in 1 .. Len(Tail(s)) : Tail(s)[i] = s[i + 1]
  OBVIOUS
<1>2. ASSUME NEW x, In(s, x), x # Head(s) PROVE In(Tail(s), x)
  <2>1. PICK i \in 1 .. Len(s) : s[i] = x
    BY <1>2 DEF In
  <2>2. i # 1
    BY Zenon, <2>1, <1>1, <1>2
  <2>3. i - 1 \in 1 .. Len(Tail(s)) /\ Tail(s)[i - 1] = x
    BY <2>1, <2>2, <1>1
  <2>4. DOMAIN Tail(s) = 1 .. Len(Tail(s))
    BY <1>1
  <2> QED
    BY Zenon, <2>3, <2>4 DEF In
<1> QED
  BY Zenon, <1>1, <1>2

(* Tasks put before others leave those in the list.                        *)
LEMMA InConcat ==
    ASSUME NEW s \in Seq(Task), NEW t \in Seq(Task)
    PROVE  /\ s \o t \in Seq(Task)
           /\ \A x : In(s, x) \/ In(t, x) => In(s \o t, x)
<1>1. /\ s \o t \in Seq(Task) /\ Len(s \o t) = Len(s) + Len(t)
      /\ \A i \in 1 .. Len(s) + Len(t) : (s \o t)[i] = IF i <= Len(s) THEN s[i] ELSE t[i - Len(s)]
  OBVIOUS
<1>2. ASSUME NEW x, In(s, x) PROVE In(s \o t, x)
  <2>1. PICK i \in 1 .. Len(s) : s[i] = x
    BY <1>2 DEF In
  <2>2. i \in 1 .. Len(s \o t) /\ (s \o t)[i] = x
    BY <2>1, <1>1
  <2> QED
    BY <2>2, <1>1 DEF In
<1>3. ASSUME NEW x, In(t, x) PROVE In(s \o t, x)
  <2>1. PICK i \in 1 .. Len(t) : t[i] = x
    BY <1>3 DEF In
  <2>2. Len(s) + i \in 1 .. Len(s \o t) /\ (s \o t)[Len(s) + i] = x
    BY <2>1, <1>1
  <2> QED
    BY <2>2, <1>1 DEF In
<1> QED
  BY Zenon, <1>1, <1>2, <1>3

(* One task for each of the names that a loop goes through.                *)
LEMMA EachTask ==
    ASSUME Counting, NEW S \in SUBSET Names, NEW q \in Orders(S), NEW op \in {"update", "reload", "serve"}
    PROVE  /\ Each(op, q) \in Seq(Task)
           /\ \A x \in S : In(Each(op, q), Do(op, x))
<1>1. Cardinality(S) \in Nat
  BY Zenon DEF Counting
<1>2. q \in [1 .. Cardinality(S) -> S] /\ \A x \in S : \E i \in DOMAIN q : q[i] = x
  BY Zenon DEF Orders
<1>3. Each(op, q) \in [1 .. Cardinality(S) -> Task]
  BY Zenon, <1>2 DEF Each, Do, Task
<1>4. Each(op, q) \in Seq(Task)
  BY <1>1, <1>3
<1>5. ASSUME NEW x \in S PROVE In(Each(op, q), Do(op, x))
  <2>1. PICK i \in DOMAIN q : q[i] = x
    BY Zenon, <1>2
  <2> QED
    BY Zenon, <2>1 DEF Each, In
<1> QED
  BY Zenon, <1>4, <1>5

(* The tasks that follow a change of n.                                    *)
LEMMA FollowTasks ==
    ASSUME NEW n \in Names
    PROVE  /\ Follow(n) \in Seq(Task)
           /\ In(Follow(n), Do("update", n)) /\ In(Follow(n), Do("serve", n))
<1>1. Do("update", n) \in Task /\ Do("serve", n) \in Task
  BY Zenon DEF Do, Task
<1>2. Follow(n) \in Seq(Task) /\ DOMAIN Follow(n) = {1, 2}
  BY <1>1 DEF Follow
<1>3. Follow(n)[1] = Do("update", n) /\ Follow(n)[2] = Do("serve", n)
  BY Zenon DEF Follow
<1> QED
  BY Zenon, <1>2, <1>3 DEF In

---------------------------------------------------------------------------
(* The shape of the state. *)

TypeOK ==
    /\ conf \in Configs /\ run \in Configs /\ doc \in Configs /\ plan \in Configs
    /\ fresh \in [Names -> SUBSET Names] /\ failed \subseteq Names
    /\ esc \in [Servers -> Names] /\ current \subseteq Servers
    /\ lock \in {None, "full", "one", "users"} /\ work \in Seq(Task)
    /\ full \in {"idle", "config", "resolvers", "escapers", "load", "delete", "auditors", "servers", "spawn"}
    /\ left \subseteq Names /\ todo \subseteq Names /\ dels \subseteq Names
    /\ one \in [st : {"idle", "read", "check", "load", "follow"}, name : {None} \cup Names,
                got : {None} \cup Names, new : {None} \cup Sections, old : {None} \cup Sections]
    /\ sop \in {None} \cup [who : {"one", "full"}, left : SUBSET Servers, srv : {None} \cup Servers,
                           esc : {None} \cup Names, ok : BOOLEAN]
    /\ applied \in BOOLEAN /\ blind \in BOOLEAN /\ ops \in 0..MaxOps

(* Who holds ESCAPER_OPS_LOCK, and what is left to do under it.            *)
LockInv ==
    /\ lock = None => work = <<>>
    /\ one.st # "idle" => lock = "one"
    /\ one.st \in {"read", "check", "load"} => work = <<>>
    /\ full \in {"load", "delete"} => lock = "full"

(* What the reload of one escaper has read.                                *)
OneInv ==
    /\ one.st = "idle" => one = Idle
    /\ one.st # "idle" => one.name \in Names
    /\ one.st \in {"check", "load"} => one.got \in Names /\ one.new # None
    /\ one.st = "load" => one.got = one.name

(* What the reload of everything has still to read and to load.            *)
PlanInv ==
    /\ left \subseteq Configured(doc) /\ todo \subseteq Configured(plan)
    /\ full = "delete" => todo = {}

(* The server that is being built has an escaper, and only the reload of   *)
(* everything builds them all.                                             *)
ServerInv ==
    sop # None => /\ sop.srv = None => sop.esc = None /\ sop.ok
                  /\ sop.srv # None => sop.esc \in Names
                  /\ sop.who = "full" => full = "spawn"

Shape == TypeOK /\ LockInv /\ OneInv /\ PlanInv /\ ServerInv

(* A section names escapers, and is there.                                 *)
LEMMA SectionNext == \A c \in Sections : c.next \in SUBSET Names /\ c # None
  BY RegistryAssumption DEF Sections

(* The DummyDeny escaper has a section like others, and depends on none.   *)
LEMMA DefaultSection == Default \in Sections /\ Default # None /\ Default.next = {}
<1>1. Default \in Sections
  BY DEF Default, Sections
<1>2. Default.next = {}
  BY DEF Default
<1> QED
  BY Zenon, <1>1, <1>2, SectionNext

(* What the check for loops sees is a configuration of the same names.     *)
LEMMA TopologyMap ==
    ASSUME NEW g \in Configs
    PROVE  build_topology_map(g) \in Configs
  BY DEF build_topology_map, dependent_escaper, Configs, Sections

(* A replaced escaper leaves every registry of its type, and the server    *)
(* that is being built what it is.                                         *)
LEMMA OutdateType ==
    ASSUME TypeOK, ServerInv, NEW n \in Names, NEW own \in SUBSET Names, Outdate(n, own)
    PROVE  /\ fresh' \in [Names -> SUBSET Names] /\ failed' \subseteq Names
           /\ esc' \in [Servers -> Names] /\ current' \subseteq Servers
           /\ sop' \in {None} \cup [who : {"one", "full"}, left : SUBSET Servers, srv : {None} \cup Servers,
                                   esc : {None} \cup Names, ok : BOOLEAN]
           /\ sop' # None => /\ sop # None /\ sop'.who = sop.who
                             /\ sop'.srv = None => sop'.esc = None /\ sop'.ok
                             /\ sop'.srv # None => sop'.esc \in Names
  BY RegistryAssumption DEF TypeOK, ServerInv, Outdate

(* The registry keeps its type when an escaper is added or deleted.        *)
LEMMA AddType ==
    ASSUME TypeOK, NEW n \in Names, NEW c \in Sections
    PROVE  /\ add(n, c) => run' \in Configs
           /\ del(n) => run' \in Configs
<1>1. ASSUME add(n, c) PROVE run' \in Configs
  <2>1. WithDefault(c.next) \in Configs
    BY Zenon, DefaultSection DEF TypeOK, WithDefault, Configs
  <2> QED
    BY Zenon, <1>1, <2>1 DEF add, Configs
<1>2. ASSUME del(n) PROVE run' \in Configs
  BY Zenon, <1>2 DEF TypeOK, del, Configs
<1> QED
  BY Zenon, <1>1, <1>2

(* The initial state is in shape.                                          *)
LEMMA ShapeInit == Init => Shape
<1> SUFFICES ASSUME Init PROVE Shape
  OBVIOUS
<1>1. conf \in Configs
  BY Zenon, RegistryAssumption DEF Init
<1>2. run \in Configs
  BY Zenon, <1>1, DefaultSection DEF Init, Configs
<1>3. fresh \in [Names -> SUBSET Names]
  BY Zenon, <1>2, SectionNext DEF Init, Configs, Deps
<1>4. doc \in Configs /\ plan \in Configs /\ esc \in [Servers -> Names]
  BY Zenon DEF Init, Configs, Configured
<1>5. /\ failed = {} /\ current = Servers /\ lock = None /\ work = <<>> /\ full = "idle" /\ left = {}
      /\ todo = {} /\ dels = {} /\ sop = None /\ applied = TRUE /\ blind = FALSE /\ ops = 0
  BY Zenon DEF Init
<1>6. one = [st |-> "idle", name |-> None, got |-> None, new |-> None, old |-> None] /\ one = Idle
  BY Zenon DEF Init, Idle
<1>7. LockInv /\ OneInv /\ PlanInv /\ ServerInv
  BY <1>5, <1>6 DEF LockInv, OneInv, PlanInv, ServerInv
<1>8. one \in [st : {"idle", "read", "check", "load", "follow"}, name : {None} \cup Names,
               got : {None} \cup Names, new : {None} \cup Sections, old : {None} \cup Sections]
  BY <1>6
<1>9. work \in Seq(Task) /\ ops \in 0..MaxOps
  BY <1>5, RegistryAssumption
<1>10. TypeOK
  BY Zenon, <1>1, <1>2, <1>3, <1>4, <1>5, <1>8, <1>9 DEF TypeOK
<1> QED
  BY Zenon, <1>7, <1>10 DEF Shape

(* Every step keeps the shape.                                             *)
LEMMA ShapeStep == Counting /\ Shape /\ [Next]_vars => Shape'
<1> SUFFICES ASSUME Counting, Shape, [Next]_vars PROVE Shape'
  OBVIOUS
<1>1. CASE reload_all
  <2>1. doc' \in Configs /\ conf' \in Configs /\ left' = Configured(doc')
    BY Zenon, <1>1, RegistryAssumption DEF reload_all, Configs
  <2>2. left' \subseteq Names
    BY Zenon, <1>1 DEF reload_all, Configured
  <2>3. ops < MaxOps /\ ops' = ops + 1 /\ ops \in 0 .. MaxOps
    BY Zenon, <1>1 DEF reload_all, Begin, Shape, TypeOK
  <2>4. ops' \in 0 .. MaxOps
    BY <2>3, RegistryAssumption
  <2>T. TypeOK'
    <3>1. applied' \in BOOLEAN
      BY <1>1, Zenon DEF reload_all
    <3>2. /\ full' = "config"
          /\ UNCHANGED <<run, fresh, failed, esc, current, sop, lock, work, plan, todo, dels, one, blind>>
      BY Zenon, <1>1 DEF reload_all, srvVars, loadVars
    <3> QED
      BY <2>1, <2>2, <2>4, <3>1, <3>2 DEF Shape, TypeOK
  <2>L. LockInv'
    BY Zenon, <1>1, <2>1, RegistryAssumption DEF reload_all, Shape, LockInv, TypeOK, srvVars, loadVars, Begin, Idle
  <2>O. OneInv'
    BY Zenon, <1>1, <2>1, RegistryAssumption DEF reload_all, Shape, OneInv, TypeOK, srvVars, loadVars, Begin, Idle
  <2>P. PlanInv'
    BY Zenon, <1>1, <2>1 DEF reload_all, Shape, PlanInv, TypeOK, srvVars, loadVars, Begin, Idle
  <2>S. ServerInv'
    BY Zenon, <1>1, <2>1, RegistryAssumption DEF reload_all, Shape, ServerInv, TypeOK, srvVars, loadVars, Begin, Idle
  <2> QED
    BY Zenon, <2>T, <2>L, <2>O, <2>P, <2>S DEF Shape
<1>2. CASE ReadSection
  BY <1>2, RegistryAssumption
    DEF ReadSection, Shape, TypeOK, LockInv, OneInv, PlanInv, ServerInv, srvVars, loadVars,
        Configs, Configured
<1>3. CASE ReadAll
  BY <1>3, RegistryAssumption
    DEF ReadAll, Shape, TypeOK, LockInv, OneInv, PlanInv, ServerInv, srvVars, loadVars, Configs,
        Configured
<1>4. CASE FullUsers
  BY <1>4, RegistryAssumption DEF FullUsers, Shape, TypeOK, LockInv, OneInv, PlanInv, ServerInv,
                                  confVars, srvVars, loadVars
<1>5. CASE FullUpdates
  <2>1. PICK q \in Orders(Users \cap Configured(run)) : work' = Each("reload", q)
    BY Zenon, <1>5 DEF FullUpdates, update_users
  <2>2. work' \in Seq(Task)
    BY Zenon, <2>1, EachTask DEF Configured
  <2> QED
    BY <1>5, <2>2, RegistryAssumption DEF FullUpdates, Shape, TypeOK, LockInv, OneInv, PlanInv,
                                          ServerInv, confVars, srvVars, loadVars, Begin, update_users
<1>6. CASE LoadAll
  BY <1>6, RegistryAssumption DEF LoadAll, Shape, TypeOK, LockInv, OneInv, PlanInv, ServerInv,
                                  confVars, srvVars, Configured
<1>7. CASE LoadNext
  <2>1. PICK n \in sorted_first(build_topology_map(plan), todo) : todo' = todo \ {n} /\ add(n, plan[n]) /\ work' = Follow(n)
    BY Zenon, <1>7 DEF LoadNext
  <2>2. n \in Names /\ plan[n] \in Sections /\ plan[n].next \in SUBSET Names
    BY Zenon, <2>1 DEF sorted_first, Shape, TypeOK, PlanInv, Configured, Configs, Sections
  <2>3. run' \in Configs /\ work' \in Seq(Task) /\ Outdate(n, plan[n].next)
    BY Zenon, <2>1, <2>2, AddType, FollowTasks DEF Shape, add
  <2>T. TypeOK'
    BY <1>7, <2>1, <2>2, <2>3, OutdateType, RegistryAssumption
      DEF LoadNext, Shape, TypeOK, LockInv, OneInv, PlanInv, ServerInv, confVars
  <2>L. LockInv'
    BY Zenon, <1>7, <2>1, <2>2, <2>3, OutdateType, RegistryAssumption DEF LoadNext, Shape, LockInv, TypeOK, confVars
  <2>O. OneInv'
    BY Zenon, <1>7, <2>1, <2>2, <2>3, OutdateType, RegistryAssumption DEF LoadNext, Shape, OneInv, TypeOK, confVars
  <2>P. PlanInv'
    BY Zenon, <1>7, <2>1, <2>2, <2>3, OutdateType DEF LoadNext, Shape, PlanInv, TypeOK, confVars
  <2>S. ServerInv'
    BY <1>7, <2>1, <2>2, <2>3, OutdateType, RegistryAssumption
      DEF LoadNext, Shape, ServerInv, TypeOK, confVars
  <2> QED
    BY Zenon, <2>T, <2>L, <2>O, <2>P, <2>S DEF Shape
<1>8. CASE LoadSame
  BY <1>8, RegistryAssumption DEF LoadSame, Shape, TypeOK, LockInv, OneInv, PlanInv, ServerInv,
                                  confVars, srvVars
<1>9. CASE LoadedAll
  BY <1>9 DEF LoadedAll, Shape, TypeOK, LockInv, OneInv, PlanInv, ServerInv, confVars, srvVars,
              Leftover, Configured
<1>10. CASE DeleteNext
  <2>1. PICK n \in dels : dels' = dels \ {n} /\ del(n) /\ work' = Follow(n)
    BY Zenon, <1>10 DEF DeleteNext
  <2>2. n \in Names /\ run' \in Configs /\ work' \in Seq(Task) /\ Outdate(n, {})
    BY Zenon, <2>1, DefaultSection, AddType, FollowTasks DEF Shape, TypeOK, del
  <2>T. TypeOK'
    BY <1>10, <2>1, <2>2, OutdateType, RegistryAssumption
      DEF DeleteNext, Shape, TypeOK, LockInv, OneInv, PlanInv, ServerInv, confVars
  <2>L. LockInv'
    BY Zenon, <1>10, <2>1, <2>2, OutdateType, RegistryAssumption DEF DeleteNext, Shape, LockInv, TypeOK, confVars
  <2>O. OneInv'
    BY Zenon, <1>10, <2>1, <2>2, OutdateType, RegistryAssumption DEF DeleteNext, Shape, OneInv, TypeOK, confVars
  <2>P. PlanInv'
    BY Zenon, <1>10, <2>1, <2>2, OutdateType DEF DeleteNext, Shape, PlanInv, TypeOK, confVars
  <2>S. ServerInv'
    BY <1>10, <2>1, <2>2, OutdateType, RegistryAssumption DEF DeleteNext, Shape, ServerInv, TypeOK, confVars
  <2> QED
    BY Zenon, <2>T, <2>L, <2>O, <2>P, <2>S DEF Shape
<1>11. CASE DeletedAll
  BY <1>11, RegistryAssumption
    DEF DeletedAll, Shape, TypeOK, LockInv, OneInv, PlanInv, ServerInv, confVars, srvVars, Configs,
        Configured
<1>12. CASE FullFails
  BY <1>12, RegistryAssumption
    DEF FullFails, Shape, TypeOK, LockInv, OneInv, PlanInv, ServerInv, Configs, Configured
<1>13. CASE SpawnAll
  BY SMTT(30), <1>13, RegistryAssumption DEF SpawnAll, Shape, TypeOK, LockInv, OneInv, PlanInv, ServerInv,
                                   confVars, loadVars, srvRest, Holding
<1>14. CASE OneRead
  <2>1. PICK d \in Docs, m \in Names :
          /\ d[m] # None /\ conf' = [conf EXCEPT ![m] = d[m]]
          /\ one' = [one EXCEPT !.st = "check", !.got = m, !.new = d[m], !.old = conf[m]]
    BY Zenon, <1>14 DEF OneRead
  <2>2. d[m] \in Sections /\ conf[m] \in {None} \cup Sections /\ conf' \in Configs
    BY <2>1, RegistryAssumption DEF Shape, TypeOK, Configs
  <2>T. TypeOK'
    <3>1. one' \in [st : {"idle", "read", "check", "load", "follow"}, name : {None} \cup Names,
                     got : {None} \cup Names, new : {None} \cup Sections, old : {None} \cup Sections]
      BY Zenon, <2>1, <2>2 DEF Shape, TypeOK
    <3>2. UNCHANGED <<run, fresh, failed, esc, current, sop, lock, work, full, left, doc, plan, todo, dels, applied, blind, ops>>
      BY Zenon, <1>14 DEF OneRead, srvVars, loadVars
    <3> QED
      BY <2>2, <3>1, <3>2 DEF Shape, TypeOK
  <2>L. LockInv'
    BY Zenon, <1>14, <2>1, <2>2, RegistryAssumption DEF OneRead, Shape, LockInv, TypeOK, srvVars, loadVars
  <2>O. OneInv'
    BY <1>14, <2>1, <2>2, RegistryAssumption DEF OneRead, Shape, OneInv, TypeOK, srvVars, loadVars
  <2>P. PlanInv'
    BY Zenon, <1>14, <2>1, <2>2 DEF OneRead, Shape, PlanInv, TypeOK, srvVars, loadVars
  <2>S. ServerInv'
    BY Zenon, <1>14, <2>1, <2>2, RegistryAssumption DEF OneRead, Shape, ServerInv, TypeOK, srvVars, loadVars
  <2> QED
    BY Zenon, <2>T, <2>L, <2>O, <2>P, <2>S DEF Shape
<1>15. CASE OneLoops
  BY <1>15, RegistryAssumption
    DEF OneLoops, Shape, TypeOK, LockInv, OneInv, PlanInv, ServerInv, srvVars, loadVars, OneEnds,
        Idle, Configs, Configured
<1>16. CASE OneChecked
  BY <1>16, RegistryAssumption DEF OneChecked, Shape, TypeOK, LockInv, OneInv, PlanInv, ServerInv,
                                   confVars, srvVars, loadVars
<1>17. CASE OneSame
  BY SMTT(30), <1>17, RegistryAssumption DEF OneSame, Shape, TypeOK, LockInv, OneInv, PlanInv, ServerInv,
                                   confVars, srvVars, loadVars, OneEnds, Idle
<1>18. CASE OneLoad
  <2>1. one.name \in Names /\ one.new \in Sections /\ one.new.next \in SUBSET Names /\ add(one.name, one.new) /\ work' = Follow(one.name)
    BY Zenon, <1>18, SectionNext DEF OneLoad, Shape, TypeOK, OneInv
  <2>2. run' \in Configs /\ work' \in Seq(Task) /\ Outdate(one.name, one.new.next)
    BY Zenon, <2>1, AddType, FollowTasks DEF Shape, add
  <2>T. TypeOK'
    BY <1>18, <2>1, <2>2, OutdateType, RegistryAssumption
      DEF OneLoad, Shape, TypeOK, LockInv, OneInv, PlanInv, ServerInv, confVars, loadVars
  <2>L. LockInv'
    BY Zenon, <1>18, <2>1, <2>2, OutdateType, RegistryAssumption
      DEF OneLoad, Shape, LockInv, TypeOK, confVars, loadVars
  <2>O. OneInv'
    BY Zenon, <1>18, <2>1, <2>2, OutdateType, RegistryAssumption
      DEF OneLoad, Shape, OneInv, TypeOK, confVars, loadVars
  <2>P. PlanInv'
    BY Zenon, <1>18, <2>1, <2>2, OutdateType DEF OneLoad, Shape, PlanInv, TypeOK, confVars, loadVars
  <2>S. ServerInv'
    BY <1>18, <2>1, <2>2, OutdateType, RegistryAssumption
      DEF OneLoad, Shape, ServerInv, TypeOK, confVars, loadVars
  <2> QED
    BY Zenon, <2>T, <2>L, <2>O, <2>P, <2>S DEF Shape
<1>19. CASE OneDone
  BY <1>19, RegistryAssumption DEF OneDone, Shape, TypeOK, LockInv, OneInv, PlanInv, ServerInv,
                                   confVars, srvVars, loadVars, OneEnds, Idle
<1>20. CASE OneFails
  <2>1. applied' \in BOOLEAN
    BY <1>20, Zenon DEF OneFails, Shape, TypeOK
  <2>2. one.st \in {"read", "check", "load"}
    BY Zenon, <1>20 DEF OneFails
  <2> QED
    BY <1>20, <2>1, <2>2, RegistryAssumption DEF OneFails, OneEnds, Idle, Shape, TypeOK, LockInv,
                                                 OneInv, PlanInv, ServerInv, confVars, srvVars,
                                                 loadVars
<1>21. CASE UsersBegin
  <2>1. PICK q \in Orders(Users \cap Configured(run)) : work' = Each("reload", q)
    BY Zenon, <1>21 DEF UsersBegin, update_users
  <2>2. work' \in Seq(Task)
    BY Zenon, <2>1, EachTask DEF Configured
  <2> QED
    BY <1>21, <2>2, RegistryAssumption DEF UsersBegin, Shape, TypeOK, LockInv, OneInv, PlanInv,
                                           ServerInv, confVars, srvVars, loadVars, Begin, update_users
<1>22. CASE UsersEnd
  BY <1>22, RegistryAssumption DEF UsersEnd, Shape, TypeOK, LockInv, OneInv, PlanInv, ServerInv,
                                   confVars, srvVars, loadVars
<1>23. CASE ServerBuild
  <2>1. PICK s \in sop.left, n \in Names : sop' = [sop EXCEPT !.srv = s, !.esc = n] /\ run' = WithDefault({n})
    BY Zenon, <1>23 DEF ServerBuild
  <2>2. run' \in Configs
    BY Zenon, <2>1, DefaultSection DEF WithDefault, Shape, TypeOK, Configs
  <2>3. s \in Servers /\ sop # None /\ sop.ok
    BY Zenon, <1>23 DEF ServerBuild, Preparing, Shape, TypeOK, ServerInv
  <2>4. sop' = [who |-> sop.who, left |-> sop.left, srv |-> s, esc |-> n, ok |-> sop.ok]
    BY Zenon, <2>1, <2>3 DEF Shape, TypeOK
  <2>5. sop' \in [who : {"one", "full"}, left : SUBSET Servers, srv : {None} \cup Servers,
                   esc : {None} \cup Names, ok : BOOLEAN]
    BY Zenon, <2>3, <2>4 DEF Shape, TypeOK
  <2>T. TypeOK'
    BY <1>23, <2>2, <2>5 DEF ServerBuild, Shape, TypeOK, srvRest, confVars, loadVars
  <2>L. LockInv'
    BY Zenon, <1>23, <2>1, <2>2, <2>3, RegistryAssumption DEF ServerBuild, Shape, LockInv, TypeOK, Preparing,
                                                       srvRest, confVars, loadVars
  <2>O. OneInv'
    BY Zenon, <1>23, <2>1, <2>2, <2>3, RegistryAssumption DEF ServerBuild, Shape, OneInv, TypeOK, Preparing,
                                                       srvRest, confVars, loadVars
  <2>P. PlanInv'
    BY Zenon, <1>23, <2>1, <2>2, <2>3 DEF ServerBuild, Shape, PlanInv, TypeOK, Preparing, srvRest, confVars, loadVars
  <2>S. ServerInv'
    BY <1>23, <2>1, <2>2, <2>3, RegistryAssumption DEF ServerBuild, Shape, ServerInv, TypeOK,
                                                       Preparing, srvRest, confVars, loadVars
  <2> QED
    BY Zenon, <2>T, <2>L, <2>O, <2>P, <2>S DEF Shape
<1>24. CASE ServerAdd
  <2>1. esc' \in [Servers -> Names] /\ current' \subseteq Servers
    BY <1>24, RegistryAssumption DEF ServerAdd, Shape, TypeOK, ServerInv
  <2>2. sop' \in [who : {"one", "full"}, left : SUBSET Servers, srv : {None} \cup Servers,
                  esc : {None} \cup Names, ok : BOOLEAN]
    BY Zenon, <1>24 DEF ServerAdd, Shape, TypeOK, Holding
  <2>3. ServerInv'
    BY Zenon, <1>24, RegistryAssumption DEF ServerAdd, Shape, ServerInv, Holding
  <2>U. UNCHANGED <<conf, run, fresh, failed, lock, work, full, left, doc, plan, todo, dels, one, applied, blind, ops>>
    BY Zenon, <1>24 DEF ServerAdd, confVars, loadVars, srvRest
  <2>4. LockInv' /\ OneInv' /\ PlanInv'
    BY Zenon, <2>U DEF Shape, LockInv, OneInv, PlanInv, Configured
  <2>5. TypeOK'
    BY <2>U, <2>1, <2>2 DEF Shape, TypeOK
  <2> QED
    BY Zenon, <2>3, <2>4, <2>5 DEF Shape
<1>25. CASE ServerSame
  BY <1>25, RegistryAssumption DEF ServerSame, Shape, TypeOK, LockInv, OneInv, PlanInv, ServerInv,
                                   confVars, loadVars, srvRest, Holding, Preparing
<1>26. CASE ServerEnd
  <2>1. applied' \in BOOLEAN
    BY <1>26, Zenon DEF ServerEnd, Shape, TypeOK
  <2>2. full' = full \/ (full = "spawn" /\ full' = "idle")
    BY Zenon, <1>26 DEF ServerEnd, Preparing, Shape, ServerInv
  <2> QED
    BY <1>26, <2>1, <2>2 DEF ServerEnd, Shape, TypeOK, LockInv, OneInv, PlanInv, ServerInv, srvRest,
                             confVars, loadVars
<1>27. CASE Work
  <2>1. Head(work) \in Task /\ Tail(work) \in Seq(Task)
    BY Zenon, <1>27, InTail DEF Work, Shape, TypeOK
  <2> DEFINE n == Head(work).name
  <2>2. n \in Names
    BY Zenon, <2>1 DEF Task
  <2>3. /\ lock # None /\ one.st \notin {"read", "check", "load"}
        /\ UNCHANGED <<conf, left, doc, lock, full, plan, todo, dels, one, applied, blind, ops>>
    BY Zenon, <1>27 DEF Work, Shape, LockInv, confVars, loadVars
  <2>4. LockInv' /\ OneInv' /\ PlanInv'
    BY Zenon, <2>3 DEF Shape, LockInv, OneInv, PlanInv, Configured
  <2> HIDE DEF n
  <2>5. CASE update_dependency(n)
    <3>1. PICK q \in Orders({m \in Names : n \in Deps(run, m)}) :
             work' = Each("reload", q) \o Each("update", q) \o Tail(work)
      BY Zenon, <2>5 DEF update_dependency
    <3>2. Each("reload", q) \in Seq(Task) /\ Each("update", q) \in Seq(Task)
      BY Zenon, EachTask
    <3>3. work' \in Seq(Task)
      BY Zenon, <3>1, <3>2, <2>1, InConcat
    <3> QED
      BY <2>3, <2>5, <2>4, <3>3 DEF update_dependency, Shape, TypeOK, ServerInv, srvVars
  <2>6. CASE reload_existed(n)
    <3>1. run[n] \in Sections /\ run[n].next \in SUBSET Names /\ add(n, run[n])
      BY Zenon, <2>2, <2>6, SectionNext DEF reload_existed, Shape, TypeOK, Configs
    <3>2. run' \in Configs /\ work' \in Seq(Task) /\ Outdate(n, run[n].next)
      BY Zenon, <2>1, <2>2, <2>6, <3>1, AddType, FollowTasks, InConcat DEF Shape, add, reload_existed
    <3>3. /\ fresh' \in [Names -> SUBSET Names] /\ failed' \subseteq Names
          /\ esc' \in [Servers -> Names] /\ current' \subseteq Servers
          /\ sop' \in {None} \cup [who : {"one", "full"}, left : SUBSET Servers, srv : {None} \cup Servers,
                                  esc : {None} \cup Names, ok : BOOLEAN]
      BY Zenon, <2>2, <3>1, <3>2, OutdateType DEF Shape
    <3>4. TypeOK'
      BY <2>3, <3>2, <3>3 DEF Shape, TypeOK
    <3>5. ServerInv'
      BY Zenon, <2>2, <2>3, <3>1, <3>2, OutdateType DEF Shape, ServerInv
    <3> QED
      BY Zenon, <2>4, <3>4, <3>5 DEF Shape
  <2>7. CASE reload_fails(n)
    BY <2>1, <2>2, <2>3, <2>7, <2>4 DEF reload_fails, Shape, TypeOK, ServerInv, srvVars
  <2>8. CASE serve_update(n)
    <3>1. run' \in Configs
      BY Zenon, <2>8, DefaultSection DEF serve_update, WithDefault, Shape, TypeOK, Configs
    <3> QED
      BY <2>1, <2>3, <2>8, <2>4, <3>1 DEF serve_update, Shape, TypeOK, ServerInv
  <2> QED
    BY Zenon, <1>27, <2>5, <2>6, <2>7, <2>8 DEF Work, n
<1>28. ASSUME NEW n \in Names, reload_one(n) PROVE Shape'
  <2>1. one' = [st |-> "read", name |-> n, got |-> None, new |-> None, old |-> None]
    BY Zenon, <1>28 DEF reload_one, Idle
  <2> QED
    BY <1>28, <2>1, RegistryAssumption DEF reload_one, Shape, TypeOK, LockInv, OneInv, PlanInv,
                                           ServerInv, confVars, srvVars, loadVars, Idle, Begin,
                                           Configured
<1>29. ASSUME NEW s \in Servers, ServerBegin(s) PROVE Shape'
  <2>1. sop' \in [who : {"one", "full"}, left : SUBSET Servers, srv : {None} \cup Servers,
                  esc : {None} \cup Names, ok : BOOLEAN]
    BY Zenon, <1>29 DEF ServerBegin, Holding
  <2>2. ServerInv'
    BY Zenon, <1>29 DEF ServerBegin, ServerInv, Holding
  <2>3. ops' \in 0..MaxOps
    BY <1>29, RegistryAssumption DEF ServerBegin, Begin, Shape, TypeOK
  <2>4. UNCHANGED <<conf, run, fresh, failed, esc, current, lock, work, full, left, doc, plan, todo, dels, one, applied, blind>>
    BY Zenon, <1>29 DEF ServerBegin, confVars, loadVars, srvRest
  <2>5. LockInv' /\ OneInv' /\ PlanInv'
    BY Zenon, <2>4 DEF Shape, LockInv, OneInv, PlanInv, Configured
  <2>6. TypeOK'
    BY <2>1, <2>3, <2>4 DEF Shape, TypeOK
  <2> QED
    BY Zenon, <2>2, <2>5, <2>6 DEF Shape
<1>30. CASE UNCHANGED vars
  <2>1. TypeOK'
    BY <1>30 DEF vars, Shape, TypeOK
  <2> QED
    BY <1>30, <2>1 DEF vars, Shape, LockInv, OneInv, PlanInv, ServerInv, Configured
<1> QED
  BY Zenon, <1>1, <1>2, <1>3, <1>4, <1>5, <1>6, <1>7, <1>8, <1>9, <1>10, <1>11, <1>12, <1>13, <1>14, <1>15,
     <1>16, <1>17, <1>18, <1>19, <1>20, <1>21, <1>22, <1>23, <1>24, <1>25, <1>26, <1>27, <1>28, <1>29,
     <1>30 DEF Next, Full, One, Server

---------------------------------------------------------------------------
(* No replaced escaper is forgotten. *)

(* A default escaper depends on nothing, like a name that does not run     *)
(* (get_or_insert_default).                                                *)
LEMMA DefaultSame ==
    ASSUME Shape, NEW S
    PROVE  Same(WithDefault(S), run)
  BY Zenon, DefaultSection DEF Shape, TypeOK, Configs, WithDefault, Same, Deps

(* What add and del leave behind: new dependencies for n, the old ones for *)
(* the others.                                                             *)
LEMMA AddDeps ==
    ASSUME Shape, NEW n \in Names, NEW c \in Sections, add(n, c)
    PROVE  Deps(run', n) = c.next /\ \A m \in Names \ {n} : Deps(run', m) = Deps(run, m)
<1>1. WithDefault(c.next) \in Configs
  BY Zenon, DefaultSection DEF Shape, TypeOK, Configs, WithDefault
<1>2. run' = [WithDefault(c.next) EXCEPT ![n] = c]
  BY Zenon DEF add
<1>3. run'[n] = c /\ \A m \in Names \ {n} : run'[m] = WithDefault(c.next)[m]
  BY Zenon, <1>1, <1>2 DEF Configs
<1>4. Deps(run', n) = c.next
  BY Zenon, <1>3, RegistryAssumption DEF Deps
<1>5. \A m \in Names \ {n} : Deps(run', m) = Deps(run, m)
  BY <1>3, DefaultSame DEF Same, Deps
<1> QED
  BY Zenon, <1>4, <1>5

(* del leaves the dependencies of the others, and none of its own.         *)
LEMMA DelDeps ==
    ASSUME Shape, NEW n \in Names, del(n)
    PROVE  Deps(run', n) = {} /\ \A m \in Names \ {n} : Deps(run', m) = Deps(run, m)
  BY DEF Shape, TypeOK, Configs, del, Deps

(* A step that replaces no escaper and drops no task.                      *)
LEMMA HandlesQuiet ==
    ASSUME Shape, HandlesCurrent, Same(run', run), UNCHANGED <<fresh, failed>>,
           \A x : In(work, x) => In(work', x)
    PROVE  HandlesCurrent'
<1>1. ASSUME NEW n \in Names, NEW d \in Deps(run', n) \ fresh'[n]
      PROVE  In(work', Do("update", d)) \/ In(work', Do("reload", n)) \/ n \in failed'
  <2>1. d \in Deps(run, n) \ fresh[n]
    BY Zenon, <1>1 DEF Same
  <2>2. In(work, Do("update", d)) \/ In(work, Do("reload", n)) \/ n \in failed
    BY Zenon, <2>1 DEF HandlesCurrent, Has, In
  <2> QED
    BY Zenon, <2>2
<1> QED
  BY Zenon, <1>1 DEF HandlesCurrent, Has, In

(* A step that replaces n, or deletes it, and leaves its dependents to be  *)
(* updated.  The reload of n itself may be the task that it did.           *)
LEMMA HandlesReplaced ==
    ASSUME Shape, HandlesCurrent, NEW n \in Names, NEW own \in SUBSET Names, Outdate(n, own),
           Deps(run', n) = own, \A m \in Names \ {n} : Deps(run', m) = Deps(run, m),
           In(work', Do("update", n)),
           \A x : In(work, x) /\ x # Do("reload", n) => In(work', x)
    PROVE  HandlesCurrent'
<1>1. /\ fresh'[n] = own /\ failed' = failed \ {n}
      /\ \A m \in Names \ {n} : fresh'[m] = fresh[m] \ {n}
  BY Zenon DEF Outdate
<1>2. ASSUME NEW m \in Names, NEW d \in Deps(run', m) \ fresh'[m]
      PROVE  In(work', Do("update", d)) \/ In(work', Do("reload", m)) \/ m \in failed'
  <2>1. m # n
    BY Zenon, <1>1, <1>2
  <2>2. d \in Deps(run, m) /\ (d = n \/ d \notin fresh[m])
    BY Zenon, <1>1, <1>2, <2>1
  <2>3. CASE d = n
    BY Zenon, <2>3
  <2>4. CASE d \notin fresh[m]
    <3>1. In(work, Do("update", d)) \/ In(work, Do("reload", m)) \/ m \in failed
      BY Zenon, <2>2, <2>4 DEF HandlesCurrent, Has, In
    <3>2. Do("update", d) # Do("reload", n) /\ Do("reload", m) # Do("reload", n)
      BY Zenon, <2>1 DEF Do
    <3> QED
      BY Zenon, <1>1, <2>1, <3>1, <3>2
  <2> QED
    BY Zenon, <2>2, <2>3, <2>4
<1> QED
  BY Zenon, <1>2 DEF HandlesCurrent, Has, In

(* The tasks that are left stay left where there were none.                *)
LEMMA NothingLeft == \A x : ~In(<<>>, x)
  BY DEF In

(* A step that touches no running escaper, and no task but where none is   *)
(* left.                                                                   *)
Elsewhere == UNCHANGED <<run, fresh, failed>> /\ (UNCHANGED work \/ work = <<>>)

(* The steps that touch the running escapers or what is left to do.        *)
LEMMA Steps ==
    ASSUME Shape, [Next]_vars
    PROVE  Elsewhere \/ LoadNext \/ DeleteNext \/ OneLoad \/ ServerBuild \/ Work
<1>1. CASE FullUpdates \/ UsersBegin
  BY Zenon, <1>1 DEF FullUpdates, UsersBegin, update_users, Shape, LockInv, Elsewhere
<1>2. CASE \/ ReadSection \/ ReadAll \/ FullUsers \/ LoadAll \/ LoadSame \/ LoadedAll \/ DeletedAll
           \/ FullFails \/ SpawnAll
  BY Zenon, <1>2 DEF ReadSection, ReadAll, FullUsers, LoadAll, LoadSame, LoadedAll, DeletedAll, FullFails,
              SpawnAll, srvRest, Elsewhere
<1>3. CASE OneRead \/ OneLoops \/ OneChecked \/ OneSame \/ OneDone \/ OneFails
  BY Zenon, <1>3 DEF OneRead, OneLoops, OneChecked, OneSame, OneDone, OneFails, Elsewhere
<1>4. CASE ServerAdd \/ ServerSame \/ ServerEnd
  BY Zenon, <1>4 DEF ServerAdd, ServerSame, ServerEnd, srvRest, Elsewhere
<1>5. CASE reload_all \/ UsersEnd \/ (\E n \in Names : reload_one(n)) \/ (\E s \in Servers : ServerBegin(s))
  BY Zenon, <1>5 DEF reload_all, UsersEnd, reload_one, ServerBegin, srvRest, Elsewhere
<1>6. CASE UNCHANGED vars
  BY Zenon, <1>6 DEF vars, Elsewhere
<1> QED
  BY Zenon, <1>1, <1>2, <1>3, <1>4, <1>5, <1>6 DEF Next, Full, One, Server

(* What a step of the recursion does to the tasks that are left: it does   *)
(* the first, and puts what follows from it before the others.             *)
LEMMA WorkTasks ==
    ASSUME Shape, work # <<>>
    PROVE  /\ Head(work) \in Task /\ Tail(work) \in Seq(Task)
           /\ \A x : In(work, x) => x = Head(work) \/ In(Tail(work), x)
           /\ \A w \in Seq(Task) : \A x : In(w, x) \/ In(Tail(work), x) => In(w \o Tail(work), x)
  BY Zenon, InTail, InConcat DEF Shape, TypeOK

(* Every step keeps HandlesCurrent.                                        *)
LEMMA HandlesStep == Counting /\ Shape /\ HandlesCurrent /\ [Next]_vars => HandlesCurrent'
<1> SUFFICES ASSUME Counting, Shape, HandlesCurrent, [Next]_vars PROVE HandlesCurrent'
  OBVIOUS
<1>1. CASE Elsewhere
  BY Zenon, <1>1, NothingLeft, HandlesQuiet DEF Elsewhere, Same
<1>2. CASE LoadNext
  <2>1. PICK n \in sorted_first(build_topology_map(plan), todo) : add(n, plan[n]) /\ work' = Follow(n) /\ work = <<>>
    BY Zenon, <1>2 DEF LoadNext
  <2>2. n \in Names /\ plan[n] \in Sections /\ plan[n].next \in SUBSET Names
    BY Zenon, <2>1 DEF sorted_first, Shape, TypeOK, PlanInv, Configured, Configs, Sections
  <2>3. Outdate(n, plan[n].next)
    BY Zenon, <2>1 DEF add
  <2> QED
    BY Zenon, <2>1, <2>2, <2>3, AddDeps, FollowTasks, NothingLeft, HandlesReplaced
<1>3. CASE DeleteNext
  <2>1. PICK n \in dels : del(n) /\ work' = Follow(n) /\ work = <<>>
    BY Zenon, <1>3 DEF DeleteNext
  <2>2. n \in Names /\ Outdate(n, {})
    BY Zenon, <2>1 DEF Shape, TypeOK, del
  <2> QED
    BY Zenon, <2>1, <2>2, DelDeps, FollowTasks, NothingLeft, HandlesReplaced
<1>4. CASE OneLoad
  <2>1. /\ one.name \in Names /\ one.new \in Sections /\ one.new.next \in SUBSET Names
        /\ add(one.name, one.new) /\ work' = Follow(one.name) /\ work = <<>>
    BY Zenon, <1>4, SectionNext DEF OneLoad, Shape, TypeOK, OneInv, LockInv
  <2>2. Outdate(one.name, one.new.next)
    BY Zenon, <2>1 DEF add
  <2> QED
    BY Zenon, <2>1, <2>2, AddDeps, FollowTasks, NothingLeft, HandlesReplaced
<1>5. CASE ServerBuild
  <2>1. PICK n \in Names : run' = WithDefault({n})
    BY Zenon, <1>5 DEF ServerBuild
  <2>2. UNCHANGED <<fresh, failed, work>>
    BY Zenon, <1>5 DEF ServerBuild, srvRest
  <2> QED
    BY Zenon, <2>1, <2>2, DefaultSame, HandlesQuiet
<1>6. CASE Work
  <2>1. work # <<>>
    BY Zenon, <1>6 DEF Work
  <2> DEFINE n == Head(work).name
  <2>2. n \in Names /\ Head(work) = Do(Head(work).op, n)
    BY Zenon, <2>1, WorkTasks DEF Task, Do
  <2> HIDE DEF n
  <2>3. CASE Head(work).op = "update" /\ update_dependency(n)
    <3> DEFINE S == {m \in Names : n \in Deps(run, m)}
    <3>1. PICK q \in Orders(S) : work' = Each("reload", q) \o Each("update", q) \o Tail(work)
      BY Zenon, <2>3 DEF update_dependency
    <3>2. /\ Each("reload", q) \in Seq(Task) /\ Each("update", q) \in Seq(Task)
          /\ \A m \in S : In(Each("reload", q), Do("reload", m))
      BY Zenon, EachTask
    <3>3. /\ Each("reload", q) \o Each("update", q) \in Seq(Task)
          /\ \A m \in S : In(Each("reload", q) \o Each("update", q), Do("reload", m))
      BY Zenon, <3>2, InConcat
    <3>4. \A m \in S : In(work', Do("reload", m))
      BY Zenon, <2>1, <3>1, <3>3, WorkTasks
    <3>5. \A x : In(work, x) => x = Do("update", n) \/ In(work', x)
      BY Zenon, <2>1, <2>2, <2>3, <3>1, <3>3, WorkTasks
    <3>6. UNCHANGED <<run, fresh, failed>>
      BY Zenon, <2>3 DEF update_dependency
    <3>7. ASSUME NEW m \in Names, NEW d \in Deps(run, m) \ fresh[m]
          PROVE  In(work', Do("update", d)) \/ In(work', Do("reload", m)) \/ m \in failed
      <4>1. In(work, Do("update", d)) \/ In(work, Do("reload", m)) \/ m \in failed
        BY Zenon, <3>7 DEF HandlesCurrent, Has, In
      <4>2. Do("reload", m) # Do("update", n) /\ (Do("update", d) = Do("update", n) => d = n)
        BY Zenon DEF Do
      <4>3. d = n => m \in S
        BY Zenon, <3>7
      <4> QED
        BY Zenon, <4>1, <4>2, <4>3, <3>4, <3>5
    <3> QED
      BY Zenon, <3>6, <3>7 DEF HandlesCurrent, Has, In
  <2>4. CASE Head(work).op = "reload" /\ reload_existed(n)
    <3>1. run[n] \in Sections /\ run[n].next \in SUBSET Names /\ add(n, run[n]) /\ work' = Follow(n) \o Tail(work)
      BY Zenon, <2>2, <2>4, SectionNext DEF reload_existed, Shape, TypeOK, Configs
    <3>2. Outdate(n, run[n].next)
      BY Zenon, <3>1 DEF add
    <3>3. In(work', Do("update", n)) /\ \A x : In(work, x) /\ x # Do("reload", n) => In(work', x)
      BY Zenon, <2>1, <2>2, <2>4, <3>1, FollowTasks, WorkTasks
    <3> QED
      BY Zenon, <2>2, <3>1, <3>2, <3>3, AddDeps, HandlesReplaced
  <2>5. CASE Head(work).op = "reload" /\ reload_fails(n)
    <3>1. /\ work' = Tail(work) /\ failed' = failed \cup {n} /\ UNCHANGED <<run, fresh>>
      BY Zenon, <2>5 DEF reload_fails
    <3>2. \A x : In(work, x) => x = Do("reload", n) \/ In(work', x)
      BY Zenon, <2>1, <2>2, <2>5, <3>1, WorkTasks
    <3>3. ASSUME NEW m \in Names, NEW d \in Deps(run, m) \ fresh[m]
          PROVE  In(work', Do("update", d)) \/ In(work', Do("reload", m)) \/ m \in failed'
      <4>1. In(work, Do("update", d)) \/ In(work, Do("reload", m)) \/ m \in failed
        BY Zenon, <3>3 DEF HandlesCurrent, Has, In
      <4>2. Do("update", d) # Do("reload", n) /\ (Do("reload", m) = Do("reload", n) => m = n)
        BY Zenon DEF Do
      <4> QED
        BY Zenon, <4>1, <4>2, <3>1, <3>2
    <3> QED
      BY Zenon, <3>1, <3>3 DEF HandlesCurrent, Has, In
  <2>6. CASE Head(work).op = "serve" /\ serve_update(n)
    <3>1. work' = Tail(work) /\ UNCHANGED <<fresh, failed>> /\ Same(run', run)
      BY Zenon, <2>6, DefaultSame DEF serve_update, Same
    <3>2. \A x : In(work, x) => x = Do("serve", n) \/ In(work', x)
      BY Zenon, <2>1, <2>2, <2>6, <3>1, WorkTasks
    <3>3. ASSUME NEW m \in Names, NEW d \in Deps(run, m) \ fresh[m]
          PROVE  In(work', Do("update", d)) \/ In(work', Do("reload", m)) \/ m \in failed
      <4>1. In(work, Do("update", d)) \/ In(work, Do("reload", m)) \/ m \in failed
        BY Zenon, <3>3 DEF HandlesCurrent, Has, In
      <4>2. Do("update", d) # Do("serve", n) /\ Do("reload", m) # Do("serve", n)
        BY Zenon DEF Do
      <4> QED
        BY Zenon, <4>1, <4>2, <3>2
    <3>4. \A m \in Names : Deps(run', m) = Deps(run, m)
      BY Zenon, <3>1 DEF Same
    <3> QED
      BY Zenon, <3>1, <3>3, <3>4 DEF HandlesCurrent, Has, In
  <2> QED
    BY Zenon, <1>6, <2>3, <2>4, <2>5, <2>6 DEF Work, n
<1> QED
  BY Zenon, <1>1, <1>2, <1>3, <1>4, <1>5, <1>6, Steps

---------------------------------------------------------------------------
(* No server that holds a replaced escaper is forgotten. *)

(* A step that tells no server and forgets none.                           *)
LEMMA ServersQuiet ==
    ASSUME ServersCurrent, UNCHANGED srvVars,
           \A m : In(work, Do("serve", m)) => In(work', Do("serve", m))
    PROVE  ServersCurrent'
  BY Zenon DEF ServersCurrent, Has, In, srvVars

(* A step that replaces n, or deletes it, and leaves the servers that hold *)
(* it to be told.                                                          *)
LEMMA ServersReplaced ==
    ASSUME Shape, ServersCurrent, NEW n \in Names, NEW own, Outdate(n, own),
           In(work', Do("serve", n)),
           \A m : In(work, Do("serve", m)) => In(work', Do("serve", m))
    PROVE  ServersCurrent'
<1>1. ASSUME NEW s \in Servers \ current' PROVE In(work', Do("serve", esc'[s]))
  <2>1. s \notin current \/ esc[s] = n
    BY Zenon, <1>1 DEF Outdate
  <2>2. esc' = esc
    BY Zenon DEF Outdate
  <2>3. s \notin current => In(work, Do("serve", esc[s]))
    BY Zenon DEF ServersCurrent, Has, In
  <2> QED
    BY Zenon, <2>1, <2>2, <2>3
<1>2. ASSUME sop' # None, ~sop'.ok PROVE In(work', Do("serve", sop'.esc))
  <2>1. CASE sop # None /\ sop.esc = n
    BY Zenon, <2>1 DEF Outdate, Shape, TypeOK
  <2>2. CASE ~(sop # None /\ sop.esc = n)
    <3>1. sop' = sop
      BY Zenon, <2>2 DEF Outdate
    <3> QED
      BY Zenon, <1>2, <3>1 DEF ServersCurrent, Has, In
  <2> QED
    BY Zenon, <2>1, <2>2
<1> QED
  BY Zenon, <1>1, <1>2 DEF ServersCurrent, Has, In

(* The steps of the servers' operations.                                   *)
LEMMA ServerSteps ==
    ASSUME Shape, [Next]_vars, Elsewhere
    PROVE  \/ UNCHANGED srvVars
           \/ SpawnAll \/ FullFails \/ (\E s \in Servers : ServerBegin(s))
           \/ ServerAdd \/ ServerSame \/ ServerEnd
           \/ LoadNext \/ DeleteNext \/ OneLoad \/ ServerBuild \/ Work
<1>1. CASE reload_all \/ UsersBegin \/ UsersEnd \/ (\E n \in Names : reload_one(n)) \/ UNCHANGED vars
  BY Zenon, <1>1 DEF reload_all, UsersBegin, UsersEnd, reload_one, vars, srvVars
<1>2. CASE \/ ReadSection \/ ReadAll \/ FullUsers \/ FullUpdates \/ LoadAll \/ LoadSame \/ LoadedAll
           \/ DeletedAll
  BY Zenon, <1>2 DEF ReadSection, ReadAll, FullUsers, FullUpdates, LoadAll, LoadSame, LoadedAll, DeletedAll
<1>3. CASE OneRead \/ OneLoops \/ OneChecked \/ OneSame \/ OneDone \/ OneFails
  BY Zenon, <1>3 DEF OneRead, OneLoops, OneChecked, OneSame, OneDone, OneFails
<1> QED
  BY Zenon, <1>1, <1>2, <1>3 DEF Next, Full, One, Server

(* Every step keeps ServersCurrent.                                        *)
LEMMA ServersStep == Counting /\ Shape /\ ServersCurrent /\ [Next]_vars => ServersCurrent'
<1> SUFFICES ASSUME Counting, Shape, ServersCurrent, [Next]_vars PROVE ServersCurrent'
  OBVIOUS
<1>1. CASE Elsewhere /\ UNCHANGED srvVars
  BY Zenon, <1>1, NothingLeft, ServersQuiet DEF Elsewhere
<1>2. CASE SpawnAll \/ FullFails \/ (\E s \in Servers : ServerBegin(s)) \/ ServerSame \/ ServerEnd
  <2>1. UNCHANGED <<esc, current, work>>
    BY Zenon, <1>2 DEF SpawnAll, FullFails, ServerBegin, ServerSame, ServerEnd, srvRest
  <2>2. sop' = sop \/ sop' = None \/ sop'.ok
    <3>1. CASE SpawnAll \/ ServerSame \/ (\E s \in Servers : ServerBegin(s))
      BY <3>1 DEF SpawnAll, ServerSame, ServerBegin, Holding
    <3>2. CASE FullFails \/ ServerEnd
      BY Zenon, <3>2 DEF FullFails, ServerEnd
    <3> QED
      BY Zenon, <1>2, <3>1, <3>2
  <2> QED
    BY Zenon, <2>1, <2>2 DEF ServersCurrent, Has
<1>3. CASE ServerAdd
  <2>1. /\ sop # None /\ sop.srv \in Servers /\ UNCHANGED work
        /\ esc' = [esc EXCEPT ![sop.srv] = sop.esc]
        /\ current' = IF sop.ok THEN current \cup {sop.srv} ELSE current \ {sop.srv}
        /\ sop' = Holding(sop.who, sop.left \ {sop.srv})
    BY Zenon, <1>3 DEF ServerAdd, srvRest, Shape, TypeOK
  <2>2. ASSUME NEW s \in Servers \ current' PROVE In(work', Do("serve", esc'[s]))
    <3>1. CASE s = sop.srv
      <4>1. ~sop.ok /\ esc'[s] = sop.esc
        BY <2>1, <2>2, <3>1 DEF Shape, TypeOK
      <4> QED
        BY Zenon, <2>1, <4>1 DEF ServersCurrent, Has, In
    <3>2. CASE s # sop.srv
      <4>1. s \notin current /\ esc'[s] = esc[s]
        BY Zenon, <2>1, <2>2, <3>2 DEF Shape, TypeOK
      <4> QED
        BY Zenon, <2>1, <4>1 DEF ServersCurrent, Has, In
    <3> QED
      BY Zenon, <3>1, <3>2
  <2>3. sop'.ok
    BY Zenon, <2>1 DEF Holding
  <2> QED
    BY Zenon, <2>2, <2>3 DEF ServersCurrent, Has, In
<1>4. CASE LoadNext
  <2>1. PICK n \in sorted_first(build_topology_map(plan), todo) : add(n, plan[n]) /\ work' = Follow(n) /\ work = <<>>
    BY Zenon, <1>4 DEF LoadNext
  <2>2. n \in Names /\ Outdate(n, plan[n].next)
    BY Zenon, <2>1 DEF sorted_first, Shape, TypeOK, add
  <2> QED
    BY Zenon, <2>1, <2>2, FollowTasks, NothingLeft, ServersReplaced
<1>5. CASE DeleteNext
  <2>1. PICK n \in dels : del(n) /\ work' = Follow(n) /\ work = <<>>
    BY Zenon, <1>5 DEF DeleteNext
  <2>2. n \in Names /\ Outdate(n, {})
    BY Zenon, <2>1 DEF Shape, TypeOK, del
  <2> QED
    BY Zenon, <2>1, <2>2, FollowTasks, NothingLeft, ServersReplaced
<1>6. CASE OneLoad
  <2>1. one.name \in Names /\ Outdate(one.name, one.new.next) /\ work' = Follow(one.name) /\ work = <<>>
    BY Zenon, <1>6 DEF OneLoad, Shape, TypeOK, OneInv, LockInv, add
  <2> QED
    BY Zenon, <2>1, FollowTasks, NothingLeft, ServersReplaced
<1>7. CASE ServerBuild
  <2>1. UNCHANGED <<esc, current, work>>
    BY Zenon, <1>7 DEF ServerBuild, srvRest
  <2>2. sop' # None => sop'.ok
    BY Zenon, <1>7 DEF ServerBuild, Preparing, Shape, TypeOK, ServerInv
  <2> QED
    BY Zenon, <2>1, <2>2 DEF ServersCurrent, Has
<1>8. CASE Work
  <2>1. work # <<>>
    BY Zenon, <1>8 DEF Work
  <2> DEFINE n == Head(work).name
  <2>2. n \in Names /\ Head(work) = Do(Head(work).op, n)
    BY Zenon, <2>1, WorkTasks DEF Task, Do
  <2>3. \A m : Do("serve", m) # Do("update", n) /\ Do("serve", m) # Do("reload", n)
    BY Zenon DEF Do
  <2> HIDE DEF n
  <2>4. CASE Head(work).op = "update" /\ update_dependency(n)
    <3>1. PICK q \in Orders({m \in Names : n \in Deps(run, m)}) :
             work' = Each("reload", q) \o Each("update", q) \o Tail(work)
      BY Zenon, <2>4 DEF update_dependency
    <3>2. Each("reload", q) \o Each("update", q) \in Seq(Task)
      BY Zenon, EachTask, InConcat
    <3>3. \A m : In(work, Do("serve", m)) => In(work', Do("serve", m))
      BY Zenon, <2>1, <2>2, <2>3, <2>4, <3>1, <3>2, WorkTasks
    <3> QED
      BY Zenon, <2>4, <3>3, ServersQuiet DEF update_dependency
  <2>5. CASE Head(work).op = "reload" /\ reload_existed(n)
    <3>1. Outdate(n, run[n].next) /\ work' = Follow(n) \o Tail(work)
      BY Zenon, <2>5 DEF reload_existed, add
    <3>2. In(work', Do("serve", n)) /\ \A m : In(work, Do("serve", m)) => In(work', Do("serve", m))
      BY Zenon, <2>1, <2>2, <2>3, <2>5, <3>1, FollowTasks, WorkTasks
    <3> QED
      BY Zenon, <2>2, <3>1, <3>2, ServersReplaced
  <2>6. CASE Head(work).op = "reload" /\ reload_fails(n)
    <3>1. \A m : In(work, Do("serve", m)) => In(work', Do("serve", m))
      BY Zenon, <2>1, <2>2, <2>3, <2>6, WorkTasks DEF reload_fails
    <3> QED
      BY Zenon, <2>6, <3>1, ServersQuiet DEF reload_fails
  <2>7. CASE Head(work).op = "serve" /\ serve_update(n)
    <3>1. /\ sop = None /\ sop' = None /\ esc' = esc /\ work' = Tail(work)
          /\ current' = current \cup {s \in Servers : esc[s] = n}
      BY Zenon, <2>7 DEF serve_update
    <3>2. \A m : In(work, Do("serve", m)) => m = n \/ In(work', Do("serve", m))
      BY <2>1, <2>2, <2>7, <3>1, WorkTasks DEF Do
    <3>3. \A s \in Servers \ current : In(work, Do("serve", esc[s]))
      BY Zenon DEF ServersCurrent, Has, In
    <3>4. \A s \in Servers \ current' : In(work', Do("serve", esc'[s]))
      BY Zenon, <3>1, <3>2, <3>3
    <3> QED
      BY Zenon, <3>1, <3>4 DEF ServersCurrent, Has, In
  <2> QED
    BY Zenon, <1>8, <2>4, <2>5, <2>6, <2>7 DEF Work, n
<1> QED
  BY Zenon, <1>1, <1>2, <1>3, <1>4, <1>5, <1>6, <1>7, <1>8, Steps, ServerSteps

=============================================================================
