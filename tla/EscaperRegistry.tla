--------------------------- MODULE EscaperRegistry ---------------------------
(***************************************************************************)
(* The reload control plane of the proxy: the registry of the escapers'    *)
(* configurations (config/escaper), the registry of the running escapers   *)
(* and its operations (escape/ops.rs, escape/registry.rs), the servers     *)
(* that hold an escaper (serve/ops.rs), and the operations that run on     *)
(* them: a reload of everything (signal.rs), of one escaper, of one        *)
(* server, and the change of a resolver or an auditor.                     *)
(*                                                                         *)
(* The section of an escaper is the set of the escapers it may hand a task *)
(* to, and whether it is one of the comply types, whose configuration does *)
(* not tell the check for loops about it (dependent_escaper).  An escaper  *)
(* holds a handle on each, taken from the registry when it is built;       *)
(* fresh[n] are those of them that still are the registered ones.          *)
(* A name without a configuration gets the DummyDeny escaper, which        *)
(* depends on nothing.  The recursion of update_dependency_to_escaper and  *)
(* the work left to the holder of ESCAPER_OPS_LOCK are the sequence work.  *)
(***************************************************************************)
EXTENDS Naturals, Sequences, FiniteSets

CONSTANTS
    Names,      \* names of escapers
    Servers,    \* names of servers
    None,       \* the absent value
    Docs,       \* what the configuration files may hold: a set of escaper sections
    Users,      \* the escapers that use the resolver or the auditor that changes,
                \* and cannot be built while that is missing
    MaxOps,     \* bound: operations
    MaxWork     \* bound: depth of a recursion that goes round in a loop

Sections == [comply : BOOLEAN, next : SUBSET Names]

Configs == [Names -> {None} \cup Sections]

ASSUME RegistryAssumption ==
    /\ IsFiniteSet(Names) /\ None \notin Sections
    /\ None \notin Names \cup Servers
    /\ None \notin {"full", "one", "users"}
    /\ Docs \subseteq Configs /\ Users \subseteq Names
    /\ MaxOps \in Nat /\ MaxWork \in Nat

VARIABLES
    conf,       \* INITIAL_ESCAPER_CONFIG_REGISTRY
    run,        \* RUNTIME_ESCAPER_REGISTRY
    fresh,      \* the handles of a running escaper that are registered ones
    failed,     \* the running escapers that could not be rebuilt the last time
    esc,        \* the escaper of a server
    current,    \* the servers whose handle on it is the registered one
    lock,       \* the operation that holds ESCAPER_OPS_LOCK
    work,       \* what is left of it: calls on the stack, then the loops of load_all
    full,       \* the reload of everything: where it is
    left,       \* the sections it has not read yet
    doc,        \* the file it reads
    plan,       \* the sorted configurations load_all works through
    todo,       \* those it has not come to yet
    dels,       \* the running escapers it has still to delete
    one,        \* the reload of one escaper
    sop,        \* the operation that holds SERVER_OPS_LOCK
    applied,    \* history: load_all ended, and no configuration was read in vain since
    blind,      \* history: escapers were loaded that the check for loops cannot vouch for
    ops         \* operations so far

confVars == <<conf, left, doc>>
loadVars == <<plan, todo, dels>>
srvVars == <<esc, current, sop>>
vars == <<conf, run, fresh, failed, esc, current, lock, work, full, left, doc, plan,
          todo, dels, one, sop, applied, blind, ops>>

---------------------------------------------------------------------------
(* Configurations and their dependencies. *)

Configured(g) == {n \in Names : g[n] # None}

(* _depend_on_escaper: what an escaper built from this section depends on. *)
Deps(g, n) == IF g[n] = None THEN {} ELSE g[n].next

(* dependent_escaper: ComplyAudit and ComplyContext leave the default. *)
dependent_escaper(c) == IF c.comply THEN {} ELSE c.next

(* The configuration as the check for loops sees it. *)
build_topology_map(g) ==
    [n \in Names |-> IF g[n] = None THEN None ELSE [g[n] EXCEPT !.next = dependent_escaper(g[n])]]

Closed(g, C) == \A c \in C : Deps(g, c) \subseteq C

(* TopoNode.all_children: the least closed set with the children. *)
all_children(g, n) ==
    {m \in Names : \A C \in SUBSET Names : Deps(g, n) \subseteq C /\ Closed(g, C) => m \in C}

(* TopoMap::add_node refuses a name that is below itself. *)
HasLoop(g) == \E n \in Names : n \in all_children(g, n)

Loops(g) == HasLoop(build_topology_map(g))

(* The check sees every dependency; every name has a section of its own. *)
Seen(g) == \A n \in Names : Deps(build_topology_map(g), n) = Deps(g, n)
Complete(g) == \A n \in Names : Deps(g, n) \subseteq Configured(g)

(* sorted_nodes: fewest children first. *)
\* (mutant) in the order of the names
sorted_first_any(g, S) == S

sorted_first(g, S) ==
    {n \in S : \A m \in S : Cardinality(all_children(g, n)) <= Cardinality(all_children(g, m))}

(* The DummyDeny escaper. *)
Default == [comply |-> FALSE, next |-> {}]

Idle == [st |-> "idle", name |-> None, got |-> None, new |-> None, old |-> None]

(* The process has loaded its file; with a loop of any kind it never does. *)
Init ==
    /\ \E d \in Docs : ~HasLoop(d) /\ conf = d
    /\ run = [n \in Names |-> IF conf[n] = None /\ \E m \in Names : n \in Deps(conf, m) THEN Default ELSE conf[n]]
    /\ fresh = [n \in Names |-> Deps(run, n)] /\ failed = {}
    /\ esc \in [Servers -> Configured(run)] /\ current = Servers
    /\ lock = None /\ work = <<>> /\ full = "idle" /\ left = {}
    /\ doc = [n \in Names |-> None] /\ plan = [n \in Names |-> None]
    /\ todo = {} /\ dels = {} /\ one = Idle /\ sop = None
    /\ applied = TRUE /\ blind = FALSE /\ ops = 0

---------------------------------------------------------------------------
(* The registry of the running escapers. *)

(* get_or_insert_default, for every name in S. *)
WithDefault(S) == [n \in Names |-> IF n \in S /\ run[n] = None THEN Default ELSE run[n]]

(* The old escaper of that name is gone: who holds it holds a stale one. *)
Outdate(n, own) ==
    /\ fresh' = [m \in Names |-> IF m = n THEN own ELSE fresh[m] \ {n}]
    /\ failed' = failed \ {n}
    /\ current' = {s \in current : esc[s] # n}
    /\ sop' = IF sop # None /\ sop.esc = n THEN [sop EXCEPT !.ok = FALSE] ELSE sop
    /\ UNCHANGED esc

(* prepare_initial or _reload, then add. *)
add(n, c) ==
    /\ run' = [WithDefault(c.next) EXCEPT ![n] = c]
    /\ Outdate(n, c.next)

del(n) ==
    /\ run' = [run EXCEPT ![n] = None]
    /\ Outdate(n, {})

Do(op, n) == [op |-> op, name |-> n]
Has(op, n) == \E i \in DOMAIN work : work[i] = Do(op, n)

(* The iteration order of a HashMap. *)
Orders(S) == {q \in [1..Cardinality(S) -> S] : \A x \in S : \E i \in DOMAIN q : q[i] = x}

Each(op, q) == [i \in DOMAIN q |-> Do(op, q[i])]

(* After a change of n: the escapers, then the servers that depend on it. *)
\* (mutant) only the servers
Follow_servers(n) == <<Do("serve", n)>>

Follow(n) == <<Do("update", n), Do("serve", n)>>

(* update_dependency_to_escaper_unlocked; where escapers run in a loop this *)
(* recursion has no end, and the model stops at MaxWork.                   *)
update_dependency(n) ==
    /\ Len(work) <= MaxWork
    /\ \E q \in Orders({m \in Names : n \in Deps(run, m)}) :
          work' = Each("reload", q) \o Each("update", q) \o Tail(work)
    /\ UNCHANGED <<run, fresh, failed, srvVars>>

(* reload_existed_unlocked with the configuration it has *)
\* (mutant) the servers are left to the next change
reload_existed_quiet(n) ==
    /\ run[n] # None /\ add(n, run[n])
    /\ work' = <<Do("update", n)>> \o Tail(work)

reload_existed(n) ==
    /\ run[n] # None /\ add(n, run[n])
    /\ work' = Follow(n) \o Tail(work)

(* An error of _reload is logged, and the old escaper stays. *)
reload_fails(n) ==
    /\ n \in Users /\ failed' = failed \cup {n}
    /\ work' = Tail(work)
    /\ UNCHANGED <<run, fresh, srvVars>>

(* serve::update_dependency_to_escaper: takes SERVER_OPS_LOCK. *)
serve_update(n) ==
    /\ sop = None
    /\ LET S == {s \in Servers : esc[s] = n}
       IN  /\ current' = current \cup S
           /\ run' = IF S = {} THEN run ELSE WithDefault({n})
    /\ work' = Tail(work)
    /\ UNCHANGED <<fresh, failed, esc, sop>>

Work ==
    /\ work # <<>>
    /\ LET w == Head(work)
       IN  \/ w.op = "update" /\ update_dependency(w.name)
           \/ w.op = "reload" /\ reload_existed(w.name)
           \/ w.op = "reload" /\ reload_fails(w.name)
           \/ w.op = "serve" /\ serve_update(w.name)
    /\ UNCHANGED <<confVars, lock, full, loadVars, one, applied, blind, ops>>

---------------------------------------------------------------------------
(* signal::reload, which holds RELOAD_MUTEX throughout. *)

Begin == ops < MaxOps /\ ops' = ops + 1

(* config::reload: every registry is cleared before the file is read. *)
reload_all ==
    /\ full = "idle" /\ Begin
    /\ doc' \in Docs
    /\ conf' = [n \in Names |-> None] /\ left' = Configured(doc')
    /\ full' = "config" /\ applied' = FALSE
    /\ UNCHANGED <<run, fresh, failed, srvVars, lock, work, loadVars, one, blind>>

(* config::escaper::load_all: a name that is there already is an error. *)
ReadSection ==
    /\ full = "config"
    /\ \E n \in left : /\ conf[n] = None /\ conf' = [conf EXCEPT ![n] = doc[n]]
                       /\ left' = left \ {n}
    /\ UNCHANGED <<run, fresh, failed, srvVars, lock, work, full, doc, loadVars, one, applied, blind, ops>>

ReadAll ==
    /\ full = "config" /\ left = {} /\ ~Loops(conf)
    /\ full' = "resolvers" /\ doc' = [n \in Names |-> None]
    /\ UNCHANGED <<conf, run, fresh, failed, srvVars, lock, work, left, loadVars, one, applied, blind, ops>>

(* update_dependency_to_resolver and update_dependency_to_auditor *)
update_users(who) ==
    /\ lock = None /\ lock' = who
    /\ \E q \in Orders(Users \cap Configured(run)) : work' = Each("reload", q)

(* resolve::spawn_all and audit::load_all, where some resolver or auditor  *)
(* has changed or none has.                                                *)
FullUsers ==
    /\ \/ full = "resolvers" /\ full' = "escapers"
       \/ full = "auditors" /\ full' = "servers"
    /\ \/ lock # "full" /\ UNCHANGED <<lock, work>>
       \/ lock = "full" /\ work = <<>> /\ lock' = None /\ UNCHANGED work
    /\ UNCHANGED <<confVars, run, fresh, failed, srvVars, loadVars, one, applied, blind, ops>>

FullUpdates ==
    /\ full \in {"resolvers", "auditors"} /\ update_users("full")
    /\ UNCHANGED <<confVars, run, fresh, failed, srvVars, full, loadVars, one, applied, blind, ops>>

(* escape::load_all *)
LoadAll ==
    /\ full = "escapers" /\ lock = None /\ ~Loops(conf)
    /\ lock' = "full" /\ full' = "load"
    /\ plan' = conf /\ todo' = Configured(conf)
    /\ blind' = (blind \/ ~Seen(conf) \/ ~Complete(conf))
    /\ UNCHANGED <<confVars, run, fresh, failed, srvVars, work, dels, one, applied, ops>>

(* spawn_new_unlocked, or reload_unlocked with a changed configuration. *)
LoadNext ==
    /\ full = "load" /\ work = <<>>
    /\ \E n \in sorted_first(build_topology_map(plan), todo) :
          /\ todo' = todo \ {n}
          /\ add(n, plan[n]) /\ work' = Follow(n)
    /\ UNCHANGED <<confVars, lock, full, plan, dels, one, applied, blind, ops>>

(* reload_unlocked: NoAction. *)
LoadSame ==
    /\ full = "load" /\ work = <<>>
    /\ \E n \in sorted_first(build_topology_map(plan), todo) : run[n] = plan[n] /\ todo' = todo \ {n}
    /\ UNCHANGED <<confVars, run, fresh, failed, srvVars, lock, work, full, plan, dels, one, applied, blind, ops>>

\* (mutant) escapers that are no longer configured stay
Leftover_none == {}

Leftover == Configured(run) \ Configured(plan)

LoadedAll ==
    /\ full = "load" /\ work = <<>> /\ todo = {}
    /\ full' = "delete" /\ dels' = Leftover
    /\ UNCHANGED <<confVars, run, fresh, failed, srvVars, lock, work, plan, todo, one, applied, blind, ops>>

(* delete_existed_unlocked *)
DeleteNext ==
    /\ full = "delete" /\ work = <<>>
    /\ \E n \in dels : dels' = dels \ {n} /\ del(n) /\ work' = Follow(n)
    /\ UNCHANGED <<confVars, lock, full, plan, todo, one, applied, blind, ops>>

DeletedAll ==
    /\ full = "delete" /\ work = <<>> /\ dels = {}
    /\ full' = "auditors" /\ lock' = None /\ applied' = TRUE
    /\ plan' = [n \in Names |-> None]
    /\ UNCHANGED <<confVars, run, fresh, failed, srvVars, work, todo, dels, one, blind, ops>>

(* An error ends the reload where it is: a file that cannot be read, names *)
(* that are there twice or depend on themselves, a resolver, an escaper or *)
(* a server that cannot be built.                                          *)
FullFails ==
    /\ full \in {"config", "resolvers", "escapers", "load", "auditors", "spawn"}
    /\ full = "spawn" => sop.srv = None
    /\ lock = "full" => work = <<>>
    /\ lock' = IF lock = "full" THEN None ELSE lock
    /\ sop' = IF full = "spawn" THEN None ELSE sop
    /\ full' = "idle" /\ left' = {} /\ todo' = {}
    /\ doc' = [n \in Names |-> None] /\ plan' = [n \in Names |-> None]
    /\ UNCHANGED <<conf, run, fresh, failed, esc, current, work, dels, one, applied, blind, ops>>

---------------------------------------------------------------------------
(* escape::reload: one escaper, without RELOAD_MUTEX. *)

reload_one(n) ==
    /\ lock = None /\ run[n] # None /\ Begin
    /\ lock' = "one" /\ one' = [Idle EXCEPT !.st = "read", !.name = n]
    /\ UNCHANGED <<confVars, run, fresh, failed, srvVars, work, full, loadVars, applied, blind>>

(* load_at_position adds what it reads; the file may name another escaper. *)
OneRead ==
    /\ one.st = "read"
    /\ \E d \in Docs, m \in Names :
          /\ d[m] # None /\ conf' = [conf EXCEPT ![m] = d[m]]
          /\ one' = [one EXCEPT !.st = "check", !.got = m, !.new = d[m], !.old = conf[m]]
    /\ UNCHANGED <<run, fresh, failed, srvVars, lock, work, full, left, doc, loadVars, applied, blind, ops>>

OneEnds == lock' = None /\ one' = Idle

(* load_at_position, where the topology has a loop: roll back. *)
OneLoops ==
    /\ one.st = "check" /\ Loops(conf) /\ OneEnds
    /\ conf' = [conf EXCEPT ![one.got] = one.old]
    /\ UNCHANGED <<run, fresh, failed, srvVars, work, full, left, doc, loadVars, applied, blind, ops>>

OneChecked ==
    /\ one.st = "check" /\ ~Loops(conf) /\ one.got = one.name
    /\ one' = [one EXCEPT !.st = "load"]
    /\ blind' = (blind \/ ~Seen(conf) \/ ~applied)
    /\ UNCHANGED <<confVars, run, fresh, failed, srvVars, lock, work, full, loadVars, applied, ops>>

(* reload_unlocked: NoAction, or a new escaper and what follows from it. *)
OneSame ==
    /\ one.st = "load" /\ run[one.name] = one.new /\ OneEnds
    /\ UNCHANGED <<confVars, run, fresh, failed, srvVars, work, full, loadVars, applied, blind, ops>>

OneLoad ==
    /\ one.st = "load" /\ add(one.name, one.new) /\ work' = Follow(one.name)
    /\ one' = [one EXCEPT !.st = "follow"]
    /\ UNCHANGED <<confVars, lock, full, loadVars, applied, blind, ops>>

OneDone ==
    /\ one.st = "follow" /\ work = <<>> /\ OneEnds
    /\ UNCHANGED <<confVars, run, fresh, failed, srvVars, work, full, loadVars, applied, blind, ops>>

(* Nothing to read at the position, a name that is not the one asked for,  *)
(* or an escaper that cannot be built: the configuration read stays.       *)
OneFails ==
    /\ \/ one.st = "read" /\ UNCHANGED applied
       \/ one.st = "check" /\ ~Loops(conf) /\ one.got # one.name /\ applied' = FALSE
       \/ one.st = "load" /\ applied' = FALSE
    /\ OneEnds
    /\ UNCHANGED <<confVars, run, fresh, failed, srvVars, work, full, loadVars, blind, ops>>

---------------------------------------------------------------------------
(* resolve::reload and audit::reload, as far as the escapers see them. *)
UsersBegin ==
    /\ Begin /\ update_users("users")
    /\ UNCHANGED <<confVars, run, fresh, failed, srvVars, full, loadVars, one, applied, blind>>

UsersEnd ==
    /\ lock = "users" /\ work = <<>> /\ lock' = None
    /\ UNCHANGED <<confVars, run, fresh, failed, srvVars, work, full, loadVars, one, applied, blind, ops>>

---------------------------------------------------------------------------
(* serve::reload and serve::spawn_all. *)

Holding(who, S) == [who |-> who, left |-> S, srv |-> None, esc |-> None, ok |-> TRUE]

srvRest == <<confVars, fresh, failed, lock, work, loadVars, one>>

ServerBegin(s) ==
    /\ sop = None /\ Begin /\ sop' = Holding("one", {s})
    /\ UNCHANGED <<srvRest, run, esc, current, full, applied, blind>>

SpawnAll ==
    /\ full = "servers" /\ sop = None
    /\ full' = "spawn" /\ sop' = Holding("full", Servers)
    /\ UNCHANGED <<srvRest, run, esc, current, applied, blind, ops>>

(* The next server of the operation, nothing of it built yet. *)
\* (mutant) under the lock of the escapers
Preparing_locked == sop # None /\ sop.srv = None /\ lock = None

Preparing == sop # None /\ sop.srv = None

(* prepare_initial and _reload_with_...: the new server takes its escaper. *)
ServerBuild ==
    /\ Preparing
    /\ \E s \in sop.left, n \in Names :
          /\ sop' = [sop EXCEPT !.srv = s, !.esc = n]
          /\ run' = WithDefault({n})
    /\ UNCHANGED <<srvRest, esc, current, full, applied, blind, ops>>

(* The server registry's add. *)
ServerAdd ==
    /\ sop # None /\ sop.srv # None
    /\ esc' = [esc EXCEPT ![sop.srv] = sop.esc]
    /\ current' = IF sop.ok THEN current \cup {sop.srv} ELSE current \ {sop.srv}
    /\ sop' = Holding(sop.who, sop.left \ {sop.srv})
    /\ UNCHANGED <<srvRest, run, full, applied, blind, ops>>

(* reload_old_unlocked: NoAction, or what does not touch the escaper. *)
ServerSame ==
    /\ Preparing /\ \E s \in sop.left : sop' = Holding(sop.who, sop.left \ {s})
    /\ UNCHANGED <<srvRest, run, esc, current, full, applied, blind, ops>>

ServerEnd ==
    /\ Preparing /\ sop.left = {} /\ sop' = None
    /\ \/ sop.who = "one" /\ UNCHANGED full
       \/ sop.who = "full" /\ full' = "idle"
    /\ UNCHANGED <<srvRest, run, esc, current, applied, blind, ops>>

---------------------------------------------------------------------------
Full == \/ ReadSection \/ ReadAll \/ FullUsers \/ FullUpdates \/ LoadAll \/ LoadNext \/ LoadSame
        \/ LoadedAll \/ DeleteNext \/ DeletedAll \/ FullFails \/ SpawnAll

One == OneRead \/ OneLoops \/ OneChecked \/ OneSame \/ OneLoad \/ OneDone \/ OneFails

Server == ServerBuild \/ ServerAdd \/ ServerSame \/ ServerEnd

Next ==
    \/ reload_all \/ Full
    \/ \E n \in Names : reload_one(n)
    \/ One \/ UsersBegin \/ UsersEnd
    \/ \E s \in Servers : ServerBegin(s)
    \/ Server \/ Work

Spec == Init /\ [][Next]_vars

(* An operation under way goes on, whichever it is. *)
Progress == Full \/ One \/ UsersEnd \/ Server \/ Work

FairSpec == Spec /\ WF_vars(Progress)

---------------------------------------------------------------------------
(* The check for loops is enough for what it sees: as long as every file   *)
(* that load_all applied has a section for each name it mentions, and no   *)
(* escaper of a comply type, and single reloads were checked against what  *)
(* runs, the running escapers have no loop at any moment, though load_all  *)
(* mixes escapers of the old and the new file as it goes.                  *)
NoLoop == ~blind => ~HasLoop(run)

(* topology.rs refuses a configuration in which an escaper depends on      *)
(* itself through others ("has a loop dependency on itself"): no such      *)
(* configuration is ever running.                                          *)
LoopsRefused == ~HasLoop(run)

(* A running escaper that holds a replaced escaper is about to be          *)
(* reloaded: the replaced one's dependents are still to be updated         *)
(* (update_dependency_to_escaper_unlocked), unless it could not be built.  *)
HandlesCurrent ==
    \A n \in Names : \A d \in Deps(run, n) \ fresh[n] : Has("update", d) \/ Has("reload", n) \/ n \in failed

(* A server that holds a replaced escaper, also one that is being built    *)
(* while the escaper is replaced, is about to be told                      *)
(* (serve::update_dependency_to_escaper).                                  *)
ServersCurrent ==
    /\ \A s \in Servers \ current : Has("serve", esc[s])
    /\ sop # None => sop.ok \/ Has("serve", sop.esc)

(* Once load_all has ended, and whatever reloads of single escapers come   *)
(* and go after it without an error, the running escapers have the         *)
(* dependencies the configuration gives them, and none but defaults are    *)
(* left besides: no reload works on what another one has cleared.          *)
InSync == applied /\ one = Idle => \A n \in Names : Deps(run, n) = Deps(conf, n)

(* Every operation ends and gives its locks back, unless escapers run in a *)
(* loop: the order in which the locks are taken has no cycle, and without  *)
(* a loop every recursion of update_dependency_to_escaper has an end.      *)
OpsEnd ==
    /\ (full # "idle") ~> (full = "idle" \/ HasLoop(run))
    /\ (lock # None) ~> (lock = None \/ HasLoop(run))
    /\ (sop # None) ~> (sop = None \/ HasLoop(run))

=============================================================================
