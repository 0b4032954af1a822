--------------------------- MODULE CapabilityKernel ---------------------------
(***************************************************************************)
(* The plugin manager of docs/archaeology/python-cordis/kernel: install    *)
(* and unload of capabilities with dependencies (manager.py), the state    *)
(* machine of one installed generation (capability.py), and the scopes and *)
(* dependents it is disposed through (semantic_layer/core.py).             *)
(*                                                                         *)
(* Everything runs in one event loop: what stands between two awaits is    *)
(* one action, and the tasks interleave at the awaits.  An install or      *)
(* unload task is run by the caller that created it, a _dispose task by    *)
(* the generation it disposes.  The effects of a generation are one: it    *)
(* has live effects or it has none.  Callers are not cancelled, and the    *)
(* registered dependencies are acyclic.                                    *)
(***************************************************************************)
EXTENDS Naturals, Sequences, FiniteSets, SequencesExt

CONSTANTS
    Caller,     \* the coroutines that call the manager
    Cap,        \* ids of the registered capabilities
    Deps,       \* descriptor.dependencies: a sequence of ids for every id
    MaxInstances,   \* bounds, by the number of callers: the number of generations
                    \* from which on no install is called
    None

ASSUME KernelAssumption ==
    /\ IsFiniteSet(Caller) /\ IsFiniteSet(Cap) /\ Deps \in [Cap -> Seq(Cap)]
    /\ MaxInstances \in Seq(Nat) /\ Len(MaxInstances) = Cardinality(Caller)
    /\ None \notin Caller

VARIABLES
    insts,      \* the generations of each capability; the last is record.instance
    registered, \* DependencyLifecycle._dependents: generations by provider id
    released,   \* DependencyLifecycle._released: provider ids
    installer,  \* _install_tasks: the caller that runs the task
    unloader,   \* _unload_tasks: the caller that runs the task
    pc,         \* where a caller stands
    call        \* the locals of its call

vars == <<insts, registered, released, installer, unloader, pc, call>>

-----------------------------------------------------------------------------

\* A generation is named by the id and its number.
Installed == UNION {{<<c, g>> : g \in DOMAIN insts[c]} : c \in Cap}

Inst(i) == insts[i[1]][i[2]]
Current(c) == <<c, Len(insts[c])>>
State(c) == IF insts[c] = <<>> THEN "REGISTERED" ELSE Inst(Current(c)).state

\* _install_chain, dependencies first: the ids that are still to visit, and
\* those to append when their dependencies have been visited, lie on a stack.
Visit(walk) ==
    LET c == Head(walk.stack)[2] IN
    IF walk.stack = <<>> THEN walk
    ELSE IF Head(walk.stack)[1] = "append"
    THEN [chain |-> Append(walk.chain, c), stack |-> Tail(walk.stack)]
    ELSE IF c \in Range(walk.chain) \/ State(c) = "ACTIVE"
    THEN [chain |-> walk.chain, stack |-> Tail(walk.stack)]
    ELSE [chain |-> walk.chain,
          stack |-> [k \in DOMAIN Deps[c] |-> <<"visit", Deps[c][k]>>]
                    \o <<<<"append", c>>>> \o Tail(walk.stack)]

\* Each dependency is visited once, each capability appended once.
Visits == 1 + Cardinality(Cap) + Cardinality(UNION {{c} \X DOMAIN Deps[c] : c \in Cap})

InstallChain(c) ==
    LET walk[n \in 0..Visits] ==
            IF n = 0 THEN [chain |-> <<>>, stack |-> <<<<"visit", c>>>>] ELSE Visit(walk[n - 1])
    IN  walk[Visits].chain

Present == {p \in Caller : pc[p] # "absent"}

\* Capability.__init__.
Fresh(deps) ==
    [state |-> "INSTALLING", scope |-> "ACTIVE", live |-> FALSE,
     deps |-> deps,             \* Capability.dependencies
     dependents |-> {},         \* Capability.dependents: ids
     task |-> "none",           \* Capability._dispose_task
     waits |-> {}]              \* the scopes its release has to see disposed

NoCall == [op |-> "none", id |-> None, on |-> None, chain |-> <<>>,
           created |-> <<>>, work |-> <<>>, at |-> None, ok |-> TRUE]

Init ==
    /\ insts = [c \in Cap |-> <<>>]
    /\ registered = [c \in Cap |-> {}]
    /\ released = {}
    /\ installer = [c \in Cap |-> None]
    /\ unloader = [c \in Cap |-> None]
    /\ pc \in [Caller -> {"idle", "absent"}]
    /\ \E p \in Caller : pc[p] = "idle"
    /\ call = [p \in Caller |-> NoCall]

-----------------------------------------------------------------------------
(* Callers.                                                                *)

Goto(p, label) == pc' = [pc EXCEPT ![p] = label]

Running(task) == task # None /\ pc[task] \notin {"idle", "done"}

Await(p, q, label) ==
    /\ Goto(p, label)
    /\ call' = [call EXCEPT ![p].on = q]

\* The call raises or returns before it has created anything.
Refuse(p, op, c, ok) ==
    /\ call' = [call EXCEPT ![p] = [NoCall EXCEPT !.op = op, !.id = c, !.ok = ok]]
    /\ UNCHANGED <<insts, registered, released, installer, unloader, pc>>

Coalesce(p, op, c, q) ==
    /\ Goto(p, "coalesced")
    /\ call' = [call EXCEPT ![p] = [NoCall EXCEPT !.op = op, !.id = c, !.on = q]]
    /\ UNCHANGED <<insts, registered, released, installer, unloader>>

Create(p, op, c) ==
    /\ Goto(p, "start")
    /\ call' = [call EXCEPT ![p] = [NoCall EXCEPT !.op = op, !.id = c]]

\* install(): join the running task of this id, or create one.
InstallCall(p, c) ==
    /\ pc[p] = "idle"
    /\ Cardinality(Installed) < MaxInstances[Cardinality(Present)]
    /\ \/ Running(installer[c]) /\ Coalesce(p, "install", c, installer[c])
       \/ /\ ~Running(installer[c])
          /\ State(c) \in {"ACTIVE", "INSTALLING", "DISPOSING"}
          /\ Refuse(p, "install", c, FALSE)
       \/ /\ ~Running(installer[c])
          /\ State(c) \notin {"ACTIVE", "INSTALLING", "DISPOSING"}
          /\ Create(p, "install", c)
          /\ installer' = [installer EXCEPT ![c] = p]
          /\ UNCHANGED <<insts, registered, released, unloader>>

\* Mutant: active dependents do not keep a provider.
UnloadCallAnyway(p, c) ==
    /\ pc[p] = "idle"
    /\ \/ State(c) \in {"REGISTERED", "DISPOSED"} /\ Refuse(p, "unload", c, TRUE)
       \/ State(c) = "INSTALLING" /\ Refuse(p, "unload", c, FALSE)
       \/ /\ State(c) \in {"ACTIVE", "DISPOSING", "FAILED"}
          /\ IF Running(unloader[c])
             THEN Coalesce(p, "unload", c, unloader[c])
             ELSE /\ Create(p, "unload", c)
                  /\ unloader' = [unloader EXCEPT ![c] = p]
                  /\ UNCHANGED <<insts, registered, released, installer>>

\* unload(): refused while it is installing or has active dependents.
UnloadCall(p, c) ==
    /\ pc[p] = "idle"
    /\ LET kept == State(c) = "ACTIVE" /\ Inst(Current(c)).dependents # {}
       IN  \/ State(c) \in {"REGISTERED", "DISPOSED"} /\ Refuse(p, "unload", c, TRUE)
           \/ (State(c) = "INSTALLING" \/ kept) /\ Refuse(p, "unload", c, FALSE)
           \/ /\ State(c) \in {"ACTIVE", "DISPOSING", "FAILED"} /\ ~kept
              /\ IF Running(unloader[c])
                 THEN Coalesce(p, "unload", c, unloader[c])
                 ELSE /\ Create(p, "unload", c)
                      /\ unloader' = [unloader EXCEPT ![c] = p]
                      /\ UNCHANGED <<insts, registered, released, installer>>

\* Mutant: who joined the task is not woken.
TaskEndsForOne(p, ok) ==
    /\ pc' = [q \in Caller |->
                IF q = p THEN "done"
                ELSE IF call[q].on = p /\ pc[q] = "waiting"
                     THEN IF ok THEN "next" ELSE "failed"
                ELSE pc[q]]
    /\ call' = [q \in Caller |->
                  IF q = p \/ (call[q].on = p /\ pc[q] = "coalesced")
                  THEN [call[q] EXCEPT !.ok = ok, !.on = None]
                  ELSE IF call[q].on = p THEN [call[q] EXCEPT !.on = None]
                  ELSE call[q]]

\* The task of p ends: whoever awaits it is woken, with its exception if it
\* raised.  The caller that created it removes it from the table afterwards.
TaskEnds(p, ok) ==
    /\ pc' = [q \in Caller |->
                IF q = p THEN "done"
                ELSE IF call[q].on = p /\ pc[q] = "coalesced" THEN "woken"
                ELSE IF call[q].on = p /\ pc[q] = "waiting"
                     THEN IF ok THEN "next" ELSE "failed"
                ELSE pc[q]]
    /\ call' = [q \in Caller |->
                  IF q = p \/ (call[q].on = p /\ pc[q] = "coalesced")
                  THEN [call[q] EXCEPT !.ok = ok, !.on = None]
                  ELSE IF call[q].on = p THEN [call[q] EXCEPT !.on = None]
                  ELSE call[q]]

Returns(p) ==
    /\ pc[p] \in {"done", "woken"}
    /\ Goto(p, "idle")
    /\ IF pc[p] = "woken" THEN UNCHANGED <<installer, unloader>>
       ELSE IF call[p].op = "install"
       THEN installer' = [installer EXCEPT ![call[p].id] = None] /\ UNCHANGED unloader
       ELSE unloader' = [unloader EXCEPT ![call[p].id] = None] /\ UNCHANGED installer
    /\ call' = [call EXCEPT ![p] = [NoCall EXCEPT
                                 !.op = call[p].op, !.id = call[p].id, !.ok = call[p].ok]]
    /\ UNCHANGED <<insts, registered, released>>

-----------------------------------------------------------------------------
(* _do_install.                                                            *)

InstallStart(p) ==
    /\ pc[p] = "start"
    /\ call[p].op = "install"
    /\ Goto(p, "next")
    /\ call' = [call EXCEPT ![p].chain = InstallChain(call[p].id)]
    /\ UNCHANGED <<insts, registered, released, installer, unloader>>

Skip(p) ==
    /\ call' = [call EXCEPT ![p].chain = Tail(@)]
    /\ UNCHANGED <<insts, registered, released, installer, unloader, pc>>

\* The head of the chain is ACTIVE, or INSTALLING in some task: a task of its
\* own is awaited, one that installs it on the way to another id is not.  A
\* task that finds itself there raises.
InstallNext(p) ==
    /\ pc[p] = "next"
    /\ call[p].chain # <<>>
    /\ LET c == Head(call[p].chain) IN
       \/ State(c) = "ACTIVE" /\ Skip(p)
       \/ State(c) = "INSTALLING" /\ ~Running(installer[c]) /\ Skip(p)
       \/ /\ State(c) = "INSTALLING" /\ installer[c] = p
          /\ Goto(p, "failed")
          /\ UNCHANGED <<insts, registered, released, installer, unloader, call>>
       \/ /\ State(c) = "INSTALLING" /\ Running(installer[c]) /\ installer[c] # p
          /\ Goto(p, "waiting")
          /\ call' = [call EXCEPT ![p].on = installer[c], ![p].chain = Tail(@)]
          /\ UNCHANGED <<insts, registered, released, installer, unloader>>

\* Mutant: what is rolled back is the generation before.
InstallOneOld(p) ==
    /\ pc[p] = "next"
    /\ call[p].chain # <<>>
    /\ LET c == Head(call[p].chain)
           me == <<c, Len(insts[c]) + 1>>
           deps == [k \in DOMAIN Deps[c] |-> Current(Deps[c][k])]
           refused == {k \in DOMAIN deps : deps[k][1] \in released}
           joined == {k \in DOMAIN deps : \A r \in refused : k < r}
       IN  /\ State(c) \notin {"ACTIVE", "INSTALLING"}
           /\ insts' = [d \in Cap |->
                 IF d = c THEN Append(insts[c], Fresh(deps))
                 ELSE IF \E k \in joined : deps[k][1] = d
                      THEN [insts[d] EXCEPT ![Len(insts[d])].dependents = @ \cup {c}]
                 ELSE insts[d]]
           /\ registered' = [d \in Cap |->
                 registered[d] \cup {me : k \in {j \in joined : deps[j][1] = d}}]
           /\ call' = [call EXCEPT ![p].created = Append(@, Current(c)), ![p].chain = Tail(@)]
           /\ Goto(p, IF refused = {} THEN "installing" ELSE "failed")
    /\ UNCHANGED <<released, installer, unloader>>

\* A new generation: it registers with its dependencies in their order, up to
\* the first whose id was released before, and then runs its factory.
InstallOne(p) ==
    /\ pc[p] = "next"
    /\ call[p].chain # <<>>
    /\ LET c == Head(call[p].chain)
           me == <<c, Len(insts[c]) + 1>>
           deps == [k \in DOMAIN Deps[c] |-> Current(Deps[c][k])]
           refused == {k \in DOMAIN deps : deps[k][1] \in released}
           joined == {k \in DOMAIN deps : \A r \in refused : k < r}
       IN  /\ State(c) \notin {"ACTIVE", "INSTALLING"}
           /\ insts' = [d \in Cap |->
                 IF d = c THEN Append(insts[c], Fresh(deps))
                 ELSE IF \E k \in joined : deps[k][1] = d
                      THEN [insts[d] EXCEPT ![Len(insts[d])].dependents = @ \cup {c}]
                 ELSE insts[d]]
           /\ registered' = [d \in Cap |->
                 registered[d] \cup {me : k \in {j \in joined : deps[j][1] = d}}]
           /\ call' = [call EXCEPT ![p].created = Append(@, me), ![p].chain = Tail(@)]
           /\ Goto(p, IF refused = {} THEN "installing" ELSE "failed")
    /\ UNCHANGED <<released, installer, unloader>>

Mine(p) == Last(call[p].created)

Set(i, field, value) ==
    insts' = [insts EXCEPT ![i[1]][i[2]] = [Inst(i) EXCEPT ![field] = value]]

\* The factory's install() makes its effects, if its scope still takes them.
Acquire(p) ==
    /\ pc[p] = "installing"
    /\ ~Inst(Mine(p)).live
    /\ Inst(Mine(p)).scope \in {"ACTIVE", "asked"}
    /\ Set(Mine(p), "live", TRUE)
    /\ UNCHANGED <<registered, released, installer, unloader, pc, call>>

\* It returns: the generation is ACTIVE, unless it was disposed meanwhile.
InstallReturns(p) ==
    /\ pc[p] = "installing"
    /\ \/ Inst(Mine(p)).live
       \/ Inst(Mine(p)).scope \in {"DISPOSING", "DISPOSED"}
    /\ IF Inst(Mine(p)).state = "INSTALLING"
       THEN Set(Mine(p), "state", "ACTIVE") /\ Goto(p, "next")
       ELSE UNCHANGED insts /\ Goto(p, "failed")
    /\ UNCHANGED <<registered, released, installer, unloader, call>>

\* It raises, before or after its effects were made: the batch is rolled back.
InstallRaises(p) ==
    /\ pc[p] = "installing"
    /\ insts' = [insts EXCEPT ![Mine(p)[1]][Mine(p)[2]] =
                    [Inst(Mine(p)) EXCEPT !.state = "FAILED", !.live = FALSE]]
    /\ Goto(p, "failed")
    /\ UNCHANGED <<registered, released, installer, unloader, call>>

InstallEnds(p) ==
    /\ pc[p] = "next"
    /\ call[p].chain = <<>>
    /\ TaskEnds(p, TRUE)
    /\ UNCHANGED <<insts, registered, released, installer, unloader>>

\* The except clause: what this task created is unloaded in reverse.
Rollback(p) ==
    /\ pc[p] = "failed"
    /\ Goto(p, "unloading")
    /\ call' = [call EXCEPT ![p].ok = FALSE,
                            ![p].work = [k \in DOMAIN call[p].created |->
                                <<"rollback", Reverse(call[p].created)[k]>>]]
    /\ UNCHANGED <<insts, registered, released, installer, unloader>>

-----------------------------------------------------------------------------
(* _unload_one, for an unload, a rollback, or on the way down a cascade.   *)

UnloadStart(p) ==
    /\ pc[p] = "start"
    /\ call[p].op = "unload"
    /\ Goto(p, "unloading")
    /\ call' = [call EXCEPT ![p].work = <<<<"unload", Current(call[p].id)>>>>]
    /\ UNCHANGED <<insts, registered, released, installer, unloader>>

Applies(kind, i) ==
    /\ Inst(i).state \notin {"DISPOSED", "DISPOSING"}
    /\ kind = "rollback" => Inst(i).dependents = {}
    /\ kind = "cascade" => Inst(i).state = "ACTIVE" /\ Inst(i).dependents = {}

\* _begin_dispose.
Begun(inst) ==
    [inst EXCEPT !.state = IF @ \in {"ACTIVE", "INSTALLING", "FAILED"}
                           THEN "DISPOSING" ELSE @]

\* The head of the work: Capability.dispose begins unless it has begun, and is
\* awaited; what does not apply is passed over.
UnloadNext(p) ==
    /\ pc[p] = "unloading"
    /\ call[p].work # <<>>
    /\ LET i == Head(call[p].work)[2] IN
       IF Applies(Head(call[p].work)[1], i)
       THEN /\ insts' = [insts EXCEPT ![i[1]][i[2]] =
                            IF @.task = "none" THEN [Begun(@) EXCEPT !.task = "created"]
                            ELSE @]
            /\ call' = [call EXCEPT ![p].work = Tail(@), ![p].at = i]
            /\ Goto(p, "disposing")
       ELSE /\ call' = [call EXCEPT ![p].work = Tail(@)]
            /\ UNCHANGED <<insts, pc>>
    /\ UNCHANGED <<registered, released, installer, unloader>>

\* The generation is disposed of: the cascade goes on to its dependencies.
Disposed(p) ==
    /\ pc[p] = "disposing"
    /\ Inst(call[p].at).task = "done"
    /\ Goto(p, "unloading")
    /\ LET deps == Inst(call[p].at).deps
       IN  call' = [call EXCEPT ![p].at = None,
                      ![p].work = [k \in DOMAIN deps |-> <<"cascade", deps[k]>>] \o @]
    /\ UNCHANGED <<insts, registered, released, installer, unloader>>

UnloadEnds(p) ==
    /\ pc[p] = "unloading"
    /\ call[p].work = <<>>
    /\ TaskEnds(p, call[p].ok)
    /\ UNCHANGED <<insts, registered, released, installer, unloader>>

-----------------------------------------------------------------------------
(* Capability._dispose and the scope.                                      *)

\* Mutant: it stays registered with its dependencies.
ReleaseKeepsEdges(i) ==
    /\ Inst(i).task = "created"
    /\ LET asked == IF i[1] \in released THEN {} ELSE registered[i[1]]
           gone == i[1] \in released
       IN  /\ insts' = [d \in Cap |-> [g \in DOMAIN insts[d] |->
                 LET inst == insts[d][g] IN
                 IF <<d, g>> = i
                 THEN [inst EXCEPT !.task = IF gone THEN "done" ELSE "waiting",
                                   !.waits = asked]
                 ELSE [inst EXCEPT
                   !.dependents = IF <<d, g>> \in Range(Inst(i).deps) THEN @ \ {i[1]} ELSE @,
                   !.scope = IF <<d, g>> \in asked /\ @ = "ACTIVE" THEN "asked" ELSE @]]]
           /\ registered' = [d \in Cap |->
                 IF d = i[1] /\ ~gone THEN {} ELSE registered[d]]
    /\ released' = released \cup {i[1]}
    /\ UNCHANGED <<installer, unloader, pc, call>>

\* Its dependencies forget it; then release(): a provider id is released once,
\* and its registered dependents are asked to dispose their scopes.
Release(i) ==
    /\ Inst(i).task = "created"
    /\ LET asked == IF i[1] \in released THEN {} ELSE registered[i[1]]
           gone == i[1] \in released
       IN  /\ insts' = [d \in Cap |-> [g \in DOMAIN insts[d] |->
                 LET inst == insts[d][g] IN
                 IF <<d, g>> = i
                 THEN [inst EXCEPT !.task = IF gone THEN "done" ELSE "waiting",
                                   !.waits = asked]
                 ELSE [inst EXCEPT
                   !.dependents = IF <<d, g>> \in Range(Inst(i).deps) THEN @ \ {i[1]} ELSE @,
                   !.scope = IF <<d, g>> \in asked /\ @ = "ACTIVE" THEN "asked" ELSE @]]]
           /\ registered' = [d \in Cap |->
                 IF d = i[1] /\ ~gone THEN {}
                 ELSE IF \E k \in DOMAIN Inst(i).deps : Inst(i).deps[k][1] = d
                      THEN registered[d] \ {i} ELSE registered[d]]
    /\ released' = released \cup {i[1]}
    /\ UNCHANGED <<installer, unloader, pc, call>>

\* All the dependents' scopes are disposed: the finalizer disposes its own.
Finalize(i) ==
    /\ Inst(i).task = "waiting"
    /\ \A j \in Inst(i).waits : Inst(j).scope = "DISPOSED"
    /\ insts' = [insts EXCEPT ![i[1]][i[2]] =
                    [Inst(i) EXCEPT !.task = "final",
                                    !.scope = IF @ = "ACTIVE" THEN "asked" ELSE @]]
    /\ UNCHANGED <<registered, released, installer, unloader, pc, call>>

\* Mutant: the capability shows DISPOSED as soon as its scope begins.
ScopeBeginsDisposed(i) ==
    /\ Inst(i).scope = "asked"
    /\ insts' = [insts EXCEPT ![i[1]][i[2]] =
                    [Inst(i) EXCEPT !.state = "DISPOSED", !.scope = "DISPOSING"]]
    /\ UNCHANGED <<registered, released, installer, unloader, pc, call>>

\* _OwnedScope.dispose: the capability shows it before the scope begins.
ScopeBegins(i) ==
    /\ Inst(i).scope = "asked"
    /\ insts' = [insts EXCEPT ![i[1]][i[2]] = [Begun(@) EXCEPT !.scope = "DISPOSING"]]
    /\ UNCHANGED <<registered, released, installer, unloader, pc, call>>

\* The effects are cleaned up, the scope is DISPOSED, and so is the capability.
ScopeEnds(i) ==
    /\ Inst(i).scope = "DISPOSING"
    /\ insts' = [insts EXCEPT ![i[1]][i[2]] =
                    [Inst(i) EXCEPT !.live = FALSE, !.scope = "DISPOSED",
                                    !.state = IF @ = "DISPOSING" THEN "DISPOSED" ELSE @]]
    /\ UNCHANGED <<registered, released, installer, unloader, pc, call>>

\* _dispose returns; a scope that was disposed before is no obstacle.
DisposeEnds(i) ==
    /\ Inst(i).task = "final"
    /\ Inst(i).scope = "DISPOSED"
    /\ insts' = [insts EXCEPT ![i[1]][i[2]] =
                    [Inst(i) EXCEPT !.task = "done",
                                    !.state = IF @ = "DISPOSING" THEN "DISPOSED" ELSE @]]
    /\ UNCHANGED <<registered, released, installer, unloader, pc, call>>

-----------------------------------------------------------------------------

\* The steps of a call that was made.
Steps(p) ==
    \/ Returns(p)
    \/ InstallStart(p) \/ InstallNext(p) \/ InstallOne(p) \/ Acquire(p)
    \/ InstallReturns(p) \/ InstallRaises(p) \/ InstallEnds(p) \/ Rollback(p)
    \/ UnloadStart(p) \/ UnloadNext(p) \/ Disposed(p) \/ UnloadEnds(p)

Teardown(i) ==
    \/ Release(i) \/ Finalize(i) \/ ScopeBegins(i) \/ ScopeEnds(i) \/ DisposeEnds(i)

Next ==
    \/ \E p \in Caller, c \in Cap : InstallCall(p, c) \/ UnloadCall(p, c)
    \/ \E p \in Caller : Steps(p)
    \/ \E i \in Installed : Teardown(i)

Spec == Init /\ [][Next]_vars

\* The event loop runs every task that is ready; the generations are finitely
\* many, so one condition is enough for all their disposals.
FairSpec ==
    /\ Spec
    /\ \A p \in Caller : WF_vars(Steps(p))
    /\ WF_vars(\E i \in Installed : Teardown(i))

-----------------------------------------------------------------------------
(* Properties.                                                             *)

Alone == Cardinality(Present) = 1
Idle == \A p \in Present : pc[p] = "idle"

DependsOn(i) == Range(Inst(i).deps)

\* Every generation, task and call has its form.
TypeOK ==
    /\ \A i \in Installed :
          /\ Inst(i).state \in {"INSTALLING", "ACTIVE", "FAILED", "DISPOSING", "DISPOSED"}
          /\ Inst(i).scope \in {"ACTIVE", "asked", "DISPOSING", "DISPOSED"}
          /\ Inst(i).task \in {"none", "created", "waiting", "final", "done"}
          /\ DependsOn(i) \cup Inst(i).waits \subseteq Installed
    /\ \A c \in Cap : registered[c] \subseteq Installed
    /\ \A p \in Caller : Range(call[p].created) \subseteq Installed

\* Whatever calls overlap: a capability that shows DISPOSED owns no live effect
\* and its scope is disposed; one that shows ACTIVE has its effects and a scope
\* nobody has begun to dispose (core.py:119-187, capability.py:37-119).
StateTellsEffects ==
    \A i \in Installed :
        /\ Inst(i).state = "DISPOSED" => ~Inst(i).live /\ Inst(i).scope = "DISPOSED"
        /\ Inst(i).state = "ACTIVE" => Inst(i).live /\ Inst(i).scope \in {"ACTIVE", "asked"}

\* While one caller uses the manager, what is ACTIVE has ACTIVE providers that
\* know of it: no unload, rollback or cascade takes a provider away from under
\* a dependent (manager.py:83-152).
ActiveHasProviders ==
    Alone => \A i \in Installed :
        Inst(i).state = "ACTIVE" =>
            \A d \in DependsOn(i) : Inst(d).state = "ACTIVE" /\ i[1] \in Inst(d).dependents

\* After each call of a single caller, failed ones included, the dependency
\* edges are those of the ACTIVE capabilities (capability.py:72-78, 103-111,
\* core.py:190-205).
NoStaleEdges ==
    Alone /\ Idle =>
        \A c \in Cap : registered[c] =
            {i \in Installed : /\ Inst(i).state = "ACTIVE"
                               /\ \E d \in DependsOn(i) : d[1] = c}

\* Every install and every unload returns or raises, however they overlap: no
\* task waits for itself or in a circle (manager.py:65-170).
CallsReturn ==
    \A p \in Caller : pc[p] \notin {"idle", "absent"} ~> pc[p] = "idle"
=============================================================================
