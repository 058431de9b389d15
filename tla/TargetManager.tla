---------------------------- MODULE TargetManager ---------------------------
(***************************************************************************)
(* The target manager (retrieval/targetmanager.go) with its scrape pools   *)
(* (retrieval/scrape.go), as the main program uses it: ApplyConfig once    *)
(* before anything runs, then Run in a goroutine of its own, ApplyConfig   *)
(* at every SIGHUP, and Stop when main is about to exit (cmd/main.go).     *)
(*                                                                         *)
(* The discovery.TargetSet of a job (vendor, discovery/discovery.go) is    *)
(* the loop that the manager hands providers to and that calls             *)
(* scrapePool.Sync with the target groups it has; a provider delivers its  *)
(* group in time, or after the five seconds that the loop waits for it.  A *)
(* provider that has been replaced is told to stop and not waited for: the *)
(* goroutine that listens to it may have a group in hand, or prefer one    *)
(* more to the end of its context, and enters it among the new ones.       *)
(*                                                                         *)
(* A group is entered under a key made of the provider's name and the      *)
(* group's source, so it takes the place of the group with that key.       *)
(*                                                                         *)
(* A version stands for the contents of one job's scrape configuration.    *)
(* Target sets are numbered in the order in which they are made.           *)
(*                                                                         *)
(* An operator marked as a mutant is a plausible bug in the operator after *)
(* it; Next does not use it.                                               *)
(***************************************************************************)
EXTENDS Integers, FiniteSets

CONSTANTS
  Jobs,        \* job names
  Versions,    \* contents of a scrape configuration
  Groups,      \* target groups
  Targets,     \* targets, by their hash
  None,        \* no scrape configuration, no target set, no job
  Configs,     \* what the configuration file may hold
  GroupsOf,    \* the groups that the providers of a version deliver
  Source,      \* the key of a group among the groups of a target set
  FromGroup,   \* targetsFromGroup, with no targets for an error
  MaxReloads   \* bound: SIGHUPs

\* Each reload makes at most one target set per job.
MaxSets == Cardinality(Jobs) * (MaxReloads + 1)
Sets    == 1 .. MaxSets

ASSUME TargetAssumption ==
  /\ IsFiniteSet(Jobs)
  /\ None \notin Versions \cup Jobs \cup Nat
  /\ Configs \subseteq [Jobs -> Versions \cup {None}]
  /\ GroupsOf \in [Versions -> SUBSET Groups]
  /\ \A v \in Versions : \A g, h \in GroupsOf[v] : Source[g] = Source[h] => g = h
  /\ FromGroup \in [Groups \X Versions -> SUBSET Targets]
  /\ MaxReloads \in Nat

VARIABLES
  scrapeConfigs,  \* tm.scrapeConfigs
  ctx,            \* tm.ctx: "nil", "live" or "cancelled"
  mtx,            \* who holds tm.mtx
  targetSets,     \* tm.targetSets
  todo,           \* reload: the jobs it has still to come to
  handoff,        \* reload: the job whose UpdateProviders it is in
  main,           \* the main goroutine
  run,            \* the goroutine of tm.Run
  hup,            \* the goroutine that waits for SIGHUP
  reloads,        \* SIGHUPs so far
  panic,          \* why the process died, or "none"
  made,           \* the job of each target set made
  cancelled,      \* ts.cancel has been called
  loop,           \* where ts.Run is
  tgroups,        \* its target groups
  late,           \* groups that its providers have still to deliver
  stale,          \* groups that replaced providers may still deliver
  strays,         \* those that they have delivered to the present providers' set
  syncCh,         \* a sync has been signalled
  toSync,         \* Sync: the groups it has still to come to
  all,            \* Sync: the targets found so far
  config,         \* sp.config
  targets         \* sp.targets

callers == <<main, run, hup, reloads>>
manager == <<scrapeConfigs, ctx, targetSets, todo, handoff, mtx>>
syncing == <<toSync, all, targets>>
groups == <<tgroups, late, stale, strays>>
discovery == <<loop, groups, syncCh>>
vars == <<callers, manager, panic, made, cancelled, config, syncing, discovery>>

\* The jobs of configuration c.
JobsOf(c) == {j \in Jobs : c[j] # None}

\* The set's context, a child of tm.ctx, has ended.
Done(i) == cancelled[i] \/ ctx = "cancelled"

\* What tm.wg counts.
Running == {i \in Sets : loop[i] \notin {"off", "returned"}}

\* main has applied the first configuration and starts the goroutines.
Init ==
  /\ scrapeConfigs \in Configs
  /\ ctx = "nil"
  /\ mtx = "free"
  /\ targetSets = [j \in Jobs |-> None]
  /\ todo = {}
  /\ handoff = None
  /\ main = "serving"
  /\ run = "lock"
  /\ hup = "idle"
  /\ reloads = 0
  /\ panic = "none"
  /\ made = [i \in Sets |-> None]
  /\ cancelled = [i \in Sets |-> FALSE]
  /\ loop = [i \in Sets |-> "off"]
  /\ tgroups = [i \in Sets |-> {}]
  /\ late = [i \in Sets |-> {}]
  /\ stale = [i \in Sets |-> {}]
  /\ strays = [i \in Sets |-> {}]
  /\ syncCh = [i \in Sets |-> FALSE]
  /\ toSync = [i \in Sets |-> {}]
  /\ all = [i \in Sets |-> {}]
  /\ config = [i \in Sets |-> None]
  /\ targets = [i \in Sets |-> {}]

-----------------------------------------------------------------------------
(***************************************************************************)
(* Callers.                                                                *)
(***************************************************************************)

\* Mutant: the context is made and not kept.
RunKeepsNoContext ==
  /\ run = "lock"
  /\ mtx = "free"
  /\ mtx' = "run"
  /\ run' = "reload"
  /\ todo' = JobsOf(scrapeConfigs)
  /\ UNCHANGED <<main, hup, reloads, scrapeConfigs, ctx, targetSets, handoff, panic,
                 made, cancelled, config, syncing, discovery>>

\* tm.Run, up to the call of reload
Run ==
  /\ run = "lock"
  /\ mtx = "free"
  /\ mtx' = "run"
  /\ run' = "reload"
  /\ ctx' = "live"
  /\ todo' = JobsOf(scrapeConfigs)
  /\ UNCHANGED <<main, hup, reloads, scrapeConfigs, targetSets, handoff, panic,
                 made, cancelled, config, syncing, discovery>>

\* A SIGHUP, and reloadConfig up to tm.ApplyConfig
Hup ==
  /\ hup = "idle"
  /\ reloads < MaxReloads
  /\ hup' = "lock"
  /\ reloads' = reloads + 1
  /\ UNCHANGED <<main, run, manager, panic, made, cancelled, config, syncing,
                 discovery>>

\* tm.ApplyConfig, up to the call of reload; before Run it is only noted.
ApplyConfig(c) ==
  /\ hup = "lock"
  /\ mtx = "free"
  /\ scrapeConfigs' = c
  /\ IF ctx = "nil"
       THEN hup' = "idle" /\ UNCHANGED <<mtx, todo>>
       ELSE hup' = "reload" /\ mtx' = "hup" /\ todo' = JobsOf(c)
  /\ UNCHANGED <<main, run, reloads, ctx, targetSets, handoff, panic, made,
                 cancelled, config, syncing, discovery>>

\* main leaves its select, for a signal, a request or a web server that did
\* not start, and calls tm.Stop.
Stop ==
  /\ main = "serving"
  /\ main' = "lock"
  /\ UNCHANGED <<run, hup, reloads, manager, panic, made, cancelled, config,
                 syncing, discovery>>

\* Mutant: tm.cancel is not called.
CancelNothing ==
  /\ main = "lock"
  /\ mtx = "free"
  /\ ctx # "nil"
  /\ main' = IF Running = {} THEN "exited" ELSE "wait"
  /\ UNCHANGED <<run, hup, reloads, manager, panic, made, cancelled, config,
                 syncing, discovery>>

\* tm.cancel(), under the mutex, and then tm.wg.Wait()
Cancel ==
  /\ main = "lock"
  /\ mtx = "free"
  /\ ctx # "nil"
  /\ ctx' = "cancelled"
  /\ main' = IF Running = {} THEN "exited" ELSE "wait"
  /\ UNCHANGED <<run, hup, reloads, scrapeConfigs, mtx, targetSets, todo,
                 handoff, panic, made, cancelled, config, syncing, discovery>>

\* tm.cancel is nil: Stop has overtaken Run.
CancelPanics ==
  /\ main = "lock"
  /\ mtx = "free"
  /\ ctx = "nil"
  /\ panic' = "nil cancel"
  /\ UNCHANGED <<callers, manager, made, cancelled, config, syncing, discovery>>

-----------------------------------------------------------------------------
(***************************************************************************)
(* reload, by the holder of tm.mtx.                                        *)
(***************************************************************************)

\* Mutant: the new target set is not entered into the map.
NewSetUnregistered(j, i) ==
  /\ handoff = None /\ j \in todo /\ targetSets[j] = None
  /\ made[i] = None /\ \A k \in 1 .. i - 1 : made[k] # None
  /\ made' = [made EXCEPT ![i] = j]
  /\ config' = [config EXCEPT ![i] = scrapeConfigs[j]]
  /\ loop' = [loop EXCEPT ![i] = "first"]
  /\ todo' = todo \ {j}
  /\ handoff' = j
  /\ UNCHANGED <<callers, scrapeConfigs, ctx, mtx, targetSets, panic, cancelled,
                 groups, syncCh, syncing>>

\* A job without a target set: one is made and started, with a new pool.
NewSet(j, i) ==
  /\ handoff = None /\ j \in todo /\ targetSets[j] = None
  /\ made[i] = None /\ \A k \in 1 .. i - 1 : made[k] # None
  /\ made' = [made EXCEPT ![i] = j]
  /\ config' = [config EXCEPT ![i] = scrapeConfigs[j]]
  /\ loop' = [loop EXCEPT ![i] = "first"]
  /\ targetSets' = [targetSets EXCEPT ![j] = i]
  /\ todo' = todo \ {j}
  /\ handoff' = j
  /\ UNCHANGED <<callers, scrapeConfigs, ctx, mtx, panic, cancelled, groups,
                 syncCh, syncing>>

\* A job with a target set: ts.sp.reload(scfg)
ReloadPool(j) ==
  /\ handoff = None /\ j \in todo /\ targetSets[j] # None
  /\ config' = [config EXCEPT ![targetSets[j]] = scrapeConfigs[j]]
  /\ todo' = todo \ {j}
  /\ handoff' = j
  /\ UNCHANGED <<callers, scrapeConfigs, ctx, mtx, targetSets, panic, made,
                 cancelled, discovery, syncing>>

\* ts.ts.UpdateProviders(...): the loop of the set takes the providers, cancels
\* the previous ones without waiting for them, and forgets their groups.
UpdateProviders(i) ==
  /\ handoff # None /\ targetSets[handoff] = i
  /\ loop[i] \in {"first", "second"}
  /\ loop' = [loop EXCEPT ![i] = IF @ = "first" THEN "collect1" ELSE "collect2"]
  /\ stale' = [stale EXCEPT ![i] = @ \cup tgroups[i] \cup late[i]]
  /\ tgroups' = [tgroups EXCEPT ![i] = {}]
  /\ strays' = [strays EXCEPT ![i] = {}]
  /\ late' = [late EXCEPT ![i] = GroupsOf[scrapeConfigs[handoff]]]
  /\ handoff' = None
  /\ UNCHANGED <<callers, scrapeConfigs, ctx, mtx, targetSets, todo, panic, made,
                 cancelled, config, syncCh, syncing>>

\* The target sets of jobs that are gone.
OldSets == {i \in Sets : \E j \in Jobs : targetSets[j] = i /\ scrapeConfigs[j] = None}

\* The holder of the mutex goes on when reload has returned.
Unlock ==
  /\ mtx' = "free"
  /\ IF mtx = "run"
       THEN /\ run' = IF Running = {} THEN "returned" ELSE "wait"
            /\ UNCHANGED hup
       ELSE hup' = "idle" /\ UNCHANGED run

\* Mutant: an old target set is cancelled and stays in the map.
RemoveOldKeeps ==
  /\ mtx # "free" /\ todo = {} /\ handoff = None
  /\ cancelled' = [i \in Sets |-> cancelled[i] \/ i \in OldSets]
  /\ Unlock
  /\ UNCHANGED <<main, reloads, scrapeConfigs, ctx, targetSets, todo, handoff,
                 panic, made, config, discovery, syncing>>

\* Mutant: an old target set is deleted and not cancelled.
RemoveOldLeaks ==
  /\ mtx # "free" /\ todo = {} /\ handoff = None
  /\ targetSets' = [j \in Jobs |-> IF scrapeConfigs[j] = None THEN None ELSE targetSets[j]]
  /\ Unlock
  /\ UNCHANGED <<main, reloads, scrapeConfigs, ctx, todo, handoff, panic, made,
                 cancelled, config, discovery, syncing>>

\* The end of reload: old target sets are cancelled and deleted.
RemoveOld ==
  /\ mtx # "free" /\ todo = {} /\ handoff = None
  /\ cancelled' = [i \in Sets |-> cancelled[i] \/ i \in OldSets]
  /\ targetSets' = [j \in Jobs |-> IF scrapeConfigs[j] = None THEN None ELSE targetSets[j]]
  /\ Unlock
  /\ UNCHANGED <<main, reloads, scrapeConfigs, ctx, todo, handoff, panic, made,
                 config, discovery, syncing>>

-----------------------------------------------------------------------------
(***************************************************************************)
(* The loop of target set i: discovery.TargetSet.Run.                      *)
(***************************************************************************)

\* setTargetGroup for each group of S: it takes the place of one with its key.
SetGroups(T, S) == {h \in T : \A g \in S : Source[h] # Source[g]} \cup S

\* The providers of S deliver their groups in time; the loop gives up on the
\* others for now, and signals a sync.
Collect(i, S) ==
  /\ loop[i] \in {"collect1", "collect2"}
  /\ S \subseteq late[i]
  /\ tgroups' = [tgroups EXCEPT ![i] = SetGroups(@, S)]
  /\ late' = [late EXCEPT ![i] = @ \ S]
  /\ syncCh' = [syncCh EXCEPT ![i] = TRUE]
  /\ loop' = [loop EXCEPT ![i] = IF @ = "collect1" THEN "second" ELSE "first"]
  /\ UNCHANGED <<callers, manager, panic, made, cancelled, config, stale, strays,
                 syncing>>

\* A provider delivers its group later, before its context ends or although it
\* has ended.
LateGroup(i, g) ==
  /\ loop[i] \notin {"collect1", "collect2"}
  /\ g \in late[i]
  /\ tgroups' = [tgroups EXCEPT ![i] = SetGroups(@, {g})]
  /\ late' = [late EXCEPT ![i] = @ \ {g}]
  /\ syncCh' = [syncCh EXCEPT ![i] = TRUE]
  /\ UNCHANGED <<callers, manager, panic, made, cancelled, config, stale, strays,
                 loop, syncing>>

\* The goroutine of a replaced provider enters the group it has in hand among
\* those of the present providers.
StaleGroup(i, g) ==
  /\ g \in stale[i]
  /\ tgroups' = [tgroups EXCEPT ![i] = SetGroups(@, {g})]
  /\ stale' = [stale EXCEPT ![i] = @ \ {g}]
  /\ strays' = [strays EXCEPT ![i] = @ \cup {g}]
  /\ syncCh' = [syncCh EXCEPT ![i] = TRUE]
  /\ UNCHANGED <<callers, manager, panic, made, cancelled, config, late, loop,
                 syncing>>

\* The five seconds between two syncs are over.
Throttle(i) ==
  /\ loop[i] = "first"
  /\ loop' = [loop EXCEPT ![i] = "second"]
  /\ UNCHANGED <<callers, manager, panic, made, cancelled, config, groups, syncCh,
                 syncing>>

\* case <-ts.syncCh: the groups are handed to scrapePool.Sync.
SyncBegins(i) ==
  /\ loop[i] = "second"
  /\ syncCh[i]
  /\ syncCh' = [syncCh EXCEPT ![i] = FALSE]
  /\ loop' = [loop EXCEPT ![i] = "sync"]
  /\ toSync' = [toSync EXCEPT ![i] = tgroups[i]]
  /\ all' = [all EXCEPT ![i] = {}]
  /\ UNCHANGED <<callers, manager, panic, made, cancelled, config, groups, targets>>

\* targetsFromGroup(tg, sp.config); the configuration is read without a lock.
SyncGroup(i, g) ==
  /\ loop[i] = "sync"
  /\ g \in toSync[i]
  /\ toSync' = [toSync EXCEPT ![i] = @ \ {g}]
  /\ all' = [all EXCEPT ![i] = @ \cup FromGroup[<<g, config[i]>>]]
  /\ UNCHANGED <<callers, manager, panic, made, cancelled, config, targets,
                 discovery>>

\* Mutant: targets that have gone are not deleted.
SyncedKeeps(i) ==
  /\ loop[i] = "sync"
  /\ toSync[i] = {}
  /\ targets' = [targets EXCEPT ![i] = @ \cup all[i]]
  /\ loop' = [loop EXCEPT ![i] = "first"]
  /\ UNCHANGED <<callers, manager, panic, made, cancelled, config, toSync, all,
                 groups, syncCh>>

\* sp.sync(all): new targets are entered, and those not in all are deleted.
Synced(i) ==
  /\ loop[i] = "sync"
  /\ toSync[i] = {}
  /\ targets' = [targets EXCEPT ![i] = all[i]]
  /\ loop' = [loop EXCEPT ![i] = "first"]
  /\ UNCHANGED <<callers, manager, panic, made, cancelled, config, toSync, all,
                 groups, syncCh>>

\* case <-ctx.Done(): the loop returns, and tm.wg.Done() wakes who waits if it
\* is the last.
SetReturns(i) ==
  /\ loop[i] \in {"first", "second"}
  /\ Done(i)
  /\ loop' = [loop EXCEPT ![i] = "returned"]
  /\ run' = IF run = "wait" /\ Running = {i} THEN "woken" ELSE run
  /\ main' = IF main = "wait" /\ Running = {i} THEN "woken" ELSE main
  /\ UNCHANGED <<hup, reloads, manager, panic, made, cancelled, config, groups,
                 syncCh, syncing>>

\* tm.wg.Wait() returns.
WaitReturns ==
  /\ Running = {}
  /\ \/ run = "woken" /\ run' = "returned" /\ UNCHANGED main
     \/ main = "woken" /\ main' = "exited" /\ UNCHANGED run
  /\ UNCHANGED <<hup, reloads, manager, panic, made, cancelled, config, syncing,
                 discovery>>

\* A reload has called tm.wg.Add before tm.wg.Wait() could return.
WaitPanics ==
  /\ Running # {}
  /\ run = "woken" \/ main = "woken"
  /\ panic' = "WaitGroup is reused"
  /\ UNCHANGED <<callers, manager, made, cancelled, config, syncing, discovery>>

-----------------------------------------------------------------------------
\* The process runs.
Alive == panic = "none" /\ main # "exited"

ReloadStep ==
  \/ \E j \in Jobs : ReloadPool(j) \/ \E i \in Sets : NewSet(j, i)
  \/ \E i \in Sets : UpdateProviders(i)
  \/ RemoveOld

MainStep == Cancel \/ CancelPanics

HupStep == \E c \in Configs : ApplyConfig(c)

LoopStep(i) ==
  \/ \E S \in SUBSET Groups : Collect(i, S)
  \/ Throttle(i)
  \/ SyncBegins(i)
  \/ \E g \in Groups : SyncGroup(i, g)
  \/ Synced(i)
  \/ SetReturns(i)

Next ==
  \/ /\ Alive
     /\ \/ Run
        \/ Hup
        \/ HupStep
        \/ Stop
        \/ MainStep
        \/ ReloadStep
        \/ \E i \in Sets : LoopStep(i)
        \/ \E i \in Sets, g \in Groups : LateGroup(i, g) \/ StaleGroup(i, g)
        \/ WaitReturns
        \/ WaitPanics
  \/ ~Alive /\ UNCHANGED vars

Spec == Init /\ [][Next]_vars

\* Goroutines are scheduled, timers fire, providers that nobody has cancelled
\* deliver in the end, and a goroutine that waits for the mutex gets it; signals
\* and what a replaced provider has in hand need not come.
Fairness ==
  /\ WF_vars(Alive /\ Run)
  /\ WF_vars(Alive /\ HupStep)
  /\ WF_vars(Alive /\ MainStep)
  /\ WF_vars(Alive /\ ReloadStep)
  /\ WF_vars(Alive /\ (WaitReturns \/ WaitPanics))
  /\ \A i \in Sets :
       /\ WF_vars(Alive /\ LoopStep(i))
       /\ WF_vars(Alive /\ ~Done(i) /\ \E g \in Groups : LateGroup(i, g))

FairSpec == Spec /\ Fairness

-----------------------------------------------------------------------------
(***************************************************************************)
(* Properties.                                                             *)
(***************************************************************************)

ManagerTypes ==
  /\ scrapeConfigs \in Configs
  /\ ctx \in {"nil", "live", "cancelled"}
  /\ mtx \in {"free", "run", "hup"}
  /\ targetSets \in [Jobs -> Sets \cup {None}]
  /\ todo \subseteq Jobs
  /\ handoff \in Jobs \cup {None}
  /\ main \in {"serving", "lock", "wait", "woken", "exited"}
  /\ run \in {"lock", "reload", "wait", "woken", "returned"}
  /\ hup \in {"idle", "lock", "reload"}
  /\ reloads \in 0 .. MaxReloads
  /\ panic \in {"none", "nil cancel", "WaitGroup is reused"}
  /\ made \in [Sets -> Jobs \cup {None}]
  /\ cancelled \in [Sets -> BOOLEAN]
  /\ config \in [Sets -> Versions \cup {None}]

LoopTypes ==
  /\ loop \in [Sets -> {"off", "first", "second", "collect1", "collect2", "sync",
                        "returned"}]
  /\ tgroups \in [Sets -> SUBSET Groups]
  /\ late \in [Sets -> SUBSET Groups]
  /\ stale \in [Sets -> SUBSET Groups]
  /\ strays \in [Sets -> SUBSET Groups]
  /\ syncCh \in [Sets -> BOOLEAN]
  /\ toSync \in [Sets -> SUBSET Groups]
  /\ all \in [Sets -> SUBSET Targets]
  /\ targets \in [Sets -> SUBSET Targets]

\* Types of the variables; reload hands providers only to a set in the map.
TypeOK == ManagerTypes /\ LoopTypes /\ (handoff # None => targetSets[handoff] # None)

\* Whenever the mutex is free and Run has begun, each configured job has a
\* target set whose pool has that job's configuration, and no other job has
\* one.
SetsMatchConfig ==
  mtx = "free" /\ ctx # "nil" =>
    \A j \in Jobs :
      IF scrapeConfigs[j] = None
        THEN targetSets[j] = None
        ELSE targetSets[j] # None /\ config[targetSets[j]] = scrapeConfigs[j]

\* A target set that nobody has cancelled is in the map: it can still be
\* updated, shown and cancelled, and no job has two.
NoSetLeaks ==
  \A i \in Sets : made[i] # None /\ ~cancelled[i] => targetSets[made[i]] = i

\* What Targets() reports of job j.
Reported(j) == IF targetSets[j] = None THEN {} ELSE targets[targetSets[j]]

\* The targets of the groups of S under version v.
TargetsOf(S, v) == UNION {FromGroup[<<g, v>>] : g \in S}

\* The groups of target set i are those that version v asks for, but for the
\* ones that replaced providers have entered, beside them or in their place.
GroupsAsked(i, v) ==
  /\ tgroups[i] \ strays[i] \subseteq GroupsOf[v]
  /\ \A g \in GroupsOf[v] : \E h \in tgroups[i] : Source[h] = Source[g]

\* Although groups, configuration and syncs reach a pool in any order and a
\* sync may mix two configurations, once no reload comes any more Targets()
\* reports the targets of the groups that the configuration asks for, each
\* under the present configuration.  Nothing but a group that a replaced
\* provider entered after the map was cleared "to not keep stale targets
\* around" (discovery.go:238) can stand in the way, and that one for good.
Converges ==
  <>[](\/ ~Alive
       \/ main # "serving"
       \/ \A j \in Jobs :
            LET v == scrapeConfigs[j]
                i == targetSets[j]
            IN  IF v = None
                  THEN Reported(j) = {}
                  ELSE /\ i # None
                       /\ Reported(j) = TargetsOf(tgroups[i], v)
                       /\ GroupsAsked(i, v))

\* Two panics may take the place of Stop's return, and each needs an overlap
\* that main.go does not exclude: tm.cancel is nil only while the goroutine of
\* Run has not had the mutex, and tm.wg is reused only if a SIGHUP has come.
PanicsNeedOverlap ==
  /\ panic = "nil cancel" => run = "lock"
  /\ panic = "WaitGroup is reused" => reloads > 0

\* Stop returns and main exits, whatever reload or sync it meets; so no reload
\* keeps the mutex for ever before Stop has had it.  The process dies instead
\* of "exiting gracefully" (main.go:157) only if Stop overtakes Run, or if a
\* reload makes a target set while tm.wg.Wait() is waking up.
StopReturns ==
  (main = "lock") ~> \/ main = "exited"
                     \/ panic = "nil cancel" /\ run = "lock"
                     \/ panic = "WaitGroup is reused" /\ reloads > 0

-----------------------------------------------------------------------------
(***************************************************************************)
(* The inductive invariant behind TypeOK, SetsMatchConfig, NoSetLeaks and  *)
(* PanicsNeedOverlap.                                                      *)
(***************************************************************************)

\* A reload, which has the mutex, is through with a job when the job is not in
\* todo.
ReloadInOrder ==
  /\ mtx = "free" => todo = {} /\ handoff = None
  /\ todo \subseteq JobsOf(scrapeConfigs)
  /\ handoff # None => scrapeConfigs[handoff] # None
  /\ mtx # "free" =>
       \A j \in JobsOf(scrapeConfigs) \ todo :
          targetSets[j] # None /\ config[targetSets[j]] = scrapeConfigs[j]

\* The set of a job in the map was made for that job, so no two jobs share one;
\* a loop runs only for a set that was made, and a pool has a configuration.
Registered ==
  /\ \A j \in Jobs : targetSets[j] # None => made[targetSets[j]] = j
  /\ \A i \in Sets : loop[i] # "off" => made[i] # None
  /\ \A i \in Sets : made[i] # None => config[i] # None

\* The context is there from the moment Run has the mutex, main waits only after
\* Run's reload, and until a SIGHUP comes no set starts after the last returned.
StopInOrder ==
  /\ ctx = "nil" <=> run = "lock"
  /\ mtx = "run" <=> run = "reload"
  /\ mtx = "hup" \/ hup # "idle" => reloads > 0
  /\ main \in {"wait", "woken", "exited"} => run \notin {"lock", "reload"}
  /\ reloads = 0 /\ (run = "woken" \/ main = "woken") => Running = {}

IInv ==
  /\ TypeOK
  /\ ReloadInOrder
  /\ Registered
  /\ SetsMatchConfig
  /\ NoSetLeaks
  /\ StopInOrder
  /\ PanicsNeedOverlap
=============================================================================
