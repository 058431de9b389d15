------------------------- MODULE TargetManagerProofs ------------------------
(***************************************************************************)
(* Proofs about TargetManager, for any number of jobs, target groups and   *)
(* reloads: the map of target sets follows the configuration, no target    *)
(* set is forgotten, and Stop panics only in the two overlaps that main.go *)
(* allows.                                                                 *)
(***************************************************************************)
EXTENDS TargetManager, TLAPS

\* What the constants' assumption says of the values used below.
LEMMA Constants ==
  /\ None \notin Versions /\ None \notin Jobs /\ None \notin Sets
  /\ Configs \subseteq [Jobs -> Versions \cup {None}]
  /\ GroupsOf \in [Versions -> SUBSET Groups]
  /\ FromGroup \in [Groups \X Versions -> SUBSET Targets]
<1>1. \A i \in Sets : i \in Nat
  BY DEF Sets
<1> QED
  BY <1>1, TargetAssumption

\* Configurations give each job a version or none.
LEMMA ConfigType ==
  ASSUME ManagerTypes
  PROVE  \A j \in Jobs : scrapeConfigs[j] \in Versions \cup {None}
<1>1. scrapeConfigs \in [Jobs -> Versions \cup {None}]
  BY Constants DEF ManagerTypes
<1> QED
  BY <1>1

LEMMA ReloadsType == ManagerTypes => reloads \in Nat
<1> SUFFICES ASSUME reloads \in 0 .. MaxReloads PROVE reloads \in Nat
  BY DEF ManagerTypes
<1>1. MaxReloads \in Nat
  BY TargetAssumption
<1> QED
  BY <1>1

LEMMA JobsOfType == \A c : JobsOf(c) \subseteq Jobs
  BY DEF JobsOf

\* Every step keeps the types of the manager and its callers.
LEMMA ManagerTypesStep == ManagerTypes /\ [Next]_vars => ManagerTypes'
<1> SUFFICES ASSUME ManagerTypes, [Next]_vars PROVE ManagerTypes'
  OBVIOUS
<1>1. CASE UNCHANGED <<callers, manager, panic, made, cancelled, config>>
  <2>1. /\ main' \in {"serving", "lock", "wait", "woken", "exited"}
        /\ run' \in {"lock", "reload", "wait", "woken", "returned"}
        /\ hup' \in {"idle", "lock", "reload"}
        /\ reloads' \in 0 .. MaxReloads
    BY <1>1 DEF callers, ManagerTypes
  <2>2. /\ scrapeConfigs' \in Configs /\ targetSets' \in [Jobs -> Sets \cup {None}]
        /\ todo' \subseteq Jobs /\ handoff' \in Jobs \cup {None}
    BY <1>1 DEF manager, ManagerTypes
  <2>3. /\ ctx' \in {"nil", "live", "cancelled"} /\ mtx' \in {"free", "run", "hup"}
        /\ panic' \in {"none", "nil cancel", "WaitGroup is reused"}
    BY <1>1 DEF manager, ManagerTypes
  <2>4. /\ made' \in [Sets -> Jobs \cup {None}] /\ config' \in [Sets -> Versions \cup {None}]
        /\ cancelled' \in [Sets -> BOOLEAN]
    BY <1>1 DEF ManagerTypes
  <2> QED
    BY <2>1, <2>2, <2>3, <2>4 DEF ManagerTypes
<1>2. CASE Run
  BY <1>2, JobsOfType DEF Run, ManagerTypes
<1>3. CASE Hup
  <2>1. reloads' \in 0 .. MaxReloads
    <3>1. reloads \in 0 .. MaxReloads /\ reloads < MaxReloads /\ reloads' = reloads + 1
      BY <1>3 DEF Hup, ManagerTypes
    <3> QED
      BY <3>1, TargetAssumption
  <2> QED
    BY <1>3, <2>1 DEF Hup, manager, ManagerTypes
<1>4. ASSUME NEW c \in Configs, ApplyConfig(c) PROVE ManagerTypes'
  BY <1>4, JobsOfType DEF ApplyConfig, ManagerTypes
<1>5. CASE Stop
  BY <1>5 DEF Stop, manager, ManagerTypes
<1>6. CASE Cancel
  BY <1>6 DEF Cancel, ManagerTypes
<1>7. CASE CancelPanics
  BY <1>7 DEF CancelPanics, callers, manager, ManagerTypes
<1>8. ASSUME NEW j \in Jobs, ReloadPool(j) PROVE ManagerTypes'
  <2>1. config' \in [Sets -> Versions \cup {None}]
    BY <1>8, ConfigType DEF ReloadPool, ManagerTypes
  <2> QED
    BY <1>8, <2>1 DEF ReloadPool, callers, ManagerTypes
<1>9. ASSUME NEW j \in Jobs, NEW i \in Sets, NewSet(j, i) PROVE ManagerTypes'
  <2>1. config' \in [Sets -> Versions \cup {None}]
    BY <1>9, ConfigType DEF NewSet, ManagerTypes
  <2>2. made' \in [Sets -> Jobs \cup {None}] /\ targetSets' \in [Jobs -> Sets \cup {None}]
    BY <1>9 DEF NewSet, ManagerTypes
  <2> QED
    BY <1>9, <2>1, <2>2 DEF NewSet, callers, ManagerTypes
<1>10. ASSUME NEW i \in Sets, UpdateProviders(i) PROVE ManagerTypes'
  BY <1>10 DEF UpdateProviders, callers, ManagerTypes
<1>11. CASE RemoveOld
  <2>1. cancelled' \in [Sets -> BOOLEAN]
    BY <1>11 DEF RemoveOld, ManagerTypes
  <2>2. targetSets' \in [Jobs -> Sets \cup {None}]
    BY <1>11 DEF RemoveOld, ManagerTypes
  <2>3. /\ mtx' \in {"free", "run", "hup"} /\ hup' \in {"idle", "lock", "reload"}
        /\ run' \in {"lock", "reload", "wait", "woken", "returned"}
    BY <1>11 DEF RemoveOld, Unlock, ManagerTypes
  <2> QED
    BY <1>11, <2>1, <2>2, <2>3 DEF RemoveOld, ManagerTypes
<1>12. ASSUME NEW i \in Sets, SetReturns(i) PROVE ManagerTypes'
  <2>1. /\ run' \in {"lock", "reload", "wait", "woken", "returned"}
        /\ main' \in {"serving", "lock", "wait", "woken", "exited"}
    BY <1>12 DEF SetReturns, ManagerTypes
  <2> QED
    BY <1>12, <2>1 DEF SetReturns, manager, ManagerTypes
<1>13. CASE WaitReturns
  <2>1. run' \in {run, "returned"} /\ main' \in {main, "exited"}
    BY <1>13 DEF WaitReturns
  <2> QED
    BY <1>13, <2>1 DEF WaitReturns, manager, ManagerTypes
<1>14. CASE WaitPanics
  BY <1>14 DEF WaitPanics, callers, manager, ManagerTypes
<1> QED
  BY <1>1, <1>2, <1>3, <1>4, <1>5, <1>6, <1>7, <1>8, <1>9, <1>10, <1>11, <1>12,
     <1>13, <1>14
     DEF Next, HupStep, MainStep, ReloadStep, LoopStep, vars, Collect, LateGroup, StaleGroup,
         Throttle, SyncBegins, SyncGroup, Synced

\* Every step keeps the types of the loops and pools: reload hands providers
\* over only for a job that is configured, and a pool that is synced has a
\* configuration.
LEMMA LoopTypesStep ==
  TypeOK /\ ReloadInOrder /\ Registered /\ [Next]_vars => LoopTypes'
<1> SUFFICES ASSUME ManagerTypes, LoopTypes, ReloadInOrder, Registered, [Next]_vars
             PROVE  LoopTypes'
  BY DEF TypeOK
<1>1. CASE UNCHANGED <<discovery, syncing>>
  BY <1>1 DEF discovery, syncing, groups, LoopTypes
<1>2. ASSUME NEW j \in Jobs, NEW i \in Sets, NewSet(j, i) PROVE LoopTypes'
  BY <1>2 DEF NewSet, syncing, groups, LoopTypes
<1>3. ASSUME NEW i \in Sets, UpdateProviders(i) PROVE LoopTypes'
  <2>1. handoff \in Jobs /\ scrapeConfigs[handoff] # None
    BY <1>3 DEF UpdateProviders, ReloadInOrder, ManagerTypes
  <2>2. GroupsOf[scrapeConfigs[handoff]] \in SUBSET Groups
    BY <2>1, ConfigType, Constants
  <2>3. /\ late' \in [Sets -> SUBSET Groups] /\ tgroups' \in [Sets -> SUBSET Groups]
        /\ stale' \in [Sets -> SUBSET Groups] /\ strays' \in [Sets -> SUBSET Groups]
    BY <1>3, <2>2 DEF UpdateProviders, groups, LoopTypes
  <2>4. loop' = [loop EXCEPT ![i] = IF @ = "first" THEN "collect1" ELSE "collect2"]
    BY <1>3 DEF UpdateProviders
  <2> QED
    BY <1>3, <2>3, <2>4 DEF UpdateProviders, syncing, groups, LoopTypes
<1>4. ASSUME NEW i \in Sets, NEW S \in SUBSET Groups, Collect(i, S) PROVE LoopTypes'
  <2>1. late' \in [Sets -> SUBSET Groups] /\ tgroups' \in [Sets -> SUBSET Groups]
    BY <1>4 DEF Collect, SetGroups, groups, LoopTypes
  <2> QED
    BY <1>4, <2>1 DEF Collect, syncing, groups, LoopTypes
<1>5. ASSUME NEW i \in Sets, NEW g \in Groups, LateGroup(i, g) PROVE LoopTypes'
  <2>1. late' \in [Sets -> SUBSET Groups] /\ tgroups' \in [Sets -> SUBSET Groups]
    BY <1>5 DEF LateGroup, SetGroups, groups, LoopTypes
  <2> QED
    BY <1>5, <2>1 DEF LateGroup, syncing, groups, LoopTypes
<1>6. ASSUME NEW i \in Sets, Throttle(i) PROVE LoopTypes'
  BY <1>6 DEF Throttle, syncing, groups, LoopTypes
<1>7. ASSUME NEW i \in Sets, SyncBegins(i) PROVE LoopTypes'
  <2>1. toSync' \in [Sets -> SUBSET Groups] /\ all' \in [Sets -> SUBSET Targets]
    BY <1>7 DEF SyncBegins, groups, LoopTypes
  <2> QED
    BY <1>7, <2>1 DEF SyncBegins, groups, LoopTypes
<1>8. ASSUME NEW i \in Sets, NEW g \in Groups, SyncGroup(i, g) PROVE LoopTypes'
  <2>1. config[i] \in Versions
    BY <1>8 DEF SyncGroup, Registered, ManagerTypes
  <2>2. FromGroup[<<g, config[i]>>] \in SUBSET Targets
    BY <2>1, Constants
  <2>3. toSync' \in [Sets -> SUBSET Groups]
    BY <1>8 DEF SyncGroup, groups, LoopTypes
  <2>4. all' \in [Sets -> SUBSET Targets]
    BY <1>8, <2>2 DEF SyncGroup, groups, LoopTypes
  <2> QED
    BY <1>8, <2>3, <2>4 DEF SyncGroup, discovery, groups, LoopTypes
<1>9. ASSUME NEW i \in Sets, Synced(i) PROVE LoopTypes'
  BY <1>9 DEF Synced, groups, LoopTypes
<1>10. ASSUME NEW i \in Sets, SetReturns(i) PROVE LoopTypes'
  BY <1>10 DEF SetReturns, syncing, groups, LoopTypes
<1>11. ASSUME NEW i \in Sets, NEW g \in Groups, StaleGroup(i, g) PROVE LoopTypes'
  <2>1. stale' \in [Sets -> SUBSET Groups] /\ strays' \in [Sets -> SUBSET Groups]
    BY <1>11 DEF StaleGroup, groups, LoopTypes
  <2>2. tgroups' \in [Sets -> SUBSET Groups]
    BY <1>11 DEF StaleGroup, SetGroups, groups, LoopTypes
  <2> QED
    BY <1>11, <2>1, <2>2 DEF StaleGroup, syncing, groups, LoopTypes
<1> QED
  BY <1>1, <1>2, <1>3, <1>4, <1>5, <1>6, <1>7, <1>8, <1>9, <1>10, <1>11
     DEF Next, HupStep, MainStep, ReloadStep, LoopStep, vars, Run, Hup,
         ApplyConfig, Stop, Cancel, CancelPanics, ReloadPool, RemoveOld,
         WaitReturns, WaitPanics

\* Every step leaves a set that is handed providers in the map.
LEMMA HandoffStep ==
  TypeOK /\ [Next]_vars => (handoff # None => targetSets[handoff] # None)'
<1> SUFFICES ASSUME ManagerTypes, handoff # None => targetSets[handoff] # None,
                    [Next]_vars
             PROVE  (handoff # None => targetSets[handoff] # None)'
  BY DEF TypeOK
<1>1. CASE UNCHANGED <<handoff, targetSets>>
  BY <1>1
<1>2. ASSUME NEW j \in Jobs, ReloadPool(j) PROVE (targetSets[handoff] # None)'
  BY <1>2 DEF ReloadPool
<1>3. ASSUME NEW j \in Jobs, NEW i \in Sets, NewSet(j, i)
      PROVE  (targetSets[handoff] # None)'
  BY <1>3, Constants DEF NewSet, ManagerTypes
<1>4. ASSUME NEW i \in Sets, UpdateProviders(i) PROVE (handoff = None)'
  BY <1>4 DEF UpdateProviders
<1>5. CASE RemoveOld
  BY <1>5 DEF RemoveOld
<1> QED
  BY <1>1, <1>2, <1>3, <1>4, <1>5
     DEF Next, HupStep, MainStep, ReloadStep, LoopStep, vars, manager, Run, Hup,
         ApplyConfig, Stop, Cancel, CancelPanics, Collect, LateGroup, StaleGroup, Throttle,
         SyncBegins, SyncGroup, Synced, SetReturns, WaitReturns, WaitPanics

\* Giving the pool of job j its configuration disturbs no other job's pool.
LEMMA OtherPools ==
  ASSUME Registered, NEW j \in Jobs, NEW k \in Jobs, j # k,
         targetSets[j] # None, targetSets[k] # None
  PROVE  targetSets[j] # targetSets[k]
  BY DEF Registered

\* A set that has not been made is nobody's.
LEMMA NobodysSet ==
  ASSUME Registered, NEW i \in Sets, made[i] = None, NEW k \in Jobs,
         targetSets[k] # None
  PROVE  targetSets[k] # i
  BY Constants DEF Registered

\* Every step keeps ReloadInOrder.
LEMMA ReloadInOrderStep ==
  TypeOK /\ ReloadInOrder /\ Registered /\ [Next]_vars => ReloadInOrder'
<1> SUFFICES ASSUME ManagerTypes, ReloadInOrder, Registered, [Next]_vars
             PROVE  ReloadInOrder'
  BY DEF TypeOK
<1>1. CASE UNCHANGED <<mtx, todo, handoff, scrapeConfigs, targetSets, config>>
  BY <1>1 DEF ReloadInOrder, JobsOf
<1>2. CASE Run
  BY <1>2 DEF Run, ReloadInOrder, JobsOf
<1>3. ASSUME NEW c \in Configs, ApplyConfig(c) PROVE ReloadInOrder'
  BY <1>3 DEF ApplyConfig, ReloadInOrder, JobsOf
<1>4. ASSUME NEW j \in Jobs, ReloadPool(j) PROVE ReloadInOrder'
  <2>1. /\ handoff = None /\ j \in todo /\ targetSets[j] # None
        /\ todo' = todo \ {j} /\ handoff' = j
        /\ UNCHANGED <<mtx, scrapeConfigs, targetSets>>
    BY <1>4 DEF ReloadPool
  <2>2. config'[targetSets[j]] = scrapeConfigs[j]
    BY <1>4 DEF ReloadPool, ManagerTypes
  <2>3. ASSUME NEW k \in Jobs, k # j, targetSets[k] # None
        PROVE  config'[targetSets[k]] = config[targetSets[k]]
    <3>1. targetSets[k] # targetSets[j] /\ targetSets[k] \in Sets
      BY <2>1, <2>3, OtherPools DEF ManagerTypes
    <3> QED
      BY <1>4, <3>1 DEF ReloadPool, ManagerTypes
  <2> QED
    BY <2>1, <2>2, <2>3 DEF ReloadInOrder, JobsOf
<1>5. ASSUME NEW j \in Jobs, NEW i \in Sets, NewSet(j, i) PROVE ReloadInOrder'
  <2>1. /\ handoff = None /\ j \in todo /\ made[i] = None
        /\ todo' = todo \ {j} /\ handoff' = j
        /\ UNCHANGED <<mtx, scrapeConfigs>>
    BY <1>5 DEF NewSet
  <2>2. targetSets'[j] = i /\ config'[i] = scrapeConfigs[j]
    BY <1>5 DEF NewSet, ManagerTypes
  <2>3. ASSUME NEW k \in Jobs, k # j, targetSets[k] # None
        PROVE  targetSets'[k] = targetSets[k] /\ config'[targetSets[k]] = config[targetSets[k]]
    <3>1. targetSets[k] # i /\ targetSets[k] \in Sets
      BY <2>1, <2>3, NobodysSet DEF ManagerTypes
    <3> QED
      BY <1>5, <2>3, <3>1 DEF NewSet, ManagerTypes
  <2> QED
    BY <2>1, <2>2, <2>3, Constants DEF ReloadInOrder, JobsOf
<1>6. ASSUME NEW i \in Sets, UpdateProviders(i) PROVE ReloadInOrder'
  BY <1>6 DEF UpdateProviders, ReloadInOrder, JobsOf
<1>7. CASE RemoveOld
  BY <1>7 DEF RemoveOld, Unlock, ReloadInOrder, JobsOf
<1> QED
  BY <1>1, <1>2, <1>3, <1>4, <1>5, <1>6, <1>7
     DEF Next, HupStep, MainStep, ReloadStep, LoopStep, vars, manager, Hup, Stop,
         Cancel, CancelPanics, Collect, LateGroup, StaleGroup, Throttle, SyncBegins,
         SyncGroup, Synced, SetReturns, WaitReturns, WaitPanics

\* Every step keeps Registered.
LEMMA RegisteredStep ==
  TypeOK /\ ReloadInOrder /\ Registered /\ [Next]_vars => Registered'
<1> SUFFICES ASSUME ManagerTypes, LoopTypes, ReloadInOrder, Registered, [Next]_vars
             PROVE  Registered'
  BY DEF TypeOK
<1>1. CASE UNCHANGED <<targetSets, made, loop, config>>
  BY <1>1 DEF Registered
<1>2. ASSUME NEW j \in Jobs, ReloadPool(j) PROVE Registered'
  <2>1. scrapeConfigs[j] # None
    BY <1>2 DEF ReloadPool, ReloadInOrder, JobsOf
  <2>2. \A i \in Sets : config[i] # None => config'[i] # None
    BY <1>2, <2>1 DEF ReloadPool, ManagerTypes
  <2> QED
    BY <1>2, <2>2 DEF ReloadPool, discovery, Registered
<1>3. ASSUME NEW j \in Jobs, NEW i \in Sets, NewSet(j, i) PROVE Registered'
  <2>1. scrapeConfigs[j] # None
    BY <1>3 DEF NewSet, ReloadInOrder, JobsOf
  <2>2. made[i] = None /\ made'[i] = j /\ config'[i] # None /\ targetSets'[j] = i
    BY <1>3, <2>1 DEF NewSet, ManagerTypes
  <2>3. \A k \in Sets : k # i =>
           made'[k] = made[k] /\ config'[k] = config[k] /\ loop'[k] = loop[k]
    BY <1>3 DEF NewSet, ManagerTypes, LoopTypes
  <2>4. \A k \in Jobs : k # j => targetSets'[k] = targetSets[k]
    BY <1>3 DEF NewSet, ManagerTypes
  <2>5. \A k \in Jobs : targetSets[k] # None => targetSets[k] # i /\ targetSets[k] \in Sets
    BY <2>2, NobodysSet DEF ManagerTypes
  <2> QED
    BY <2>2, <2>3, <2>4, <2>5, Constants DEF Registered
<1>4. ASSUME NEW i \in Sets,
             \/ UpdateProviders(i) \/ \E S \in SUBSET Groups : Collect(i, S)
             \/ Throttle(i) \/ SyncBegins(i) \/ Synced(i) \/ SetReturns(i)
      PROVE  Registered'
  <2>1. UNCHANGED <<targetSets, made, config>>
    BY <1>4 DEF UpdateProviders, Collect, Throttle, SyncBegins, Synced, SetReturns, manager
  <2>2. loop[i] # "off" /\ \A k \in Sets : k # i => loop'[k] = loop[k]
    BY <1>4 DEF UpdateProviders, Collect, Throttle, SyncBegins, Synced, SetReturns, LoopTypes
  <2> QED
    BY <2>1, <2>2 DEF Registered
<1>5. CASE RemoveOld
  <2>1. \A j \in Jobs : targetSets'[j] # None => targetSets'[j] = targetSets[j]
    BY <1>5 DEF RemoveOld
  <2> QED
    BY <1>5, <2>1 DEF RemoveOld, discovery, Registered
<1> QED
  BY <1>1, <1>2, <1>3, <1>4, <1>5
     DEF Next, HupStep, MainStep, ReloadStep, LoopStep, vars, manager, discovery,
         Run, Hup, ApplyConfig, Stop, Cancel, CancelPanics, LateGroup, StaleGroup,
         SyncGroup, WaitReturns, WaitPanics

\* Every step keeps SetsMatchConfig: a reload gives the mutex back only when it
\* is through with all jobs and has deleted the sets of the others.
LEMMA SetsMatchConfigStep ==
  TypeOK /\ ReloadInOrder /\ SetsMatchConfig /\ [Next]_vars => SetsMatchConfig'
<1> SUFFICES ASSUME ManagerTypes, ReloadInOrder, SetsMatchConfig, [Next]_vars
             PROVE  SetsMatchConfig'
  BY DEF TypeOK
<1>1. CASE UNCHANGED <<mtx, ctx, scrapeConfigs, targetSets, config>>
  BY <1>1 DEF SetsMatchConfig
<1>2. CASE Run
  BY <1>2 DEF Run, SetsMatchConfig
<1>3. ASSUME NEW c \in Configs, ApplyConfig(c) PROVE SetsMatchConfig'
  BY <1>3 DEF ApplyConfig, SetsMatchConfig
<1>4. CASE Cancel
  BY <1>4 DEF Cancel, SetsMatchConfig
<1>5. ASSUME NEW j \in Jobs, ReloadPool(j) \/ \E i \in Sets : NewSet(j, i)
      PROVE  SetsMatchConfig'
  <2>1. mtx' # "free"
    BY <1>5 DEF ReloadPool, NewSet, ReloadInOrder
  <2> QED
    BY <2>1 DEF SetsMatchConfig
<1>6. CASE RemoveOld
  <2>1. \A j \in Jobs :
           targetSets'[j] = IF scrapeConfigs[j] = None THEN None ELSE targetSets[j]
    BY <1>6 DEF RemoveOld
  <2>2. \A j \in Jobs : scrapeConfigs[j] # None =>
           targetSets[j] # None /\ config[targetSets[j]] = scrapeConfigs[j]
    BY <1>6 DEF RemoveOld, ReloadInOrder, JobsOf
  <2>3. UNCHANGED <<scrapeConfigs, config>>
    BY <1>6 DEF RemoveOld
  <2> QED
    BY <2>1, <2>2, <2>3 DEF SetsMatchConfig
<1> QED
  BY <1>1, <1>2, <1>3, <1>4, <1>5, <1>6
     DEF Next, HupStep, MainStep, ReloadStep, LoopStep, vars, manager, Hup, Stop,
         CancelPanics, UpdateProviders, Collect, LateGroup, StaleGroup, Throttle, SyncBegins,
         SyncGroup, Synced, SetReturns, WaitReturns, WaitPanics

\* Every step keeps NoSetLeaks: a set is made for a job without one, and
\* deleted only together with its cancellation.
LEMMA NoSetLeaksStep == TypeOK /\ NoSetLeaks /\ [Next]_vars => NoSetLeaks'
<1> SUFFICES ASSUME ManagerTypes, NoSetLeaks, [Next]_vars PROVE NoSetLeaks'
  BY DEF TypeOK
<1>1. CASE UNCHANGED <<made, cancelled, targetSets>>
  BY <1>1 DEF NoSetLeaks
<1>2. ASSUME NEW j \in Jobs, NEW i \in Sets, NewSet(j, i) PROVE NoSetLeaks'
  <2>1. /\ targetSets[j] = None /\ targetSets'[j] = i /\ made'[i] = j
        /\ cancelled' = cancelled
    BY <1>2 DEF NewSet, ManagerTypes
  <2>2. ASSUME NEW k \in Sets, k # i, made[k] # None, ~cancelled[k]
        PROVE  targetSets'[made[k]] = k
    <3>1. targetSets[made[k]] = k /\ made[k] \in Jobs
      BY <2>2 DEF NoSetLeaks, ManagerTypes
    <3>2. made[k] # j
      BY <2>1, <3>1, Constants
    <3> QED
      BY <1>2, <3>1, <3>2 DEF NewSet, ManagerTypes
  <2>3. \A k \in Sets : k # i => made'[k] = made[k]
    BY <1>2 DEF NewSet, ManagerTypes
  <2> QED
    BY <2>1, <2>2, <2>3 DEF NoSetLeaks
<1>3. CASE RemoveOld
  <2>1. ASSUME NEW i \in Sets, made[i] # None, ~cancelled'[i]
        PROVE  targetSets'[made[i]] = i
    <3>1. ~cancelled[i] /\ i \notin OldSets
      BY <1>3, <2>1 DEF RemoveOld
    <3>2. made[i] \in Jobs /\ targetSets[made[i]] = i
      BY <2>1, <3>1 DEF NoSetLeaks, ManagerTypes
    <3>3. scrapeConfigs[made[i]] # None
      BY <3>1, <3>2 DEF OldSets
    <3> QED
      BY <1>3, <3>2, <3>3 DEF RemoveOld
  <2> QED
    BY <1>3, <2>1 DEF RemoveOld, NoSetLeaks
<1> QED
  BY <1>1, <1>2, <1>3
     DEF Next, HupStep, MainStep, ReloadStep, LoopStep, vars, manager, Run, Hup,
         ApplyConfig, Stop, Cancel, CancelPanics, ReloadPool, UpdateProviders,
         Collect, LateGroup, StaleGroup, Throttle, SyncBegins, SyncGroup, Synced, SetReturns,
         WaitReturns, WaitPanics

\* Every step keeps StopInOrder: only a reload starts a target set, Run's own
\* before it waits and before Stop has had the mutex, every other for a SIGHUP.
LEMMA StopInOrderStep ==
  TypeOK /\ ReloadInOrder /\ StopInOrder /\ Alive /\ Next => StopInOrder'
<1> SUFFICES ASSUME ManagerTypes, LoopTypes, ReloadInOrder, StopInOrder, Alive, Next
             PROVE  StopInOrder'
  BY DEF TypeOK
<1>1. CASE UNCHANGED <<ctx, run, mtx, hup, main, reloads, loop>>
  BY <1>1 DEF StopInOrder, Running
<1>2. CASE Run
  BY <1>2 DEF Run, StopInOrder, Running, discovery
<1>3. CASE Hup
  <2>1. reloads \in Nat /\ reloads' = reloads + 1
    BY <1>3, ReloadsType DEF Hup
  <2>2. reloads' > 0 /\ reloads' # 0
    BY <2>1
  <2> QED
    BY <1>3, <2>2 DEF Hup, StopInOrder, discovery, manager
<1>4. ASSUME NEW c \in Configs, ApplyConfig(c) PROVE StopInOrder'
  BY <1>4 DEF ApplyConfig, StopInOrder, Running, discovery
<1>5. CASE Stop
  BY <1>5 DEF Stop, StopInOrder, Running, discovery, manager
<1>6. CASE Cancel
  BY <1>6 DEF Cancel, StopInOrder, Running, discovery
<1>7. ASSUME NEW j \in Jobs, NEW i \in Sets, NewSet(j, i) PROVE StopInOrder'
  <2>1. mtx # "free" /\ UNCHANGED <<ctx, run, mtx, hup, main, reloads>>
    BY <1>7 DEF NewSet, ReloadInOrder, callers
  <2>2. reloads = 0 => mtx = "run"
    <3>1. reloads = 0 => ~(reloads > 0)
      OBVIOUS
    <3> QED
      BY <2>1, <3>1 DEF StopInOrder, ManagerTypes
  <2>3. reloads = 0 => run # "woken" /\ main # "woken"
    BY <2>2 DEF StopInOrder
  <2> QED
    BY <2>1, <2>3 DEF StopInOrder
<1>8. CASE RemoveOld
  <2>1. UNCHANGED <<ctx, main, reloads, loop>> /\ mtx' = "free" /\ mtx # "free"
    BY <1>8 DEF RemoveOld, Unlock, discovery
  <2>2. CASE mtx = "run"
    <3>1. run' \in {"returned", "wait"} /\ hup' = hup
      BY <1>8, <2>2 DEF RemoveOld, Unlock
    <3> QED
      BY <2>1, <2>2, <3>1 DEF StopInOrder, Running
  <2>3. CASE mtx # "run"
    <3>1. hup' = "idle" /\ run' = run
      BY <1>8, <2>3 DEF RemoveOld, Unlock
    <3> QED
      BY <2>1, <2>3, <3>1 DEF StopInOrder, Running
  <2> QED
    BY <2>2, <2>3
<1>9. ASSUME NEW i \in Sets,
             \/ UpdateProviders(i) \/ \E S \in SUBSET Groups : Collect(i, S)
             \/ Throttle(i) \/ SyncBegins(i) \/ Synced(i)
      PROVE  StopInOrder'
  <2>1. UNCHANGED <<ctx, run, mtx, hup, main, reloads>>
    BY <1>9 DEF UpdateProviders, Collect, Throttle, SyncBegins, Synced, callers, manager
  <2>2. i \in Running
    BY <1>9 DEF UpdateProviders, Collect, Throttle, SyncBegins, Synced, Running
  <2>3. Running = {} => Running' = {}
    BY <2>2
  <2> QED
    BY <2>1, <2>3 DEF StopInOrder
<1>10. ASSUME NEW i \in Sets, SetReturns(i) PROVE StopInOrder'
  <2>1. /\ UNCHANGED <<ctx, mtx, hup, reloads>>
        /\ loop' = [loop EXCEPT ![i] = "returned"]
        /\ run' = IF run = "wait" /\ Running = {i} THEN "woken" ELSE run
        /\ main' = IF main = "wait" /\ Running = {i} THEN "woken" ELSE main
    BY <1>10 DEF SetReturns, manager
  <2>2. Running' = Running \ {i}
    BY <2>1 DEF Running, LoopTypes
  <2>3. CASE Running = {i}
    BY <2>1, <2>2, <2>3 DEF StopInOrder
  <2>4. CASE Running # {i}
    BY <2>1, <2>2, <2>4 DEF StopInOrder
  <2> QED
    BY <2>3, <2>4
<1>11. CASE WaitReturns
  <2>1. UNCHANGED <<ctx, mtx, hup, reloads, loop>> /\ Running = {}
    BY <1>11 DEF WaitReturns, manager, discovery
  <2>2. CASE run = "woken" /\ run' = "returned" /\ UNCHANGED main
    BY <2>1, <2>2 DEF StopInOrder, Running
  <2>3. CASE main = "woken" /\ main' = "exited" /\ UNCHANGED run
    BY <2>1, <2>3 DEF StopInOrder, Running
  <2> QED
    BY <1>11, <2>2, <2>3 DEF WaitReturns
<1>12. CASE CancelPanics \/ WaitPanics
  BY <1>12, <1>1 DEF CancelPanics, WaitPanics, callers, manager, discovery
<1>13. ASSUME NEW j \in Jobs, ReloadPool(j) PROVE StopInOrder'
  BY <1>13, <1>1 DEF ReloadPool, callers, discovery
<1>14. ASSUME NEW i \in Sets, NEW g \in Groups,
              LateGroup(i, g) \/ StaleGroup(i, g) \/ SyncGroup(i, g)
       PROVE  StopInOrder'
  BY <1>14, <1>1 DEF LateGroup, StaleGroup, SyncGroup, callers, manager, discovery
<1> QED
  BY <1>2, <1>3, <1>4, <1>5, <1>6, <1>7, <1>8, <1>9, <1>10, <1>11, <1>12, <1>13, <1>14
     DEF Next, HupStep, MainStep, ReloadStep, LoopStep

\* Every step keeps PanicsNeedOverlap; the process takes none after a panic.
LEMMA PanicsNeedOverlapStep ==
  TypeOK /\ StopInOrder /\ PanicsNeedOverlap /\ [Next]_vars => PanicsNeedOverlap'
<1> SUFFICES ASSUME ManagerTypes, StopInOrder, PanicsNeedOverlap, [Next]_vars
             PROVE  PanicsNeedOverlap'
  BY DEF TypeOK
<1>1. CASE panic' = "none"
  BY <1>1 DEF PanicsNeedOverlap
<1>2. CASE UNCHANGED vars
  BY <1>2 DEF vars, callers, PanicsNeedOverlap
<1>3. CASE CancelPanics
  BY <1>3 DEF CancelPanics, callers, StopInOrder, PanicsNeedOverlap
<1>4. CASE WaitPanics
  <2>1. reloads # 0
    BY <1>4 DEF WaitPanics, StopInOrder
  <2>2. reloads > 0
    BY <2>1, ReloadsType
  <2> QED
    BY <1>4, <2>2 DEF WaitPanics, callers, PanicsNeedOverlap
<1>5. Alive => panic = "none"
  BY DEF Alive
<1> QED
  BY <1>1, <1>2, <1>3, <1>4, <1>5
     DEF Next, HupStep, MainStep, ReloadStep, LoopStep, Run, Hup, ApplyConfig, Stop,
         Cancel, ReloadPool, NewSet, UpdateProviders, RemoveOld, Collect, LateGroup,
         StaleGroup, Throttle, SyncBegins, SyncGroup, Synced, SetReturns, WaitReturns

LEMMA InitIInv == Init => IInv
<1> SUFFICES ASSUME Init PROVE IInv
  OBVIOUS
<1>1. ManagerTypes
  BY TargetAssumption DEF Init, ManagerTypes
<1>2. LoopTypes
  BY DEF Init, LoopTypes
<1>3. ReloadInOrder /\ Registered /\ SetsMatchConfig /\ NoSetLeaks
  BY DEF Init, ReloadInOrder, Registered, SetsMatchConfig, NoSetLeaks, JobsOf
<1>4. handoff = None
  BY DEF Init
<1>5. StopInOrder /\ PanicsNeedOverlap
  BY DEF Init, StopInOrder, PanicsNeedOverlap
<1> QED
  BY <1>1, <1>2, <1>3, <1>4, <1>5 DEF IInv, TypeOK

\* IInv, from which the others follow, holds in every reachable state.
THEOREM Invariance == Spec => []IInv
<1>1. IInv /\ [Next]_vars => IInv'
  <2> SUFFICES ASSUME IInv, [Next]_vars PROVE IInv'
    OBVIOUS
  <2>1. TypeOK'
    BY ManagerTypesStep, LoopTypesStep, HandoffStep DEF IInv, TypeOK
  <2>2. StopInOrder'
    <3>1. CASE Alive /\ Next
      BY <3>1, StopInOrderStep DEF IInv
    <3>2. CASE UNCHANGED vars
      BY <3>2 DEF IInv, StopInOrder, Running, vars, callers, manager, discovery
    <3> QED
      BY <3>1, <3>2 DEF Next
  <2> QED
    BY <2>1, <2>2, ReloadInOrderStep, RegisteredStep, SetsMatchConfigStep,
       NoSetLeaksStep, PanicsNeedOverlapStep DEF IInv
<1> QED
  BY InitIInv, <1>1, PTL DEF Spec

\* The types, and that reload hands providers only to a set in the map.
THEOREM TypeCorrect == Spec => []TypeOK
<1>1. IInv => TypeOK
  BY DEF IInv
<1> QED
  BY Invariance, <1>1, PTL

\* Whenever tm.mtx is free, tm.targetSets has exactly the configured jobs, each
\* with a pool that has the job's configuration.
THEOREM MapFollowsConfig == Spec => []SetsMatchConfig
<1>1. IInv => SetsMatchConfig
  BY DEF IInv
<1> QED
  BY Invariance, <1>1, PTL

\* A target set whose goroutine nobody has cancelled is in tm.targetSets.
THEOREM EverySetIsKnown == Spec => []NoSetLeaks
<1>1. IInv => NoSetLeaks
  BY DEF IInv
<1> QED
  BY Invariance, <1>1, PTL

\* The process dies of a nil tm.cancel only while Run has not had the mutex, and
\* of a reused tm.wg only if a SIGHUP has come.
THEOREM StopPanicsOnlyInOverlap == Spec => []PanicsNeedOverlap
<1>1. IInv => PanicsNeedOverlap
  BY DEF IInv
<1> QED
  BY Invariance, <1>1, PTL
=============================================================================
