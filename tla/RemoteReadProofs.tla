-------------------------- MODULE RemoteReadProofs --------------------------
(***************************************************************************)
(* Proofs about module RemoteRead, for any number of concurrent queries,   *)
(* remotes, series and reloads, and every order in which the goroutines of *)
(* the queries get to the map that they share.                             *)
(***************************************************************************)
EXTENDS RemoteRead, TLAPS

\* The states of a goroutine that is dealing with one series of its answer,
\* the ones after its request was sent, and the ones before its answer.
InSeries   == {"create", "store", "clash", "append", "assign"}
Unanswered == {"off", "set", "request", "reply"}

\* A goroutine runs only for a remote of its query's generation, and only
\* after its query has started it; when the query is done it has ended.
Started ==
  \A t \in Tasks :
     /\ task[t] # "off" => t \in TasksOf(t[1]) /\ query[t[1]] \in {"wait", "done"}
     /\ query[t[1]] = "done" => task[t] \in {"off", "done"}

\* What a goroutine still has to merge is a part of its answer, nothing is
\* left when it ends, and it has no answer before the remote has replied.
Pending ==
  \A t \in Tasks :
     /\ todo[t] \subseteq answer[t]
     /\ task[t] = "done" => todo[t] = {}
     /\ task[t] \in Unanswered => answer[t] = {}
     /\ task[t] \in InSeries => it[t] \in Series /\ it[t] \in answer[t]

\* An entry of the map is made when the query starts its goroutines, or by
\* one of them, and while no access overlaps with an insert no entry is ever
\* taken out again: an entry without a value is the one that is being made; a
\* goroutine that found an entry can count on it, and one that found none does
\* not meet a local one.
MapEntries ==
  /\ \A q \in Queries : query[q] \in {"idle", "querier"} =>
        \A s \in Series : fpToIt[q][s] = None
  /\ \A q \in Queries \ overlapped : \A s \in Series :
        fpToIt[q][s] = Void => \E u \in Tasks : u[1] = q /\ task[u] = "store" /\ it[u] = s
  /\ \A t \in Tasks : t[1] \notin overlapped =>
        /\ task[t] \in {"create", "store"} => fpToIt[t[1]][it[t]] # Local
        /\ task[t] \in {"append", "assign"} => fpToIt[t[1]][it[t]] \in Owners
        /\ task[t] # "clash"

\* It takes two goroutines of a query to overlap.
Overlaps ==
  \A q \in overlapped : query[q] \in {"wait", "done"} /\ \E t, u \in TasksOf(q) : t # u

\* The first part of MetricIsDefined.
HasRemote ==
  \A q \in Queries, s \in Series :
     fpToIt[q][s] \in Remotes => remote[q][s][fpToIt[q][s]] # {}

\* The remote iterators that a goroutine is about to write back belong to
\* remotes that answered the series.
BaseWasAnswered ==
  \A t \in Tasks : task[t] = "assign" =>
     \A r \in base[t] : it[t] \in answer[<<t[1], r>>] /\ r \in RemotesOf[gen[t[1]]]

\* Only t, of the goroutines of its query, has series s in its answer.
Alone(t, s) == \A u \in TasksOf(t[1]) \ {t} : s \notin answer[u]

\* The iterator of t for series s is in the map of its query.
InResult(t, s) ==
  LET o == fpToIt[t[1]][s] IN o \in Owners /\ t[2] \in remote[t[1]][s][o]

\* A series that t alone has answered is still to be merged, being merged, or
\* merged, while no accesses of the map overlap.
AloneKept ==
  \A t \in Tasks : \A s \in answer[t] : t[1] \notin overlapped /\ Alone(t, s) =>
     \/ s \in todo[t]
     \/ task[t] \in InSeries /\ it[t] = s
     \/ InResult(t, s)

\* The inductive invariant.
ReadInv ==
  /\ TypeOK
  /\ Started
  /\ Pending
  /\ MapEntries
  /\ Overlaps
  /\ BaseWasAnswered
  /\ ResultsWereAnswered
  /\ HasRemote
  /\ AloneKept

-----------------------------------------------------------------------------
LEMMA TaskParts ==
  ASSUME NEW t \in Tasks
  PROVE  t[1] \in Queries /\ t[2] \in Remotes /\ t = <<t[1], t[2]>>
BY DEF Tasks

LEMMA InitInv == Init => ReadInv
<1> SUFFICES ASSUME Init PROVE ReadInv
  OBVIOUS
<1>1. TypeOK
  <2>1. 0 \in Gens
    BY ReadAssumption DEF Gens
  <2>2. fpToIt \in [Queries -> [Series -> Owners \cup {None, Void}]]
    BY DEF Init
  <2>3. remote \in [Queries -> [Series -> [Owners -> SUBSET Remotes]]]
    BY DEF Init
  <2>4. crashed \in BOOLEAN
    BY DEF Init
  <2>5. /\ answer \in [Tasks -> SUBSET Series]
        /\ todo \in [Tasks -> SUBSET Series]
        /\ base \in [Tasks -> SUBSET Remotes]
    BY DEF Init
  <2> QED
    BY <2>1, <2>2, <2>3, <2>4, <2>5 DEF Init, TypeOK
<1>2. Started /\ Pending
  BY TaskParts DEF Init, Started, Pending, InSeries
<1>3. MapEntries /\ BaseWasAnswered /\ Overlaps
  BY ReadAssumption DEF Init, MapEntries, BaseWasAnswered, Overlaps
<1>4. ResultsWereAnswered /\ HasRemote
  BY ReadAssumption DEF Init, ResultsWereAnswered, HasRemote, Owners
<1>5. AloneKept
  BY DEF Init, AloneKept
<1> QED
  BY <1>1, <1>2, <1>3, <1>4, <1>5 DEF ReadInv

\* Steps that change neither the goroutines nor what they have answered.
LEMMA QuietStep ==
  ASSUME ReadInv, UNCHANGED <<gen, sent, rawQuery, answer, results, task, merging>>,
         clients' \in Gens, crashed' \in BOOLEAN,
         query' \in [Queries -> {"idle", "querier", "wait", "done", "failed"}],
         \A q \in Queries : query'[q] # query[q] =>
            \/ query[q] = "querier" /\ query'[q] = "failed"
            \/ /\ query[q] = "wait" /\ query'[q] = "done"
               /\ \A t \in TasksOf(q) : task[t] = "done"
  PROVE  ReadInv'
<1> USE DEF ReadInv, results, merging
<1>1. TypeOK'
  BY DEF TypeOK
<1>2. \A q : TasksOf(q)' = TasksOf(q)
  BY DEF TasksOf
<1>3. Started'
  BY <1>2, TaskParts DEF Started, TasksOf
<1>4. Pending' /\ BaseWasAnswered'
  BY DEF Pending, BaseWasAnswered
<1>5. MapEntries' /\ Overlaps'
  <2>1. MapEntries'
    BY DEF MapEntries
  <2>2. Overlaps'
    BY <1>2 DEF Overlaps, TypeOK
  <2> QED
    BY <2>1, <2>2
<1>6. ResultsWereAnswered' /\ HasRemote'
  BY DEF ResultsWereAnswered, HasRemote
<1>7. AloneKept'
  BY <1>2, TaskParts DEF AloneKept, Alone, InResult
<1> QED
  BY <1>1, <1>3, <1>4, <1>5, <1>6, <1>7

LEMMA ApplyConfigInv == ReadInv /\ ApplyConfig => ReadInv'
<1> SUFFICES ASSUME ReadInv, ApplyConfig PROVE ReadInv'
  OBVIOUS
<1>1. clients' \in Gens
  BY ReadAssumption DEF ApplyConfig, ReadInv, TypeOK, Gens
<1> QED
  BY <1>1, QuietStep DEF ApplyConfig, requests, ReadInv, TypeOK

LEMMA LocalFailsInv ==
  ASSUME ReadInv, NEW q \in Queries, LocalFails(q) PROVE ReadInv'
BY QuietStep DEF LocalFails, requests, ReadInv, TypeOK

LEMMA FanInInv ==
  ASSUME ReadInv, NEW q \in Queries, FanIn(q) PROVE ReadInv'
BY QuietStep DEF FanIn, requests, ReadInv, TypeOK

LEMMA CrashInv ==
  ASSUME ReadInv, NEW t, NEW u, ConcurrentMapAccess(t) \/ TornRemote(t, u) \/ NilPointer(t)
  PROVE  ReadInv'
BY QuietStep DEF ConcurrentMapAccess, TornRemote, NilPointer, requests, ReadInv, TypeOK

LEMMA UnchangedInv == ReadInv /\ UNCHANGED vars => ReadInv'
BY QuietStep DEF vars, requests, ReadInv, TypeOK

\* A query that has not started its goroutines has no answers and no results.
LEMMA NotStarted ==
  ASSUME ReadInv, NEW q \in Queries, query[q] \in {"idle", "querier"}
  PROVE  /\ \A t \in Tasks : t[1] = q => task[t] = "off" /\ answer[t] = {} /\ todo[t] = {}
         /\ \A s \in Series, o \in Owners : remote[q][s][o] = {}
         /\ \A s \in Series : fpToIt[q][s] = None
<1>1. \A t \in Tasks : t[1] = q => task[t] = "off" /\ answer[t] = {} /\ todo[t] = {}
  BY DEF ReadInv, Started, Pending, Unanswered
<1>2. ASSUME NEW s \in Series, NEW o \in Owners, NEW r \in remote[q][s][o] PROVE FALSE
  <2>1. r \in Remotes
    BY DEF ReadInv, TypeOK
  <2>2. s \in answer[<<q, r>>]
    BY DEF ReadInv, ResultsWereAnswered
  <2> QED
    BY <1>1, <2>1, <2>2 DEF Tasks
<1> QED
  BY <1>1, <1>2 DEF ReadInv, MapEntries

LEMMA QuerierInv ==
  ASSUME ReadInv, NEW q \in Queries, Querier(q) PROVE ReadInv'
<1> USE DEF requests, results, merging
<1>1. TypeOK'
  BY DEF Querier, ReadInv, TypeOK
<1>2. \A t \in Tasks : t[1] = q => task[t] = "off" /\ answer[t] = {} /\ todo[t] = {}
  BY NotStarted DEF Querier
<1>3. \A p \in Queries : p # q => gen'[p] = gen[p] /\ query'[p] = query[p]
  BY DEF Querier, ReadInv, TypeOK
<1>4. query[q] = "idle" /\ query'[q] = "querier"
  BY DEF Querier, ReadInv, TypeOK
<1>5. UNCHANGED <<rawQuery, sent, answer, fpToIt, remote, overlapped, task, todo, it, found, base>>
  BY DEF Querier
<1>6. Started'
  <2> SUFFICES ASSUME NEW t \in Tasks
               PROVE  /\ task[t] # "off" => t[2] \in RemotesOf[gen'[t[1]]] /\ query'[t[1]] \in {"wait", "done"}
                      /\ query'[t[1]] = "done" => task[t] \in {"off", "done"}
    BY <1>5 DEF Started, TasksOf
  <2>1. CASE t[1] = q
    BY <1>2, <1>4, <2>1
  <2>2. CASE t[1] # q
    BY <1>3, <2>2, TaskParts DEF ReadInv, Started, TasksOf
  <2> QED
    BY <2>1, <2>2
<1>7. Pending'
  BY <1>5 DEF ReadInv, Pending
<1>8. MapEntries'
  <2>1. \A p \in Queries : query'[p] \in {"idle", "querier"} => query[p] \in {"idle", "querier"}
    BY <1>3, <1>4
  <2> QED
    BY <1>5, <2>1 DEF ReadInv, MapEntries
<1>13. Overlaps'
  <2> SUFFICES ASSUME NEW p \in overlapped
               PROVE  query'[p] \in {"wait", "done"} /\ \E t, u \in TasksOf(p)' : t # u
    BY <1>5 DEF Overlaps
  <2>1. p \in Queries /\ query[p] \in {"wait", "done"}
    BY DEF ReadInv, Overlaps, TypeOK
  <2>2. TasksOf(p)' = TasksOf(p) /\ query'[p] = query[p]
    BY <1>3, <1>4, <2>1 DEF TasksOf
  <2> QED
    BY <2>1, <2>2 DEF ReadInv, Overlaps
<1>9. BaseWasAnswered'
  <2> SUFFICES ASSUME NEW t \in Tasks, task[t] = "assign", NEW r \in base[t]
               PROVE  it[t] \in answer[<<t[1], r>>] /\ r \in RemotesOf[gen'[t[1]]]
    BY <1>5 DEF BaseWasAnswered
  <2>1. t[1] # q
    BY <1>2
  <2> QED
    BY <1>3, <2>1, TaskParts DEF ReadInv, BaseWasAnswered
<1>10. ResultsWereAnswered'
  <2> SUFFICES ASSUME NEW p \in Queries, NEW s \in Series, NEW o \in Owners,
                      NEW r \in remote[p][s][o]
               PROVE  s \in answer[<<p, r>>] /\ r \in RemotesOf[gen'[p]]
    BY <1>5 DEF ResultsWereAnswered
  <2>1. p # q
    BY <1>4, NotStarted
  <2> QED
    BY <1>3, <2>1 DEF ReadInv, ResultsWereAnswered
<1>11. HasRemote'
  BY <1>5 DEF ReadInv, HasRemote
<1>12. AloneKept'
  <2> SUFFICES ASSUME NEW t \in Tasks, NEW s \in answer[t], t[1] \notin overlapped, Alone(t, s)'
               PROVE  \/ s \in todo[t]
                      \/ task[t] \in InSeries /\ it[t] = s
                      \/ InResult(t, s)
    BY <1>5 DEF AloneKept, InResult
  <2>1. t[1] # q
    BY <1>2
  <2>2. Alone(t, s)
    BY <1>3, <1>5, <2>1, TaskParts DEF Alone, TasksOf
  <2> QED
    BY <2>2 DEF ReadInv, AloneKept
<1> QED
  BY <1>1, <1>6, <1>7, <1>8, <1>9, <1>10, <1>11, <1>12, <1>13 DEF ReadInv

\* The local storage has answered: the map of the query gets its entries.
LEMMA LocalAnswerInv ==
  ASSUME ReadInv, NEW q \in Queries, NEW S \in SUBSET Series,
         query[q] = "querier",
         fpToIt' = [fpToIt EXCEPT ![q] = [s \in Series |-> IF s \in S THEN Local ELSE None]],
         UNCHANGED <<clients, gen, requests, remote, overlapped, merging, crashed>>,
         \/ query' = [query EXCEPT ![q] = "done"] /\ task' = task
         \/ /\ query' = [query EXCEPT ![q] = "wait"]
            /\ task' = [t \in Tasks |-> IF t \in TasksOf(q) THEN "set" ELSE task[t]]
  PROVE  ReadInv'
<1> USE DEF requests, merging
<1>1. TypeOK'
  <2>1. fpToIt' \in [Queries -> [Series -> Owners \cup {None, Void}]]
    BY DEF ReadInv, TypeOK, Owners
  <2>2. \A t \in Tasks : task'[t] \in {"append", "assign"} => task'[t] = task[t]
    BY DEF ReadInv, TypeOK
  <2>3. /\ task' \in [Tasks -> {"off", "set", "request", "reply", "merge", "create",
                                "store", "clash", "append", "assign", "done"}]
        /\ query' \in [Queries -> {"idle", "querier", "wait", "done", "failed"}]
    BY DEF ReadInv, TypeOK
  <2> QED
    BY <2>1, <2>2, <2>3 DEF ReadInv, TypeOK
<1>2. \A t \in Tasks : t[1] = q => task[t] = "off" /\ answer[t] = {} /\ todo[t] = {}
  BY NotStarted
<1>3. /\ \A p \in Queries : p # q => fpToIt'[p] = fpToIt[p] /\ query'[p] = query[p]
      /\ query'[q] \in {"wait", "done"}
      /\ \A s \in Series : fpToIt'[q][s] \in {Local, None}
  BY DEF ReadInv, TypeOK
<1>4. /\ \A t \in Tasks : t[1] # q => task'[t] = task[t]
      /\ \A t \in Tasks : t[1] = q =>
            \/ task'[t] = "off"
            \/ task'[t] = "set" /\ query'[q] = "wait" /\ t \in TasksOf(q)
  BY <1>2 DEF TasksOf, ReadInv, TypeOK
<1>5. \A p : TasksOf(p)' = TasksOf(p)
  BY DEF TasksOf
<1>6. Started'
  BY <1>3, <1>4, <1>5, TaskParts DEF ReadInv, Started
<1>7. Pending'
  <2> SUFFICES ASSUME NEW t \in Tasks
               PROVE  /\ todo[t] \subseteq answer[t]
                      /\ task'[t] = "done" => todo[t] = {}
                      /\ task'[t] \in Unanswered => answer[t] = {}
                      /\ task'[t] \in InSeries => it[t] \in Series /\ it[t] \in answer[t]
    BY DEF Pending
  <2>1. CASE t[1] = q
    BY <1>2, <1>4, <2>1 DEF InSeries
  <2>2. CASE t[1] # q
    BY <1>4, <2>2 DEF ReadInv, Pending
  <2> QED
    BY <2>1, <2>2
<1>8. MapEntries' /\ Overlaps'
  <2>1. ASSUME NEW p \in Queries \ overlapped, NEW s \in Series, fpToIt'[p][s] = Void
        PROVE  \E u \in Tasks : u[1] = p /\ task'[u] = "store" /\ it[u] = s
    <3>1. p # q
      BY <1>3, <2>1, ReadAssumption DEF Owners
    <3>2. PICK u \in Tasks : u[1] = p /\ task[u] = "store" /\ it[u] = s
      BY <1>3, <2>1, <3>1 DEF ReadInv, MapEntries
    <3> QED
      BY <1>4, <3>1, <3>2
  <2>2. MapEntries'
    BY <1>3, <1>4, <2>1, TaskParts DEF ReadInv, MapEntries
  <2>3. Overlaps'
    BY <1>3, <1>5 DEF ReadInv, Overlaps, TypeOK
  <2> QED
    BY <2>2, <2>3
<1>9. BaseWasAnswered'
  BY <1>4 DEF ReadInv, BaseWasAnswered
<1>10. ResultsWereAnswered'
  BY DEF ReadInv, ResultsWereAnswered
<1>11. HasRemote'
  BY <1>3, ReadAssumption DEF ReadInv, HasRemote, Owners
<1>12. AloneKept'
  <2> SUFFICES ASSUME NEW t \in Tasks, NEW s \in answer[t], t[1] \notin overlapped, Alone(t, s)
               PROVE  \/ s \in todo[t]
                      \/ task'[t] \in InSeries /\ it[t] = s
                      \/ InResult(t, s)'
    BY <1>5 DEF AloneKept, Alone
  <2>1. t[1] # q
    BY <1>2
  <2>2. InResult(t, s)' <=> InResult(t, s)
    BY <1>3, <2>1, TaskParts DEF InResult
  <2> QED
    BY <1>4, <2>1, <2>2 DEF ReadInv, AloneKept
<1> QED
  BY <1>1, <1>6, <1>7, <1>8, <1>9, <1>10, <1>11, <1>12 DEF ReadInv

LEMMA LocalOnlyInv ==
  ASSUME ReadInv, NEW q \in Queries, NEW S \in SUBSET Series, LocalOnly(q, S)
  PROVE  ReadInv'
BY LocalAnswerInv DEF LocalOnly

LEMMA FanOutInv ==
  ASSUME ReadInv, NEW q \in Queries, NEW S \in SUBSET Series, FanOut(q, S)
  PROVE  ReadInv'
BY LocalAnswerInv DEF FanOut

-----------------------------------------------------------------------------
(***************************************************************************)
(* The steps of a goroutine.                                               *)
(***************************************************************************)

\* A running goroutine belongs to its query's generation.
LEMMA Running ==
  ASSUME ReadInv, NEW t \in Tasks, task[t] \notin {"off", "done"}
  PROVE  t \in TasksOf(t[1]) /\ t[2] \in RemotesOf[gen[t[1]]] /\ query[t[1]] = "wait"
BY TaskParts DEF ReadInv, Started, TasksOf

\* Steps that touch neither the map nor the answers.
LEMMA ControlStep ==
  ASSUME ReadInv, NEW t \in Tasks, NEW next,
         task' = [task EXCEPT ![t] = next],
         UNCHANGED <<clients, query, gen, answer, results, merging, crashed>>,
         rawQuery' \in [Gens \X Remotes -> Queries \cup {None}],
         sent' \in [Tasks -> Queries \cup {None}],
         \/ task[t] = "set" /\ next = "request"
         \/ task[t] = "request" /\ next = "reply"
         \/ task[t] = "merge" /\ next = "done" /\ todo[t] = {}
         \/ task[t] = "clash" /\ next = "merge"
  PROVE  ReadInv'
<1> USE DEF results, merging
<1>1. /\ \A u \in Tasks : u # t => task'[u] = task[u]
      /\ task'[t] = next
      /\ \A p : TasksOf(p)' = TasksOf(p)
  BY DEF ReadInv, TypeOK, TasksOf
<1>2. TypeOK'
  <2>1. task' \in [Tasks -> {"off", "set", "request", "reply", "merge", "create",
                             "store", "clash", "append", "assign", "done"}]
    BY DEF ReadInv, TypeOK
  <2> QED
    BY <1>1, <2>1 DEF ReadInv, TypeOK
<1>3. Started'
  BY <1>1, Running, TaskParts DEF ReadInv, Started
<1>4. Pending'
  BY <1>1 DEF ReadInv, Pending, Unanswered, InSeries
<1>5. MapEntries' /\ Overlaps' /\ BaseWasAnswered'
  <2>1. \A u \in Tasks : task[u] = "store" => task'[u] = "store"
    BY <1>1
  <2> QED
    BY <1>1, <2>1 DEF ReadInv, MapEntries, BaseWasAnswered, Overlaps
<1>6. ResultsWereAnswered' /\ HasRemote'
  BY DEF ReadInv, ResultsWereAnswered, HasRemote
<1>7. AloneKept'
  <2> SUFFICES ASSUME NEW u \in Tasks, NEW s \in answer[u], u[1] \notin overlapped, Alone(u, s)
               PROVE  \/ s \in todo[u]
                      \/ task'[u] \in InSeries /\ it[u] = s
                      \/ InResult(u, s)
    BY <1>1 DEF AloneKept, Alone, InResult
  <2>1. task[u] # "clash"
    BY DEF ReadInv, MapEntries
  <2> QED
    BY <1>1, <2>1 DEF ReadInv, AloneKept, InSeries
<1> QED
  BY <1>2, <1>3, <1>4, <1>5, <1>6, <1>7 DEF ReadInv

LEMMA SetRawQueryInv ==
  ASSUME ReadInv, NEW t \in Tasks, SetRawQuery(t) PROVE ReadInv'
<1>1. rawQuery' \in [Gens \X Remotes -> Queries \cup {None}]
  BY TaskParts DEF SetRawQuery, ReadInv, TypeOK
<1> QED
  BY <1>1, ControlStep DEF SetRawQuery, ReadInv, TypeOK

LEMMA RequestInv ==
  ASSUME ReadInv, NEW t \in Tasks, Request(t) PROVE ReadInv'
<1>1. Client(t) \in Gens \X Remotes
  BY TaskParts DEF Client, ReadInv, TypeOK
<1>2. sent' \in [Tasks -> Queries \cup {None}]
  BY <1>1 DEF Request, ReadInv, TypeOK
<1> QED
  BY <1>2, ControlStep DEF Request, ReadInv, TypeOK

LEMMA MergedInv ==
  ASSUME ReadInv, NEW t \in Tasks, Merged(t) PROVE ReadInv'
BY ControlStep DEF Merged, requests, ReadInv, TypeOK

LEMMA StoreElsewhereInv ==
  ASSUME ReadInv, NEW t \in Tasks, StoreElsewhere(t) PROVE ReadInv'
BY ControlStep DEF StoreElsewhere, requests, ReadInv, TypeOK

LEMMA ReplyInv ==
  ASSUME ReadInv, NEW t \in Tasks, NEW S \in SUBSET Series, Reply(t, S)
  PROVE  ReadInv'
<1> USE DEF results
<1>1. /\ \A u \in Tasks : u # t =>
            task'[u] = task[u] /\ answer'[u] = answer[u] /\ todo'[u] = todo[u]
      /\ task'[t] = "merge" /\ answer'[t] = S /\ todo'[t] = S
      /\ UNCHANGED <<clients, query, gen, rawQuery, sent, fpToIt, remote, overlapped, it, found,
                     base, crashed>>
      /\ \A p : TasksOf(p)' = TasksOf(p)
  BY DEF Reply, ReadInv, TypeOK, TasksOf
<1>2. task[t] = "reply" /\ answer[t] = {}
  BY DEF Reply, ReadInv, Pending, Unanswered
<1>3. TypeOK'
  <2>1. /\ task' \in [Tasks -> {"off", "set", "request", "reply", "merge", "create",
                                "store", "clash", "append", "assign", "done"}]
        /\ answer' \in [Tasks -> SUBSET Series]
        /\ todo' \in [Tasks -> SUBSET Series]
    BY DEF Reply, ReadInv, TypeOK
  <2> QED
    BY <1>1, <2>1 DEF ReadInv, TypeOK
<1>4. \A u \in Tasks : answer[u] \subseteq answer'[u]
  BY <1>1, <1>2
<1>5. Started'
  BY <1>1, <1>2, Running, TaskParts DEF ReadInv, Started
<1>6. Pending'
  BY <1>1 DEF ReadInv, Pending, Unanswered, InSeries
<1>7. MapEntries' /\ Overlaps'
  <2>1. \A u \in Tasks : task[u] = "store" => task'[u] = "store"
    BY <1>1, <1>2
  <2> QED
    BY <1>1, <2>1 DEF ReadInv, MapEntries, Overlaps
<1>8. BaseWasAnswered'
  <2> SUFFICES ASSUME NEW u \in Tasks, task'[u] = "assign", NEW r \in base[u]
               PROVE  it[u] \in answer'[<<u[1], r>>] /\ r \in RemotesOf[gen[u[1]]]
    BY <1>1 DEF BaseWasAnswered
  <2>1. task[u] = "assign"
    BY <1>1
  <2>2. it[u] \in answer[<<u[1], r>>] /\ r \in RemotesOf[gen[u[1]]]
    BY <2>1 DEF ReadInv, BaseWasAnswered
  <2>3. <<u[1], r>> \in Tasks
    BY TaskParts DEF ReadInv, TypeOK, Tasks
  <2> QED
    BY <1>4, <2>2, <2>3
<1>9. ResultsWereAnswered'
  <2> SUFFICES ASSUME NEW q \in Queries, NEW s \in Series, NEW o \in Owners,
                      NEW r \in remote[q][s][o]
               PROVE  s \in answer'[<<q, r>>] /\ r \in RemotesOf[gen[q]]
    BY <1>1 DEF ResultsWereAnswered
  <2>1. s \in answer[<<q, r>>] /\ r \in RemotesOf[gen[q]]
    BY DEF ReadInv, ResultsWereAnswered
  <2>2. <<q, r>> \in Tasks
    BY DEF ReadInv, TypeOK, Tasks
  <2> QED
    BY <1>4, <2>1, <2>2
<1>10. HasRemote'
  BY <1>1 DEF ReadInv, HasRemote
<1>11. AloneKept'
  <2> SUFFICES ASSUME NEW u \in Tasks, NEW s \in answer'[u], u[1] \notin overlapped, Alone(u, s)'
               PROVE  \/ s \in todo'[u]
                      \/ task'[u] \in InSeries /\ it[u] = s
                      \/ InResult(u, s)
    BY <1>1 DEF AloneKept, InResult
  <2>1. CASE u = t
    BY <1>1, <2>1
  <2>2. CASE u # t
    <3>1. Alone(u, s)
      <4> SUFFICES ASSUME NEW v \in TasksOf(u[1]) \ {u} PROVE s \notin answer[v]
        BY DEF Alone
      <4>1. v \in Tasks /\ s \notin answer'[v]
        BY <1>1 DEF Alone, TasksOf
      <4> QED
        BY <1>4, <4>1
    <3> QED
      BY <1>1, <2>2, <3>1 DEF ReadInv, AloneKept
  <2> QED
    BY <2>1, <2>2
<1> QED
  BY <1>3, <1>5, <1>6, <1>7, <1>8, <1>9, <1>10, <1>11 DEF ReadInv

\* An access of the map by a goroutine that runs.
LEMMA AccessStep ==
  ASSUME ReadInv, NEW t \in Tasks, task[t] \notin {"off", "done"}, Access(t), UNCHANGED <<gen, query>>
  PROVE  /\ Overlaps' /\ overlapped' \in SUBSET Queries /\ overlapped \subseteq overlapped'
         /\ t[1] \notin overlapped' => Inserters(t) = {}
<1>1. /\ overlapped' = overlapped \cup {q \in {t[1]} : Inserters(t) # {}}
      /\ t[1] \in Queries
  BY TaskParts DEF Access
<1>2. \A p : TasksOf(p)' = TasksOf(p)
  BY DEF TasksOf
<1>3. ASSUME Inserters(t) # {}
      PROVE  query[t[1]] \in {"wait", "done"} /\ \E x, u \in TasksOf(t[1]) : x # u
  <2>1. PICK u \in Tasks : u # t /\ u[1] = t[1] /\ task[u] \in Inserting
    BY <1>3 DEF Inserters
  <2>2. t \in TasksOf(t[1]) /\ u \in TasksOf(t[1]) /\ query[t[1]] = "wait"
    BY <2>1, Running DEF Inserting
  <2> QED
    BY <2>1, <2>2
<1>4. Overlaps'
  BY <1>1, <1>2, <1>3 DEF ReadInv, Overlaps
<1> QED
  BY <1>1, <1>4 DEF ReadInv, TypeOK

LEMMA LookupInv ==
  ASSUME ReadInv, NEW t \in Tasks, NEW s \in Series, NEW o, Lookup(t, s, o)
  PROVE  ReadInv'
<1> USE DEF results, requests
<1>1. /\ \A u \in Tasks : u # t =>
            /\ task'[u] = task[u] /\ it'[u] = it[u]
            /\ todo'[u] = todo[u] /\ found'[u] = found[u]
      /\ task'[t] = IF o = None THEN "create" ELSE "append"
      /\ it'[t] = s /\ todo'[t] = todo[t] \ {s} /\ found'[t] = o
      /\ UNCHANGED <<clients, query, gen, rawQuery, sent, answer, fpToIt, remote, base,
                     crashed>>
      /\ \A p : TasksOf(p)' = TasksOf(p)
  BY DEF Lookup, ReadInv, TypeOK, TasksOf
<1>2. task[t] = "merge" /\ s \in todo[t] /\ s \in answer[t]
  BY DEF Lookup, ReadInv, Pending
<1>3. Access(t) /\ o \in Seen(t, s)
  BY DEF Lookup
<1>4. /\ Overlaps' /\ overlapped' \in SUBSET Queries /\ overlapped \subseteq overlapped'
      /\ t[1] \notin overlapped' => Inserters(t) = {}
  BY <1>1, <1>2, <1>3, AccessStep
<1>5. TypeOK'
  <2>1. o \in Owners \cup {None, Void}
    BY <1>3, TaskParts DEF Seen, ReadInv, TypeOK
  <2>2. /\ task' \in [Tasks -> {"off", "set", "request", "reply", "merge", "create",
                                "store", "clash", "append", "assign", "done"}]
        /\ it' \in [Tasks -> Series \cup {None}]
        /\ found' \in [Tasks -> Owners \cup {None, Void}]
        /\ todo' \in [Tasks -> SUBSET Series]
    BY <2>1 DEF Lookup, ReadInv, TypeOK
  <2>3. \A u \in Tasks : task'[u] \in {"append", "assign"} => found'[u] # None
    BY <1>1 DEF ReadInv, TypeOK
  <2> QED
    BY <1>1, <1>4, <2>2, <2>3 DEF ReadInv, TypeOK
<1>6. Started'
  BY <1>1, <1>2, Running, TaskParts DEF ReadInv, Started
<1>7. Pending'
  BY <1>1, <1>2 DEF ReadInv, Pending, Unanswered, InSeries
<1>8. MapEntries'
  <2>1. ASSUME NEW q \in Queries \ overlapped', NEW x \in Series, fpToIt[q][x] = Void
        PROVE  \E u \in Tasks : u[1] = q /\ task'[u] = "store" /\ it'[u] = x
    <3>1. PICK u \in Tasks : u[1] = q /\ task[u] = "store" /\ it[u] = x
      BY <1>4, <2>1 DEF ReadInv, MapEntries
    <3> QED
      BY <1>1, <1>2, <3>1
  <2>2. ASSUME t[1] \notin overlapped'
        PROVE  fpToIt[t[1]][s] = o /\ o # Void /\ o \in Owners \cup {None}
    <3>1. Inserters(t) = {}
      BY <1>4, <2>2
    <3>2. fpToIt[t[1]][s] = o
      BY <1>3, <3>1 DEF Seen
    <3>3. o # Void
      <4>1. SUFFICES ASSUME o = Void PROVE FALSE
        OBVIOUS
      <4>2. PICK u \in Tasks : u[1] = t[1] /\ task[u] = "store"
        BY <1>4, <2>2, <3>2, <4>1, TaskParts DEF ReadInv, MapEntries
      <4> QED
        BY <1>2, <3>1, <4>2 DEF Inserters, Inserting
    <3>4. fpToIt[t[1]][s] \in Owners \cup {None, Void}
      BY TaskParts DEF ReadInv, TypeOK
    <3> QED
      BY <3>2, <3>3, <3>4
  <2>3. ASSUME NEW u \in Tasks, u[1] \notin overlapped'
        PROVE  /\ task'[u] \in {"create", "store"} => fpToIt[u[1]][it'[u]] # Local
               /\ task'[u] \in {"append", "assign"} => fpToIt[u[1]][it'[u]] \in Owners
               /\ task'[u] # "clash"
    <3>1. CASE u = t
      BY <1>1, <2>2, <2>3, <3>1, ReadAssumption DEF Owners
    <3>2. CASE u # t
      BY <1>1, <1>4, <2>3, <3>2 DEF ReadInv, MapEntries
    <3> QED
      BY <3>1, <3>2
  <2> QED
    BY <1>1, <2>1, <2>3 DEF ReadInv, MapEntries
<1>9. BaseWasAnswered'
  BY <1>1 DEF ReadInv, BaseWasAnswered
<1>10. ResultsWereAnswered' /\ HasRemote'
  BY <1>1 DEF ReadInv, ResultsWereAnswered, HasRemote
<1>11. AloneKept'
  <2> SUFFICES ASSUME NEW u \in Tasks, NEW x \in answer[u], u[1] \notin overlapped, Alone(u, x)
               PROVE  \/ x \in todo'[u]
                      \/ task'[u] \in InSeries /\ it'[u] = x
                      \/ InResult(u, x)
    BY <1>1, <1>4 DEF AloneKept, Alone, InResult
  <2>1. \/ x \in todo[u]
        \/ task[u] \in InSeries /\ it[u] = x
        \/ InResult(u, x)
    BY DEF ReadInv, AloneKept
  <2> QED
    BY <1>1, <1>2, <2>1 DEF InSeries
<1> QED
  BY <1>4, <1>5, <1>6, <1>7, <1>8, <1>9, <1>10, <1>11 DEF ReadInv

LEMMA ReadRemoteInv ==
  ASSUME ReadInv, NEW t \in Tasks, ReadRemote(t)
  PROVE  ReadInv'
<1> USE DEF results, requests
<1>1. /\ \A u \in Tasks : u # t => task'[u] = task[u] /\ base'[u] = base[u]
      /\ task'[t] = "assign" /\ base'[t] = remote[t[1]][it[t]][found[t]]
      /\ UNCHANGED <<clients, query, gen, rawQuery, sent, answer, fpToIt, remote, overlapped, todo,
                     it, found, crashed>>
      /\ \A p : TasksOf(p)' = TasksOf(p)
  BY DEF ReadRemote, ReadInv, TypeOK, TasksOf
<1>2. /\ task[t] = "append" /\ it[t] \in Series /\ it[t] \in answer[t]
      /\ found[t] \in Owners
  BY DEF ReadRemote, ReadInv, Pending, InSeries, TypeOK
<1>3. TypeOK'
  <2>1. remote[t[1]][it[t]][found[t]] \in SUBSET Remotes
    BY <1>2, TaskParts DEF ReadInv, TypeOK
  <2>2. /\ task' \in [Tasks -> {"off", "set", "request", "reply", "merge", "create",
                                "store", "clash", "append", "assign", "done"}]
        /\ base' \in [Tasks -> SUBSET Remotes]
    BY <2>1 DEF ReadRemote, ReadInv, TypeOK
  <2>3. \A u \in Tasks : task'[u] \in {"append", "assign"} => found'[u] # None
    BY <1>1, <1>2 DEF ReadInv, TypeOK
  <2> QED
    BY <1>1, <2>2, <2>3 DEF ReadInv, TypeOK
<1>4. Started'
  BY <1>1, <1>2, Running, TaskParts DEF ReadInv, Started
<1>5. Pending'
  BY <1>1, <1>2 DEF ReadInv, Pending, Unanswered, InSeries
<1>6. MapEntries' /\ Overlaps'
  <2>1. \A u \in Tasks : task[u] = "store" => task'[u] = "store"
    BY <1>1, <1>2
  <2> QED
    BY <1>1, <1>2, <2>1 DEF ReadInv, MapEntries, Overlaps
<1>7. BaseWasAnswered'
  <2> SUFFICES ASSUME NEW u \in Tasks, task'[u] = "assign", NEW r \in base'[u]
               PROVE  it[u] \in answer[<<u[1], r>>] /\ r \in RemotesOf[gen[u[1]]]
    BY <1>1 DEF BaseWasAnswered
  <2>1. CASE u = t
    BY <1>1, <1>2, <2>1, TaskParts DEF ReadInv, ResultsWereAnswered
  <2>2. CASE u # t
    BY <1>1, <2>2 DEF ReadInv, BaseWasAnswered
  <2> QED
    BY <2>1, <2>2
<1>8. ResultsWereAnswered' /\ HasRemote'
  BY <1>1 DEF ReadInv, ResultsWereAnswered, HasRemote
<1>9. AloneKept'
  <2> SUFFICES ASSUME NEW u \in Tasks, NEW x \in answer[u], u[1] \notin overlapped, Alone(u, x)
               PROVE  \/ x \in todo[u]
                      \/ task'[u] \in InSeries /\ it[u] = x
                      \/ InResult(u, x)
    BY <1>1 DEF AloneKept, Alone, InResult
  <2> QED
    BY <1>1, <1>2 DEF ReadInv, AloneKept, InSeries
<1> QED
  BY <1>3, <1>4, <1>5, <1>6, <1>7, <1>8, <1>9 DEF ReadInv

\* What the two ways to merge a series have in common: goroutine t puts its
\* iterator, and others B of remotes that answered the series, into the
\* mergeIterator that the map holds for the series afterwards.
LEMMA WriteStep ==
  ASSUME ReadInv, NEW t \in Tasks, NEW o \in Owners, NEW B \in SUBSET Remotes,
         task[t] \in InSeries,
         task' = [task EXCEPT ![t] = "merge"],
         fpToIt' = [fpToIt EXCEPT ![t[1]][it[t]] = o],
         remote' = [remote EXCEPT ![t[1]][it[t]][o] = B \cup {t[2]}],
         UNCHANGED <<clients, query, gen, requests, merging, crashed>>,
         Overlaps', overlapped' \in SUBSET Queries, overlapped \subseteq overlapped',
         o # Local \/ fpToIt[t[1]][it[t]] = Local,
         \A r \in B : it[t] \in answer[<<t[1], r>>] /\ r \in RemotesOf[gen[t[1]]]
  PROVE  ReadInv'
<1> USE DEF requests, merging
<1>1. /\ it[t] \in Series /\ it[t] \in answer[t]
      /\ t[1] \in Queries /\ t[2] \in Remotes /\ t = <<t[1], t[2]>>
      /\ t \in TasksOf(t[1]) /\ t[2] \in RemotesOf[gen[t[1]]] /\ query[t[1]] = "wait"
  BY Running, TaskParts DEF ReadInv, Pending, InSeries
<1>2. /\ \A u \in Tasks : u # t => task'[u] = task[u]
      /\ task'[t] = "merge"
      /\ \A p : TasksOf(p)' = TasksOf(p)
  BY DEF ReadInv, TypeOK, TasksOf
<1>3. /\ \A q \in Queries, s \in Series :
            fpToIt'[q][s] = IF q = t[1] /\ s = it[t] THEN o ELSE fpToIt[q][s]
      /\ fpToIt' \in [Queries -> [Series -> Owners \cup {None, Void}]]
  BY <1>1 DEF ReadInv, TypeOK
<1>4. \A q \in Queries, s \in Series, w \in Owners :
         remote'[q][s][w] = IF q = t[1] /\ s = it[t] /\ w = o THEN B \cup {t[2]}
                                                            ELSE remote[q][s][w]
  BY <1>1 DEF ReadInv, TypeOK
<1>5. TypeOK'
  <2>1. B \cup {t[2]} \in SUBSET Remotes
    BY <1>1
  <2>2. remote' \in [Queries -> [Series -> [Owners -> SUBSET Remotes]]]
    BY <1>1, <2>1 DEF ReadInv, TypeOK
  <2>3. task' \in [Tasks -> {"off", "set", "request", "reply", "merge", "create",
                             "store", "clash", "append", "assign", "done"}]
    BY DEF ReadInv, TypeOK
  <2> QED
    BY <1>2, <1>3, <2>2, <2>3 DEF ReadInv, TypeOK
<1>6. Started'
  BY <1>1, <1>2, TaskParts DEF ReadInv, Started
<1>7. Pending'
  BY <1>2 DEF ReadInv, Pending, Unanswered, InSeries
<1>8. MapEntries'
  <2>1. ASSUME NEW q \in Queries, query[q] \in {"idle", "querier"}, NEW s \in Series
        PROVE  fpToIt'[q][s] = None
    BY <1>1, <1>3, <2>1 DEF ReadInv, MapEntries
  <2>2. ASSUME NEW u \in Tasks, u[1] \notin overlapped'
        PROVE  /\ task'[u] \in {"create", "store"} => fpToIt'[u[1]][it[u]] # Local
               /\ task'[u] \in {"append", "assign"} => fpToIt'[u[1]][it[u]] \in Owners
               /\ task'[u] # "clash"
    <3>1. task'[u] \in InSeries => u # t /\ it[u] \in Series /\ u[1] \in Queries
      BY <1>2, <2>2, TaskParts DEF ReadInv, Pending, InSeries
    <3>2. u[1] \notin overlapped
      BY <2>2
    <3> QED
      BY <1>2, <1>3, <3>1, <3>2 DEF ReadInv, MapEntries, InSeries
  <2>3. ASSUME NEW q \in Queries \ overlapped', NEW s \in Series, fpToIt'[q][s] = Void
        PROVE  \E u \in Tasks : u[1] = q /\ task'[u] = "store" /\ it[u] = s
    <3>1. ~(q = t[1] /\ s = it[t])
      BY <1>3, <2>3, ReadAssumption
    <3>2. PICK u \in Tasks : u[1] = q /\ task[u] = "store" /\ it[u] = s
      BY <1>3, <2>3, <3>1 DEF ReadInv, MapEntries
    <3> QED
      BY <1>2, <3>1, <3>2
  <2> QED
    BY <2>1, <2>2, <2>3 DEF MapEntries
<1>9. BaseWasAnswered'
  BY <1>2 DEF ReadInv, BaseWasAnswered
<1>10. ResultsWereAnswered'
  <2> SUFFICES ASSUME NEW q \in Queries, NEW s \in Series, NEW w \in Owners,
                      NEW r \in remote'[q][s][w]
               PROVE  s \in answer[<<q, r>>] /\ r \in RemotesOf[gen[q]]
    BY DEF ResultsWereAnswered
  <2>1. CASE q = t[1] /\ s = it[t] /\ w = o
    <3>1. r \in B \/ r = t[2]
      BY <1>4, <2>1
    <3> QED
      BY <1>1, <2>1, <3>1
  <2>2. CASE ~(q = t[1] /\ s = it[t] /\ w = o)
    BY <1>4, <2>2 DEF ReadInv, ResultsWereAnswered
  <2> QED
    BY <2>1, <2>2
<1>11. HasRemote'
  <2> SUFFICES ASSUME NEW q \in Queries, NEW s \in Series, fpToIt'[q][s] \in Remotes
               PROVE  remote'[q][s][fpToIt'[q][s]] # {}
    BY DEF HasRemote
  <2>1. CASE q = t[1] /\ s = it[t]
    <3>1. fpToIt'[q][s] = o /\ remote'[q][s][o] = B \cup {t[2]}
      BY <1>3, <1>4, <2>1
    <3> QED
      BY <3>1
  <2>2. CASE ~(q = t[1] /\ s = it[t])
    BY <1>3, <1>4, <2>2 DEF ReadInv, HasRemote, Owners
  <2> QED
    BY <2>1, <2>2
<1>12. AloneKept'
  <2> SUFFICES ASSUME NEW u \in Tasks, NEW x \in answer[u], u[1] \notin overlapped, Alone(u, x)
               PROVE  \/ x \in todo[u]
                      \/ task'[u] \in InSeries /\ it[u] = x
                      \/ InResult(u, x)'
    BY <1>2 DEF AloneKept, Alone
  <2>0. x \in Series /\ u[1] \in Queries /\ u[2] \in Remotes /\ u = <<u[1], u[2]>>
    BY TaskParts DEF ReadInv, TypeOK
  <2>1. CASE u[1] = t[1] /\ x = it[t] /\ u = t
    <3>1. fpToIt'[u[1]][x] = o /\ u[2] \in remote'[u[1]][x][o] /\ o \in Owners
      BY <1>1, <1>3, <1>4, <2>1
    <3> QED
      BY <3>1 DEF InResult
  <2>2. CASE u[1] = t[1] /\ x = it[t] /\ u # t
    BY <1>1, <2>2 DEF Alone
  <2>3. CASE ~(u[1] = t[1] /\ x = it[t])
    <3>1. \/ x \in todo[u]
          \/ task[u] \in InSeries /\ it[u] = x
          \/ InResult(u, x)
      BY DEF ReadInv, AloneKept
    <3>2. task[u] \in InSeries /\ it[u] = x => task'[u] = task[u]
      BY <1>2, <2>3
    <3>3. InResult(u, x) => InResult(u, x)'
      <4>1. fpToIt'[u[1]][x] = fpToIt[u[1]][x] /\ fpToIt[u[1]][x] \in Owners \cup {None, Void}
        BY <1>3, <2>0, <2>3 DEF ReadInv, TypeOK
      <4> QED
        BY <1>4, <2>0, <2>3, <4>1 DEF InResult
    <3> QED
      BY <3>1, <3>2, <3>3
  <2> QED
    BY <2>1, <2>2, <2>3
<1> QED
  BY <1>5, <1>6, <1>7, <1>8, <1>9, <1>10, <1>11, <1>12 DEF ReadInv

LEMMA StoreInv ==
  ASSUME ReadInv, NEW t \in Tasks, Store(t) PROVE ReadInv'
<1> DEFINE B == {}
<1>1. t[2] \in Owners /\ t[2] # Local /\ B \in SUBSET Remotes
  BY TaskParts, ReadAssumption DEF Owners
<1>2. /\ task[t] \in InSeries
      /\ task' = [task EXCEPT ![t] = "merge"]
      /\ fpToIt' = [fpToIt EXCEPT ![t[1]][it[t]] = t[2]]
      /\ UNCHANGED <<clients, query, gen, requests, overlapped, merging, crashed>>
  BY DEF Store, Inserting, InSeries
<1>3. remote' = [remote EXCEPT ![t[1]][it[t]][t[2]] = B \cup {t[2]}]
  <2>1. B \cup {t[2]} = {t[2]}
    OBVIOUS
  <2> QED
    BY <2>1 DEF Store
<1>4. \A r \in B : it[t] \in answer[<<t[1], r>>] /\ r \in RemotesOf[gen[t[1]]]
  OBVIOUS
<1>5. Overlaps' /\ overlapped' \in SUBSET Queries /\ overlapped \subseteq overlapped'
  BY <1>2 DEF ReadInv, TypeOK, Overlaps, TasksOf
<1> HIDE DEF B
<1> QED
  BY <1>1, <1>2, <1>3, <1>4, <1>5, WriteStep

LEMMA AssignInv ==
  ASSUME ReadInv, NEW t \in Tasks, Assign(t) PROVE ReadInv'
<1> DEFINE o == fpToIt[t[1]][it[t]]
<1>1. /\ task[t] \in InSeries
      /\ task' = [task EXCEPT ![t] = "merge"]
      /\ remote' = [remote EXCEPT ![t[1]][it[t]][o] = base[t] \cup {t[2]}]
      /\ UNCHANGED <<clients, query, gen, requests, merging, crashed>>
      /\ o \in Owners /\ Access(t)
  BY DEF Assign, InSeries
<1>2. it[t] \in Series /\ t[1] \in Queries
  BY <1>1, TaskParts DEF ReadInv, Pending
<1>3. o \in Owners /\ base[t] \in SUBSET Remotes
  BY <1>1 DEF ReadInv, TypeOK
<1>4. fpToIt' = [fpToIt EXCEPT ![t[1]][it[t]] = o]
  BY <1>2 DEF Assign, ReadInv, TypeOK
<1>5. \A r \in base[t] : it[t] \in answer[<<t[1], r>>] /\ r \in RemotesOf[gen[t[1]]]
  BY DEF Assign, ReadInv, BaseWasAnswered
<1>6. o # Local \/ fpToIt[t[1]][it[t]] = Local
  OBVIOUS
<1>7. Overlaps' /\ overlapped' \in SUBSET Queries /\ overlapped \subseteq overlapped'
  BY <1>1, AccessStep DEF InSeries
<1> HIDE DEF o
<1> QED
  BY <1>1, <1>3, <1>4, <1>5, <1>6, <1>7, WriteStep

\* An insert begins.
LEMMA InsertInv ==
  ASSUME ReadInv, NEW t \in Tasks, Insert(t)
  PROVE  ReadInv'
<1> USE DEF requests, merging
<1> DEFINE e == fpToIt[t[1]][it[t]]
           f == IF e = None THEN Void ELSE e
<1>1. /\ task[t] = "create" /\ it[t] \in Series /\ it[t] \in answer[t] /\ t[1] \in Queries
      /\ e \in Owners \cup {None, Void}
  BY TaskParts DEF Insert, ReadInv, Pending, InSeries, TypeOK
<1>2. /\ task' = [u \in Tasks |->
                    IF u = t THEN IF Inserters(t) # {} THEN "clash" ELSE "store"
                    ELSE IF u \in Inserters(t) THEN "clash" ELSE task[u]]
      /\ fpToIt' = [fpToIt EXCEPT ![t[1]][it[t]] = f]
      /\ Access(t)
      /\ UNCHANGED <<clients, query, gen, rawQuery, sent, answer, remote, todo, it, found, base,
                     crashed>>
  BY DEF Insert
<1>3. /\ Overlaps' /\ overlapped' \in SUBSET Queries /\ overlapped \subseteq overlapped'
      /\ t[1] \notin overlapped' => Inserters(t) = {}
  BY <1>1, <1>2, AccessStep
<1>4. /\ \A q \in Queries, s \in Series :
            fpToIt'[q][s] = IF q = t[1] /\ s = it[t] THEN f ELSE fpToIt[q][s]
      /\ fpToIt' \in [Queries -> [Series -> Owners \cup {None, Void}]]
      /\ f \in Owners \cup {Void} /\ (e \in Owners => f = e)
  BY <1>1, <1>2, ReadAssumption DEF ReadInv, TypeOK
<1> HIDE DEF f
<1>5. /\ \A u \in Inserters(t) : u \in Tasks /\ u # t /\ u[1] = t[1] /\ task[u] \in Inserting
      /\ task'[t] \in Inserting
      /\ \A u \in Tasks : u # t => task'[u] = task[u] \/ (u \in Inserters(t) /\ task'[u] = "clash")
      /\ \A p : TasksOf(p)' = TasksOf(p)
  BY <1>2 DEF Inserters, Inserting, TasksOf
<1>6. \A u \in Tasks : u[1] \notin overlapped' =>
         task'[u] = IF u = t THEN "store" ELSE task[u]
  <2>1. CASE Inserters(t) = {}
    BY <1>2, <2>1
  <2>2. CASE Inserters(t) # {}
    BY <1>2, <1>3, <1>5, <2>2
  <2> QED
    BY <2>1, <2>2
<1>7. TypeOK'
  <2>1. task' \in [Tasks -> {"off", "set", "request", "reply", "merge", "create",
                             "store", "clash", "append", "assign", "done"}]
    BY <1>2 DEF ReadInv, TypeOK
  <2>2. \A u \in Tasks : task'[u] \in {"append", "assign"} => task'[u] = task[u]
    BY <1>5 DEF Inserting
  <2> QED
    BY <1>2, <1>3, <1>4, <2>1, <2>2 DEF ReadInv, TypeOK
<1>8. Started'
  <2>1. \A u \in Tasks : /\ task'[u] # "off" => task[u] # "off"
                         /\ task'[u] # task[u] => task[u] \notin {"off", "done"}
    BY <1>1, <1>5 DEF Inserting
  <2> QED
    BY <1>2, <1>5, <2>1, TaskParts DEF ReadInv, Started
<1>9. Pending'
  <2>1. \A u \in Tasks : task'[u] = task[u] \/ (task[u] \in InSeries /\ task'[u] \in Inserting)
    BY <1>1, <1>5 DEF Inserting, InSeries
  <2> QED
    BY <1>2, <2>1 DEF ReadInv, Pending, Inserting, InSeries, Unanswered
<1>10. MapEntries'
  <2>1. ASSUME NEW q \in Queries, query[q] \in {"idle", "querier"}, NEW s \in Series
        PROVE  fpToIt'[q][s] = None
    <3>1. query[t[1]] = "wait"
      BY <1>1, Running
    <3> QED
      BY <1>4, <2>1, <3>1 DEF ReadInv, MapEntries
  <2>2. ASSUME NEW u \in Tasks, u[1] \notin overlapped'
        PROVE  /\ task'[u] \in {"create", "store"} => fpToIt'[u[1]][it[u]] # Local
               /\ task'[u] \in {"append", "assign"} => fpToIt'[u[1]][it[u]] \in Owners
               /\ task'[u] # "clash"
    <3>1. u[1] \notin overlapped /\ u[1] \in Queries
      BY <1>3, <2>2, TaskParts
    <3>2. /\ task[u] \in {"create", "store"} => fpToIt[u[1]][it[u]] # Local
          /\ task[u] \in {"append", "assign"} => fpToIt[u[1]][it[u]] \in Owners
          /\ task[u] # "clash"
      BY <3>1 DEF ReadInv, MapEntries
    <3>3. task'[u] \in InSeries => it[u] \in Series
      BY <1>1, <1>6, <2>2 DEF ReadInv, Pending, InSeries
    <3>4. task'[u] \in InSeries =>
             fpToIt'[u[1]][it[u]] = IF u[1] = t[1] /\ it[u] = it[t] THEN f ELSE fpToIt[u[1]][it[u]]
      BY <1>4, <3>1, <3>3
    <3>5. f # Local \/ e = Local
      BY ReadAssumption DEF f, Owners
    <3> QED
      BY <1>1, <1>4, <1>6, <2>2, <3>2, <3>4, <3>5 DEF InSeries
  <2>3. ASSUME NEW q \in Queries \ overlapped', NEW s \in Series, fpToIt'[q][s] = Void
        PROVE  \E u \in Tasks : u[1] = q /\ task'[u] = "store" /\ it[u] = s
    <3>1. CASE q = t[1] /\ s = it[t]
      BY <1>6, <2>3, <3>1
    <3>2. CASE ~(q = t[1] /\ s = it[t])
      <4>1. PICK u \in Tasks : u[1] = q /\ task[u] = "store" /\ it[u] = s
        BY <1>3, <1>4, <2>3, <3>2 DEF ReadInv, MapEntries
      <4> QED
        BY <1>1, <1>6, <2>3, <4>1
    <3> QED
      BY <3>1, <3>2
  <2> QED
    BY <1>2, <2>1, <2>2, <2>3 DEF MapEntries
<1>11. BaseWasAnswered'
  BY <1>2, <1>5 DEF ReadInv, BaseWasAnswered, Inserting
<1>12. ResultsWereAnswered'
  BY <1>2 DEF ReadInv, ResultsWereAnswered
<1>13. HasRemote'
  <2> SUFFICES ASSUME NEW q \in Queries, NEW s \in Series, fpToIt'[q][s] \in Remotes
               PROVE  remote[q][s][fpToIt'[q][s]] # {}
    BY <1>2 DEF HasRemote
  <2>1. fpToIt'[q][s] = fpToIt[q][s]
    BY <1>4, ReadAssumption DEF f, Owners
  <2> QED
    BY <2>1 DEF ReadInv, HasRemote
<1>14. AloneKept'
  <2> SUFFICES ASSUME NEW u \in Tasks, NEW x \in answer[u], u[1] \notin overlapped', Alone(u, x)
               PROVE  \/ x \in todo[u]
                      \/ task'[u] \in InSeries /\ it[u] = x
                      \/ InResult(u, x)'
    BY <1>2, <1>5 DEF AloneKept, Alone
  <2>1. \/ x \in todo[u]
        \/ task[u] \in InSeries /\ it[u] = x
        \/ InResult(u, x)
    BY <1>3 DEF ReadInv, AloneKept
  <2>2. task[u] \in InSeries => task'[u] \in InSeries
    BY <1>6 DEF InSeries
  <2>3. InResult(u, x) => InResult(u, x)'
    <3>1. x \in Series /\ u[1] \in Queries
      BY TaskParts DEF ReadInv, TypeOK
    <3>2. fpToIt[u[1]][x] \in Owners => fpToIt'[u[1]][x] = fpToIt[u[1]][x]
      BY <1>4, <3>1
    <3> QED
      BY <1>2, <3>2 DEF InResult
  <2> QED
    BY <2>1, <2>2, <2>3
<1> QED
  BY <1>3, <1>7, <1>8, <1>9, <1>10, <1>11, <1>12, <1>13, <1>14 DEF ReadInv

\* An entry is lost where inserts have overlapped.
LEMMA LoseInv ==
  ASSUME ReadInv, NEW t \in Tasks, NEW s \in Series, NEW o, Lose(t, s, o)
  PROVE  ReadInv'
<1> USE DEF requests, merging
<1>1. /\ task[t] = "clash" /\ o \in {None, Void} /\ t[1] \in Queries /\ query[t[1]] = "wait"
      /\ UNCHANGED <<clients, query, gen, rawQuery, sent, answer, remote, overlapped, task, todo,
                     it, found, base, crashed>>
  BY Running, TaskParts DEF Lose
<1>2. t[1] \in overlapped
  BY <1>1 DEF ReadInv, MapEntries
<1>3. /\ \A q \in Queries, x \in Series :
            fpToIt'[q][x] = IF q = t[1] /\ x = s THEN o ELSE fpToIt[q][x]
      /\ fpToIt' \in [Queries -> [Series -> Owners \cup {None, Void}]]
  BY <1>1 DEF Lose, ReadInv, TypeOK
<1>4. \A q \in Queries : q # t[1] => fpToIt'[q] = fpToIt[q]
  BY DEF Lose, ReadInv, TypeOK
<1>5. TypeOK'
  BY <1>1, <1>3 DEF ReadInv, TypeOK
<1>6. \A p : TasksOf(p)' = TasksOf(p)
  BY <1>1 DEF TasksOf
<1>7. Started' /\ Pending' /\ Overlaps'
  BY <1>1, <1>6 DEF ReadInv, Started, Pending, Overlaps
<1>8. MapEntries'
  <2>1. \A u \in Tasks : u[1] \in Queries
    BY TaskParts
  <2> QED
    BY <1>1, <1>2, <1>4, <2>1 DEF ReadInv, MapEntries
<1>9. BaseWasAnswered' /\ ResultsWereAnswered'
  BY <1>1 DEF ReadInv, BaseWasAnswered, ResultsWereAnswered
<1>10. HasRemote'
  <2> SUFFICES ASSUME NEW q \in Queries, NEW x \in Series, fpToIt'[q][x] \in Remotes
               PROVE  remote[q][x][fpToIt'[q][x]] # {}
    BY <1>1 DEF HasRemote
  <2>1. fpToIt'[q][x] = fpToIt[q][x]
    BY <1>1, <1>3, ReadAssumption DEF Owners
  <2> QED
    BY <2>1 DEF ReadInv, HasRemote
<1>11. AloneKept'
  <2> SUFFICES ASSUME NEW u \in Tasks, NEW x \in answer[u], u[1] \notin overlapped, Alone(u, x)
               PROVE  \/ x \in todo[u]
                      \/ task[u] \in InSeries /\ it[u] = x
                      \/ InResult(u, x)'
    BY <1>1, <1>6 DEF AloneKept, Alone
  <2>1. fpToIt'[u[1]] = fpToIt[u[1]]
    BY <1>2, <1>4, TaskParts
  <2> QED
    BY <1>1, <2>1 DEF ReadInv, AloneKept, InResult
<1> QED
  BY <1>5, <1>7, <1>8, <1>9, <1>10, <1>11 DEF ReadInv

-----------------------------------------------------------------------------
LEMMA ReadStepInv ==
  ASSUME ReadInv, NEW t \in Tasks, ReadStep(t) PROVE ReadInv'
BY SetRawQueryInv, RequestInv, ReplyInv, LookupInv, InsertInv, StoreInv, StoreElsewhereInv,
   ReadRemoteInv, AssignInv, MergedInv, CrashInv DEF ReadStep

LEMMA NextInv == ReadInv /\ [Next]_vars => ReadInv'
<1> SUFFICES ASSUME ReadInv, [Next]_vars PROVE ReadInv'
  OBVIOUS
<1>1. CASE ApplyConfig
  BY <1>1, ApplyConfigInv
<1>2. ASSUME NEW q \in Queries, Querier(q) \/ QueryStep(q) PROVE ReadInv'
  BY <1>2, QuerierInv, LocalFailsInv, LocalOnlyInv, FanOutInv, FanInInv DEF QueryStep
<1>3. ASSUME NEW t \in Tasks, ReadStep(t) PROVE ReadInv'
  BY <1>3, ReadStepInv
<1>4. ASSUME NEW t \in Tasks, NEW u \in Tasks, ConcurrentMapAccess(t) \/ TornRemote(t, u)
      PROVE  ReadInv'
  BY <1>4, CrashInv
<1>6. ASSUME NEW t \in Tasks, NEW s \in Series, NEW o, Lose(t, s, o) PROVE ReadInv'
  BY <1>6, LoseInv
<1>5. CASE UNCHANGED vars
  BY <1>5, UnchangedInv
<1> QED
  BY <1>1, <1>2, <1>3, <1>4, <1>5, <1>6 DEF Next, Terminated

LEMMA InvHolds == Spec => []ReadInv
BY InitInv, NextInv, PTL DEF Spec

\* The variables have their types, and a goroutine appends only to a
\* mergeIterator that its lookup has returned (no nil dereference).
THEOREM TypeCorrect == Spec => []TypeOK
<1>1. ReadInv => TypeOK
  BY DEF ReadInv
<1> QED
  BY <1>1, InvHolds, PTL

\* mergeIterator.Metric never indexes an empty list, however many goroutines
\* race for the map; and no result has a nil iterator unless they overlap.
THEOREM MetricAlwaysDefined == Spec => []MetricIsDefined
<1>1. ReadInv => MetricIsDefined
  <2> SUFFICES ASSUME ReadInv, NEW q \in Queries, NEW s \in Series
               PROVE  /\ fpToIt[q][s] \in Remotes => remote[q][s][fpToIt[q][s]] # {}
                      /\ fpToIt[q][s] = Void /\ query[q] = "done" => q \in overlapped
    BY DEF MetricIsDefined
  <2>1. ASSUME fpToIt[q][s] = Void, query[q] = "done", q \notin overlapped PROVE FALSE
    <3>1. PICK u \in Tasks : u[1] = q /\ task[u] = "store"
      BY <2>1 DEF ReadInv, MapEntries
    <3> QED
      BY <2>1, <3>1 DEF ReadInv, Started
  <2> QED
    BY <2>1 DEF ReadInv, HasRemote
<1> QED
  BY <1>1, InvHolds, PTL

\* A result holds iterators only of remotes that answered its series, and only
\* of remotes in the configuration that the query began with.
THEOREM OnlyAnswersInResult == Spec => []ResultsWereAnswered
<1>1. ReadInv => ResultsWereAnswered
  BY DEF ReadInv
<1> QED
  BY <1>1, InvHolds, PTL

\* The unlocked map loses nothing of a series that only one remote answered,
\* while no access of it overlaps with an insert.
THEOREM UncontestedSurvives == Spec => []UncontestedMerged
<1>1. ReadInv => UncontestedMerged
  <2> SUFFICES ASSUME ReadInv, NEW q \in Queries, query[q] = "done", q \notin overlapped,
                      NEW t \in TasksOf(q), NEW s \in answer[t],
                      \A u \in TasksOf(q) \ {t} : s \notin answer[u]
               PROVE  fpToIt[q][s] \in Owners /\ t[2] \in remote[q][s][fpToIt[q][s]]
    BY DEF UncontestedMerged
  <2>1. t \in Tasks /\ t[1] = q
    BY DEF TasksOf
  <2>2. Alone(t, s)
    BY <2>1 DEF Alone
  <2>3. task[t] = "done" /\ todo[t] = {}
    BY <2>1 DEF ReadInv, Started, Pending, Unanswered
  <2>4. InResult(t, s)
    BY <2>1, <2>2, <2>3 DEF ReadInv, AloneKept, InSeries
  <2> QED
    BY <2>1, <2>4 DEF InResult
<1> QED
  BY <1>1, InvHolds, PTL

\* No step replaces a local series in the map of a query, unless accesses of
\* the map overlap.
THEOREM LocalNeverReplaced == Spec => LocalStays
<1> DEFINE Stays == \A q \in Queries, s \in Series :
                       fpToIt[q][s] = Local /\ q \notin overlapped' => fpToIt'[q][s] = Local
<1>1. ASSUME ReadInv, [Next]_vars PROVE Stays
  <2> SUFFICES ASSUME NEW q \in Queries, NEW s \in Series, fpToIt[q][s] = Local,
                      q \notin overlapped'
               PROVE  fpToIt'[q][s] = Local
    OBVIOUS
  <2>1. CASE UNCHANGED fpToIt
    BY <2>1
  <2>2. ASSUME NEW p \in Queries, NEW S \in SUBSET Series, LocalOnly(p, S) \/ FanOut(p, S)
        PROVE  fpToIt'[q][s] = Local
    <3>1. query[p] = "querier" /\ (p # q => fpToIt'[q] = fpToIt[q])
      BY <1>1, <2>2 DEF LocalOnly, FanOut, ReadInv, TypeOK
    <3>2. p # q
      BY <1>1, <3>1, ReadAssumption DEF ReadInv, MapEntries, Owners
    <3> QED
      BY <3>1, <3>2
  <2>3. ASSUME NEW t \in Tasks, Store(t) PROVE fpToIt'[q][s] = Local
    <3>1. t[1] \in Queries /\ it[t] \in Series
      BY <1>1, <2>3, TaskParts DEF ReadInv, Pending, Store, Inserting, InSeries
    <3>2. fpToIt'[q][s] = IF q = t[1] /\ s = it[t] THEN t[2] ELSE fpToIt[q][s]
      BY <1>1, <2>3, <3>1 DEF Store, ReadInv, TypeOK
    <3>3. ~(q = t[1] /\ s = it[t])
      BY <1>1, <2>3 DEF ReadInv, MapEntries, Store, Inserting
    <3> QED
      BY <3>2, <3>3
  <2>4. ASSUME NEW t \in Tasks, Insert(t) PROVE fpToIt'[q][s] = Local
    <3>1. t[1] \in Queries /\ it[t] \in Series
      BY <1>1, <2>4, TaskParts DEF ReadInv, Pending, Insert, InSeries
    <3> QED
      BY <1>1, <2>4, <3>1, ReadAssumption DEF Insert, ReadInv, TypeOK, Owners
  <2>5. ASSUME NEW t \in Tasks, NEW x \in Series, NEW o, Lose(t, x, o) PROVE fpToIt'[q][s] = Local
    <3>1. t[1] \in overlapped /\ overlapped' = overlapped
      BY <1>1, <2>5 DEF Lose, ReadInv, MapEntries
    <3> QED
      BY <1>1, <2>5, <3>1, TaskParts DEF Lose, ReadInv, TypeOK
  <2> QED
    BY <1>1, <2>1, <2>2, <2>3, <2>4, <2>5 DEF Next, Terminated, vars, results, ApplyConfig,
       Querier, QueryStep, LocalFails, FanIn, ReadStep, SetRawQuery, Request, Reply, Lookup,
       StoreElsewhere, ReadRemote, Assign, NilPointer, Merged, ConcurrentMapAccess, TornRemote
<1> QED
  BY <1>1, InvHolds, PTL DEF Spec, LocalStays

-----------------------------------------------------------------------------
(***************************************************************************)
(* How far the two races reach: what violates EveryAnswerMerged and        *)
(* AnswersOwnQuestion takes two remotes, and two queries of one            *)
(* generation, respectively.                                               *)
(***************************************************************************)

\* With one remote in every configuration, the map of a query loses nothing,
\* however often the configuration is replaced while queries run: what
\* violates EveryAnswerMerged takes a second goroutine in the same query.
THEOREM SingleRemoteLosesNothing ==
  ASSUME \A g \in Gens : \A r, s \in RemotesOf[g] : r = s
  PROVE  Spec => []EveryAnswerMerged
<1>1. ReadInv /\ UncontestedMerged => EveryAnswerMerged
  <2> SUFFICES ASSUME ReadInv, UncontestedMerged, NEW q \in Queries, query[q] = "done",
                      NEW t \in TasksOf(q), NEW s \in answer[t]
               PROVE  fpToIt[q][s] \in Owners /\ t[2] \in remote[q][s][fpToIt[q][s]]
    BY DEF EveryAnswerMerged
  <2>1. gen[q] \in Gens
    BY DEF ReadInv, TypeOK
  <2>2. ASSUME NEW u \in TasksOf(q) PROVE u = t
    <3>1. /\ u = <<u[1], u[2]>> /\ u[1] = q /\ u[2] \in RemotesOf[gen[q]]
          /\ t = <<t[1], t[2]>> /\ t[1] = q /\ t[2] \in RemotesOf[gen[q]]
      BY TaskParts DEF TasksOf
    <3> QED
      BY <2>1, <3>1
  <2>3. \A u \in TasksOf(q) \ {t} : s \notin answer[u]
    BY <2>2
  <2>4. q \notin overlapped
    BY <2>2 DEF ReadInv, Overlaps
  <2> QED
    BY <2>3, <2>4 DEF UncontestedMerged
<1> QED
  BY <1>1, InvHolds, UncontestedSurvives, PTL

\* Query p has started its goroutine for client c, and p is of c's generation.
Asked(p, c) ==
  /\ p \in Queries
  /\ gen[p] = c[1]
  /\ c[2] \in RemotesOf[c[1]]
  /\ query[p] \in {"wait", "done"}

\* A request carries the parameters of one query, whole, and that query asks
\* the same remote under the same configuration: requests are mixed up only
\* between queries that share a client, never across ApplyConfig.
RequestsStayInGeneration ==
  \A t \in Tasks : task[t] \notin {"off", "set", "request"} => Asked(sent[t], Client(t))

\* The URL of a client holds the parameters of a query that has asked it.
UrlsWereAsked ==
  /\ \A c \in Gens \X Remotes : rawQuery[c] # None => Asked(rawQuery[c], c)
  /\ \A t \in Tasks : task[t] = "request" => rawQuery[Client(t)] # None

UrlInv == UrlsWereAsked /\ RequestsStayInGeneration

\* A query that has asked a client keeps its generation and goes on.
LEMMA AskedStays ==
  ASSUME ReadInv, [Next]_vars, NEW p, NEW c, Asked(p, c)
  PROVE  Asked(p, c)'
<1>1. gen'[p] = gen[p] /\ query'[p] \in {"wait", "done"}
  BY DEF Asked, ReadInv, TypeOK, Next, Terminated, vars, ApplyConfig, Querier, QueryStep,
     LocalFails, LocalOnly, FanOut, FanIn, ReadStep, SetRawQuery, Request, Reply, Lookup,
     Insert, Store, StoreElsewhere, Lose, ReadRemote, Assign, NilPointer, Merged,
     ConcurrentMapAccess, TornRemote
<1> QED
  BY <1>1 DEF Asked

\* A goroutine that runs has a client, and keeps it.
LEMMA OwnClient ==
  ASSUME ReadInv, NEW t \in Tasks, task[t] # "off"
  PROVE  Client(t) \in Gens \X Remotes /\ Asked(t[1], Client(t))
<1>1. t[1] \in Queries /\ t[2] \in Remotes /\ gen[t[1]] \in Gens
  BY TaskParts DEF ReadInv, TypeOK
<1>2. t[2] \in RemotesOf[gen[t[1]]] /\ query[t[1]] \in {"wait", "done"}
  BY DEF ReadInv, Started, TasksOf
<1> QED
  BY <1>1, <1>2 DEF Client, Asked

LEMMA ClientStays ==
  ASSUME ReadInv, [Next]_vars, NEW t \in Tasks, task[t] # "off"
  PROVE  Client(t)' = Client(t)
<1>1. Asked(t[1], Client(t))
  BY OwnClient
<1>2. ASSUME NEW d, Asked(t[1], d) PROVE gen'[t[1]] = gen[t[1]]
  BY <1>2, AskedStays DEF Asked
<1> QED
  BY <1>1, <1>2 DEF Client

LEMMA InitUrl == Init => UrlInv
BY DEF Init, UrlInv, UrlsWereAsked, RequestsStayInGeneration

LEMMA NextUrl == ReadInv /\ ReadInv' /\ UrlInv /\ [Next]_vars => UrlInv'
<1> SUFFICES ASSUME ReadInv, ReadInv', UrlInv, [Next]_vars PROVE UrlInv'
  OBVIOUS
<1>1. \A t \in Tasks : task[t] # "off" =>
         Client(t)' = Client(t) /\ Client(t) \in Gens \X Remotes
  BY OwnClient, ClientStays
\* Apart from the two steps that write rawQuery and sent, none touches either,
\* and none gives a goroutine a request that it did not have.
<1> DEFINE Quiet == /\ UNCHANGED <<rawQuery, sent>>
                    /\ \A t \in Tasks :
                          /\ task'[t] = "request" => task[t] = "request"
                          /\ task'[t] \notin {"off", "set", "request"}
                               => task[t] \notin {"off", "set", "request"}
<1>2. Quiet \/ \E t \in Tasks : SetRawQuery(t) \/ Request(t)
  <2>1. CASE UNCHANGED <<rawQuery, sent, task>>
    BY <2>1
  <2>2. ASSUME NEW q \in Queries, NEW S, FanOut(q, S) PROVE Quiet
    <3>1. task' = [t \in Tasks |-> IF t \in TasksOf(q) THEN "set" ELSE task[t]]
      BY <2>2 DEF FanOut
    <3>2. \A t \in Tasks : task'[t] = "set" \/ task'[t] = task[t]
      BY <3>1
    <3> QED
      BY <2>2, <3>2 DEF FanOut, requests
  <2>3. ASSUME NEW t \in Tasks, ReadStep(t) PROVE Quiet \/ SetRawQuery(t) \/ Request(t)
    <3>1. CASE SetRawQuery(t) \/ Request(t)
      BY <3>1
    <3>2. CASE Insert(t)
      <4>1. UNCHANGED <<rawQuery, sent>> /\ task[t] = "create"
        BY <3>2 DEF Insert, requests
      <4>2. \A u \in Tasks : /\ task'[u] # "request" \/ task'[u] = task[u]
                             /\ task'[u] # task[u] => task[u] \in {"create", "store", "clash"}
        BY <3>2, <4>1 DEF Insert, Inserters, Inserting
      <4> QED
        BY <4>1, <4>2
    <3>3. CASE NilPointer(t)
      BY <2>1, <3>3 DEF NilPointer, requests
    <3>4. CASE ~(SetRawQuery(t) \/ Request(t) \/ Insert(t) \/ NilPointer(t))
      <4>1. /\ UNCHANGED <<rawQuery, sent>>
            /\ task[t] \in {"reply", "merge", "store", "clash", "append", "assign"}
            /\ \A u \in Tasks : u # t => task'[u] = task[u]
            /\ task'[t] # "request"
        BY <2>3, <3>4 DEF ReadStep, requests, Reply, Lookup, Store, Inserting, StoreElsewhere,
           ReadRemote, Assign, Merged, ReadInv, TypeOK
      <4> QED
        BY <4>1
    <3> QED
      BY <3>1, <3>2, <3>3, <3>4
  <2> HIDE DEF Quiet
  <2> QED
    BY <2>1, <2>2, <2>3 DEF Next, Terminated, vars, requests, ApplyConfig, Querier,
       QueryStep, LocalFails, LocalOnly, FanIn, Lose, ConcurrentMapAccess, TornRemote
<1>3. CASE Quiet
  <2>1. UrlsWereAsked'
    BY <1>1, <1>3, AskedStays DEF UrlInv, UrlsWereAsked
  <2>2. RequestsStayInGeneration'
    <3> SUFFICES ASSUME NEW t \in Tasks, task'[t] \notin {"off", "set", "request"}
                 PROVE  Asked(sent[t], Client(t))'
      BY DEF RequestsStayInGeneration
    <3>1. Asked(sent[t], Client(t)) /\ Client(t)' = Client(t) /\ sent' = sent
      BY <1>1, <1>3 DEF UrlInv, RequestsStayInGeneration
    <3>2. \A p, c : Asked(p, c) => Asked(p, c)'
      BY AskedStays
    <3> QED
      BY <3>1, <3>2 DEF Asked
  <2> QED
    BY <2>1, <2>2 DEF UrlInv
<1>4. ASSUME NEW t \in Tasks, SetRawQuery(t) PROVE UrlInv'
  <2>1. /\ task[t] = "set" /\ Client(t) \in Gens \X Remotes /\ Asked(t[1], Client(t))
        /\ t[1] \in Queries
    BY <1>4, OwnClient, TaskParts DEF SetRawQuery
  <2>2. /\ rawQuery'[Client(t)] = t[1]
        /\ \A c \in Gens \X Remotes : c # Client(t) => rawQuery'[c] = rawQuery[c]
        /\ task'[t] = "request"
        /\ \A u \in Tasks : u # t => task'[u] = task[u]
        /\ sent' = sent /\ gen' = gen /\ query' = query
    BY <1>4, <2>1 DEF SetRawQuery, ReadInv, TypeOK
  <2>3. \A p, c : Asked(p, c)' <=> Asked(p, c)
    BY <2>2 DEF Asked
  <2>4. \A u \in Tasks : Client(u)' = Client(u)
    BY <2>2 DEF Client
  <2>5. UrlsWereAsked'
    <3>1. ASSUME NEW c \in Gens \X Remotes, rawQuery'[c] # None
          PROVE  Asked(rawQuery[c], c)'
      <4>1. Asked(rawQuery'[c], c)
        BY <2>1, <2>2, <3>1 DEF UrlInv, UrlsWereAsked
      <4> QED
        BY <2>2, <4>1 DEF Asked
    <3>2. ASSUME NEW u \in Tasks, task'[u] = "request" PROVE rawQuery'[Client(u)'] # None
      <4>1. Client(u)' = Client(u) /\ t[1] # None
        BY <2>1, <2>4, ReadAssumption
      <4>2. Client(u) \in Gens \X Remotes
        BY <1>1, <2>1, <2>2, <3>2
      <4> QED
        BY <2>2, <3>2, <4>1, <4>2 DEF UrlInv, UrlsWereAsked
    <3> QED
      BY <3>1, <3>2 DEF UrlsWereAsked
  <2>6. RequestsStayInGeneration'
    <3> SUFFICES ASSUME NEW u \in Tasks, task'[u] \notin {"off", "set", "request"}
                 PROVE  Asked(sent[u], Client(u))'
      BY DEF RequestsStayInGeneration
    <3>1. Asked(sent[u], Client(u))
      BY <2>2 DEF UrlInv, RequestsStayInGeneration
    <3> QED
      BY <2>2, <2>4, <3>1 DEF Asked
  <2> QED
    BY <2>5, <2>6 DEF UrlInv
<1>5. ASSUME NEW t \in Tasks, Request(t) PROVE UrlInv'
  <2>1. task[t] = "request" /\ Client(t) \in Gens \X Remotes
    BY <1>5, OwnClient DEF Request
  <2>2. /\ rawQuery' = rawQuery /\ gen' = gen /\ query' = query
        /\ sent'[t] = rawQuery[Client(t)] /\ task'[t] = "reply"
        /\ \A u \in Tasks : u # t => task'[u] = task[u] /\ sent'[u] = sent[u]
    BY <1>5, <2>1 DEF Request, ReadInv, TypeOK
  <2>3. \A u \in Tasks : Client(u)' = Client(u)
    BY <2>2 DEF Client
  <2>4. UrlsWereAsked'
    BY <2>2, <2>3 DEF UrlInv, UrlsWereAsked, Asked
  <2>5. RequestsStayInGeneration'
    <3> SUFFICES ASSUME NEW u \in Tasks, task'[u] \notin {"off", "set", "request"}
                 PROVE  Asked(sent[u], Client(u))'
      BY DEF RequestsStayInGeneration
    <3>1. Asked(sent'[u], Client(u))
      BY <2>1, <2>2 DEF UrlInv, UrlsWereAsked, RequestsStayInGeneration
    <3> QED
      BY <2>2, <2>3, <3>1 DEF Asked
  <2> QED
    BY <2>4, <2>5 DEF UrlInv
<1> QED
  BY <1>2, <1>3, <1>4, <1>5

\* A reload never mixes up the questions of two configurations, though every
\* query writes its parameters into an unlocked URL: each request carries the
\* parameters of some query of its own generation that asks the same remote.
THEOREM MixUpsShareAClient == Spec => []RequestsStayInGeneration
<1>1. UrlInv => RequestsStayInGeneration
  BY DEF UrlInv
<1> QED
  BY <1>1, InvHolds, InitUrl, NextUrl, PTL DEF Spec
=============================================================================
