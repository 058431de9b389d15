----------------------------- MODULE RemoteRead -----------------------------
(***************************************************************************)
(* Reading from several remote storages (storage/fanin/fanin.go,           *)
(* storage/remote/read.go, Client.Read in storage/remote/client.go).       *)
(*                                                                         *)
(* A query asks the local storage first and then, in one goroutine per     *)
(* configured remote, all remotes.  Each goroutine writes the parameters   *)
(* of its query into the URL of the client, which all queries share, sends *)
(* the request, and merges the series of the answer into the map fpToIt    *)
(* of its query, which all goroutines of that query share.  Neither is     *)
(* protected by a lock, so every access is a step of its own.              *)
(*                                                                         *)
(* An insert into a Go map takes two steps: the runtime finds a slot for   *)
(* the key, and the program stores the value there.  Meanwhile the map may *)
(* grow and its entries move.  So an access of another goroutine can miss  *)
(* an entry or see it without its value; and while two inserts overlap,    *)
(* entries can be lost, of any series.                                     *)
(*                                                                         *)
(* A mergeIterator is named by who created it: Local, or the remote whose  *)
(* goroutine did; Void is a key with a nil pointer.  ApplyConfig replaces  *)
(* the clients; generation g+1 follows generation g, and a query keeps the *)
(* generation it began with.                                               *)
(*                                                                         *)
(* An operator marked as a mutant is a plausible bug in the operator after *)
(* it; Next does not use it.                                               *)
(***************************************************************************)
EXTENDS Integers, FiniteSets

CONSTANTS
  Queries,     \* concurrent queries
  Remotes,     \* remote read endpoints
  Series,      \* fingerprints
  Local,       \* creator of the mergeIterators made for local series
  None,        \* no entry, no parameters, no answer
  Void,        \* an entry whose value is nil
  RemotesOf,   \* the endpoints of each generation of the configuration
  MaxReloads   \* bound: how often ApplyConfig replaces the clients

Gens   == 0 .. MaxReloads
Owners == Remotes \cup {Local}

ASSUME ReadAssumption ==
  /\ Local \notin Remotes
  /\ None \notin Queries \cup Owners \cup Series
  /\ Void \notin Owners \cup {None}
  /\ MaxReloads \in Nat
  /\ RemotesOf \in [Gens -> SUBSET Remotes]

VARIABLES
  clients,   \* r.clients, the current generation
  rawQuery,  \* c.url.RawQuery of each client: whose parameters it holds
  query,     \* state of each query
  gen,       \* the generation whose queriers it uses
  fpToIt,    \* the mergeIterator the query's map holds for a series
  remote,    \* the remote iterators in each mergeIterator
  task,      \* state of the goroutine of each query and remote
  sent,      \* whose parameters its request carried
  answer,    \* series the remote answered with
  todo,      \* of these, the ones still to be merged
  it,        \* the one it is merging
  found,     \* what its lookup of fpToIt[fp] returned
  base,      \* the remote iterators it is about to append to
  overlapped,  \* queries whose map was accessed during an insert
  crashed    \* a fatal error or a panic has ended the process

requests == <<rawQuery, sent, answer>>
merging  == <<todo, it, found, base>>
results  == <<fpToIt, remote, overlapped>>
vars == <<clients, query, gen, requests, results, task, merging, crashed>>

Tasks == Queries \X Remotes

\* Mutant: the clients are read again when the goroutines are started.
TasksOfCurrent(q) == {t \in Tasks : t[1] = q /\ t[2] \in RemotesOf[clients]}

\* The goroutines of query q.
TasksOf(q) == {t \in Tasks : t[1] = q /\ t[2] \in RemotesOf[gen[q]]}

Client(t) == <<gen[t[1]], t[2]>>

Init ==
  /\ clients = 0
  /\ rawQuery = [c \in Gens \X Remotes |-> None]
  /\ query = [q \in Queries |-> "idle"]
  /\ gen = [q \in Queries |-> 0]
  /\ fpToIt = [q \in Queries |-> [s \in Series |-> None]]
  /\ remote = [q \in Queries |-> [s \in Series |-> [o \in Owners |-> {}]]]
  /\ task = [t \in Tasks |-> "off"]
  /\ sent = [t \in Tasks |-> None]
  /\ answer = [t \in Tasks |-> {}]
  /\ todo = [t \in Tasks |-> {}]
  /\ it = [t \in Tasks |-> None]
  /\ found = [t \in Tasks |-> None]
  /\ base = [t \in Tasks |-> {}]
  /\ overlapped = {}
  /\ crashed = FALSE

-----------------------------------------------------------------------------
\* Reader.ApplyConfig with a configuration whose clients can all be made; a
\* configuration with a client that cannot changes nothing.
ApplyConfig ==
  /\ clients < MaxReloads
  /\ clients' = clients + 1
  /\ UNCHANGED <<query, gen, requests, results, task, merging, crashed>>

\* Queryable.Querier takes the queriers of the current clients.
Querier(q) ==
  /\ query[q] = "idle"
  /\ query' = [query EXCEPT ![q] = "querier"]
  /\ gen' = [gen EXCEPT ![q] = clients]
  /\ UNCHANGED <<clients, requests, results, task, merging, crashed>>

\* qFn(q.local) fails: the query fails before a remote is asked.
LocalFails(q) ==
  /\ query[q] = "querier"
  /\ query' = [query EXCEPT ![q] = "failed"]
  /\ UNCHANGED <<clients, gen, requests, results, task, merging, crashed>>

\* qFn(q.local) answers with series S, and no remote is to be asked.
LocalOnly(q, S) ==
  /\ query[q] = "querier"
  /\ query' = [query EXCEPT ![q] = "done"]
  /\ fpToIt' = [fpToIt EXCEPT ![q] = [s \in Series |-> IF s \in S THEN Local ELSE None]]
  /\ UNCHANGED <<clients, gen, requests, remote, overlapped, task, merging, crashed>>

\* qFn(q.local) answers with series S; one goroutine per remote is started.
FanOut(q, S) ==
  /\ query[q] = "querier"
  /\ RemotesOf[gen[q]] # {}
  /\ query' = [query EXCEPT ![q] = "wait"]
  /\ fpToIt' = [fpToIt EXCEPT ![q] = [s \in Series |-> IF s \in S THEN Local ELSE None]]
  /\ task' = [t \in Tasks |-> IF t \in TasksOf(q) THEN "set" ELSE task[t]]
  /\ UNCHANGED <<clients, gen, requests, remote, overlapped, merging, crashed>>

\* wg.Wait() returns, and the map becomes the result.
FanIn(q) ==
  /\ query[q] = "wait"
  /\ \A t \in TasksOf(q) : task[t] = "done"
  /\ query' = [query EXCEPT ![q] = "done"]
  /\ UNCHANGED <<clients, gen, requests, results, task, merging, crashed>>

-----------------------------------------------------------------------------
(***************************************************************************)
(* Client.Read, in the goroutine t of a query.                             *)
(***************************************************************************)

\* c.url.RawQuery = q.Encode()
SetRawQuery(t) ==
  /\ task[t] = "set"
  /\ rawQuery' = [rawQuery EXCEPT ![Client(t)] = t[1]]
  /\ task' = [task EXCEPT ![t] = "request"]
  /\ UNCHANGED <<clients, query, gen, sent, answer, results, merging, crashed>>

\* http.NewRequest("GET", c.url.String(), ...)
Request(t) ==
  /\ task[t] = "request"
  /\ sent' = [sent EXCEPT ![t] = rawQuery[Client(t)]]
  /\ task' = [task EXCEPT ![t] = "reply"]
  /\ UNCHANGED <<clients, query, gen, rawQuery, answer, results, merging, crashed>>

\* Mutant: an early return on an error, without wg.Done().
ReplyReturns(t, S) ==
  /\ task[t] = "reply"
  /\ answer' = [answer EXCEPT ![t] = S]
  /\ todo' = [todo EXCEPT ![t] = S]
  /\ task' = [task EXCEPT ![t] = IF S = {} THEN "off" ELSE "merge"]
  /\ UNCHANGED <<clients, query, gen, rawQuery, sent, results, it, found, base,
                 crashed>>

\* The remote answers with the series S; an error, a bad status, a timeout
\* and a body that cannot be parsed are all merged as no series.
Reply(t, S) ==
  /\ task[t] = "reply"
  /\ answer' = [answer EXCEPT ![t] = S]
  /\ todo' = [todo EXCEPT ![t] = S]
  /\ task' = [task EXCEPT ![t] = "merge"]
  /\ UNCHANGED <<clients, query, gen, rawQuery, sent, results, it, found, base,
                 crashed>>

-----------------------------------------------------------------------------
(***************************************************************************)
(* mergeIterators, in the goroutine t of a query.                          *)
(***************************************************************************)

\* Between the beginning of an insert and its end; "clash" if another insert
\* of the same map has overlapped with it.
Inserting == {"store", "clash"}

\* The other goroutines of the query that are in the middle of an insert.
Inserters(t) == {u \in Tasks \ {t} : u[1] = t[1] /\ task[u] \in Inserting}

\* Goroutine t accesses the map.
Access(t) == overlapped' = overlapped \cup {q \in {t[1]} : Inserters(t) # {}}

\* What a lookup of s can return.
Seen(t, s) == {fpToIt[t[1]][s]} \cup (IF Inserters(t) # {} THEN {None, Void} ELSE {})

\* Mutant: the test of ok is the wrong way round.
LookupNotOk(t, s, o) ==
  /\ task[t] = "merge"
  /\ s \in todo[t]
  /\ o \in Seen(t, s)
  /\ it' = [it EXCEPT ![t] = s]
  /\ found' = [found EXCEPT ![t] = o]
  /\ todo' = [todo EXCEPT ![t] = @ \ {s}]
  /\ task' = [task EXCEPT ![t] = IF o = None THEN "append" ELSE "create"]
  /\ Access(t)
  /\ UNCHANGED <<clients, query, gen, requests, fpToIt, remote, base, crashed>>

\* fpIts, ok := fpToIt[fp]
Lookup(t, s, o) ==
  /\ task[t] = "merge"
  /\ s \in todo[t]
  /\ o \in Seen(t, s)
  /\ it' = [it EXCEPT ![t] = s]
  /\ found' = [found EXCEPT ![t] = o]
  /\ todo' = [todo EXCEPT ![t] = @ \ {s}]
  /\ task' = [task EXCEPT ![t] = IF o = None THEN "create" ELSE "append"]
  /\ Access(t)
  /\ UNCHANGED <<clients, query, gen, requests, fpToIt, remote, base, crashed>>

\* fpToIt[fp] = &mergeIterator{remote: []local.SeriesIterator{it}} begins: the
\* slot of the key, a new one if there is none yet.
Insert(t) ==
  LET q == t[1] IN
  /\ task[t] = "create"
  /\ fpToIt' = [fpToIt EXCEPT ![q][it[t]] = IF @ = None THEN Void ELSE @]
  /\ task' = [u \in Tasks |->
                IF u = t THEN IF Inserters(t) # {} THEN "clash" ELSE "store"
                ELSE IF u \in Inserters(t) THEN "clash" ELSE task[u]]
  /\ Access(t)
  /\ UNCHANGED <<clients, query, gen, requests, remote, merging, crashed>>

\* Mutant: the new mergeIterator is put into the map before its remote
\* iterator is put into it.
StoreEmpty(t) ==
  LET q == t[1] IN
  /\ task[t] \in Inserting
  /\ fpToIt' = [fpToIt EXCEPT ![q][it[t]] = t[2]]
  /\ found' = [found EXCEPT ![t] = t[2]]
  /\ task' = [task EXCEPT ![t] = "append"]
  /\ UNCHANGED <<clients, query, gen, requests, remote, overlapped, todo, it, base, crashed>>

\* The value is stored in the slot.
Store(t) ==
  LET q == t[1] IN
  /\ task[t] \in Inserting
  /\ fpToIt' = [fpToIt EXCEPT ![q][it[t]] = t[2]]
  /\ remote' = [remote EXCEPT ![q][it[t]][t[2]] = {t[2]}]
  /\ task' = [task EXCEPT ![t] = "merge"]
  /\ UNCHANGED <<clients, query, gen, requests, overlapped, merging, crashed>>

\* ... which is no longer a slot of the map, or has another key.
StoreElsewhere(t) ==
  /\ task[t] = "clash"
  /\ task' = [task EXCEPT ![t] = "merge"]
  /\ UNCHANGED <<clients, query, gen, requests, results, merging, crashed>>

\* Inserts that overlap move the entry of a series s over another one, or move
\* it before it has its value.
Lose(t, s, o) ==
  LET q == t[1] IN
  /\ task[t] = "clash"
  /\ fpToIt[q][s] \notin {None, o}
  /\ o \in {None, Void}
  /\ fpToIt' = [fpToIt EXCEPT ![q][s] = o]
  /\ UNCHANGED <<clients, query, gen, requests, remote, overlapped, task, merging, crashed>>

\* append(fpIts.remote, it)
ReadRemote(t) ==
  /\ task[t] = "append"
  /\ found[t] # Void
  /\ base' = [base EXCEPT ![t] = remote[t[1]][it[t]][found[t]]]
  /\ task' = [task EXCEPT ![t] = "assign"]
  /\ UNCHANGED <<clients, query, gen, requests, results, todo, it, found, crashed>>

\* Mutant: a second map entry is made instead of extending the one found.
AssignNew(t) ==
  LET q == t[1] IN
  /\ task[t] = "assign"
  /\ fpToIt' = [fpToIt EXCEPT ![q][it[t]] = t[2]]
  /\ remote' = [remote EXCEPT ![q][it[t]][t[2]] = base[t] \cup {t[2]}]
  /\ task' = [task EXCEPT ![t] = "merge"]
  /\ Access(t)
  /\ UNCHANGED <<clients, query, gen, requests, merging, crashed>>

\* fpToIt[fp].remote = ..., into whatever mergeIterator the map now holds
Assign(t) ==
  LET q == t[1]
      o == fpToIt[q][it[t]]
  IN
  /\ task[t] = "assign"
  /\ o \in Owners
  /\ remote' = [remote EXCEPT ![q][it[t]][o] = base[t] \cup {t[2]}]
  /\ task' = [task EXCEPT ![t] = "merge"]
  /\ Access(t)
  /\ UNCHANGED <<clients, query, gen, requests, fpToIt, merging, crashed>>

\* fpIts or fpToIt[fp] is nil.
NilPointer(t) ==
  /\ \/ task[t] = "append" /\ found[t] = Void
     \/ task[t] = "assign" /\ Seen(t, it[t]) \cap {None, Void} # {}
  /\ crashed' = TRUE
  /\ UNCHANGED <<clients, query, gen, requests, results, task, merging>>

\* Mutant: wg.Done() before mergeIterators has finished.
MergedEarly(t) ==
  /\ task[t] = "merge"
  /\ task' = [task EXCEPT ![t] = "done"]
  /\ UNCHANGED <<clients, query, gen, requests, results, merging, crashed>>

\* wg.Done()
Merged(t) ==
  /\ task[t] = "merge"
  /\ todo[t] = {}
  /\ task' = [task EXCEPT ![t] = "done"]
  /\ UNCHANGED <<clients, query, gen, requests, results, merging, crashed>>

\* The Go runtime may notice that a goroutine accesses the map while another
\* one is writing it, and ends the process.
ConcurrentMapAccess(t) ==
  /\ Inserters(t) # {}
  /\ task[t] \in {"create", "assign"} \/ (task[t] = "merge" /\ todo[t] # {})
  /\ crashed' = TRUE
  /\ UNCHANGED <<clients, query, gen, requests, results, task, merging>>

\* A goroutine reads the slice remote of a mergeIterator, or uses what it has
\* read, while another one assigns it, so that its words do not belong together.
TornRemote(t, u) ==
  /\ t # u /\ t[1] = u[1] /\ it[t] = it[u]
  /\ task[t] = "assign" /\ task[u] \in {"append", "assign"}
  /\ crashed' = TRUE
  /\ UNCHANGED <<clients, query, gen, requests, results, task, merging>>

-----------------------------------------------------------------------------
ReadStep(t) ==
  \/ SetRawQuery(t)
  \/ Request(t)
  \/ \E S \in SUBSET Series : Reply(t, S)
  \/ \E s \in Series, o \in Owners \cup {None, Void} : Lookup(t, s, o)
  \/ Insert(t)
  \/ Store(t)
  \/ StoreElsewhere(t)
  \/ ReadRemote(t)
  \/ Assign(t)
  \/ NilPointer(t)
  \/ Merged(t)

QueryStep(q) ==
  \/ LocalFails(q)
  \/ \E S \in SUBSET Series : LocalOnly(q, S) \/ FanOut(q, S)
  \/ FanIn(q)

Returned(q) == query[q] \in {"done", "failed"}

\* The process is dead, or every query has returned.
Terminated ==
  (crashed \/ \A q \in Queries : Returned(q)) /\ UNCHANGED vars

Next ==
  \/ /\ ~crashed
     /\ \/ ApplyConfig
        \/ \E q \in Queries : Querier(q) \/ QueryStep(q)
        \/ \E t \in Tasks : ReadStep(t)
        \/ \E t \in Tasks, s \in Series, o \in {None, Void} : Lose(t, s, o)
        \/ \E t \in Tasks : ConcurrentMapAccess(t)
        \/ \E t, u \in Tasks : TornRemote(t, u)
  \/ Terminated

\* Goroutines are scheduled, and a request ends because it has a timeout.
Fairness ==
  /\ \A q \in Queries : WF_vars(~crashed /\ QueryStep(q))
  /\ \A t \in Tasks : WF_vars(~crashed /\ ReadStep(t))

Spec == Init /\ [][Next]_vars
FairSpec == Spec /\ Fairness

-----------------------------------------------------------------------------
(***************************************************************************)
(* Properties.                                                             *)
(***************************************************************************)

\* Types of the variables; a goroutine that is about to append has found a
\* mergeIterator to append to.
TypeOK ==
  /\ clients \in Gens
  /\ rawQuery \in [Gens \X Remotes -> Queries \cup {None}]
  /\ query \in [Queries -> {"idle", "querier", "wait", "done", "failed"}]
  /\ gen \in [Queries -> Gens]
  /\ fpToIt \in [Queries -> [Series -> Owners \cup {None, Void}]]
  /\ remote \in [Queries -> [Series -> [Owners -> SUBSET Remotes]]]
  /\ task \in [Tasks -> {"off", "set", "request", "reply", "merge", "create", "store", "clash",
                         "append", "assign", "done"}]
  /\ sent \in [Tasks -> Queries \cup {None}]
  /\ answer \in [Tasks -> SUBSET Series]
  /\ todo \in [Tasks -> SUBSET Series]
  /\ it \in [Tasks -> Series \cup {None}]
  /\ found \in [Tasks -> Owners \cup {None, Void}]
  /\ base \in [Tasks -> SUBSET Remotes]
  /\ overlapped \in SUBSET Queries
  /\ crashed \in BOOLEAN
  /\ \A t \in Tasks : task[t] \in {"append", "assign"} => found[t] # None

\* "If there is no local iterator, there has to be at least one remote one"
\* (fanin.go, in mergeIterator.Metric, which indexes remote[0]): also when
\* the goroutines of a query race for the map.  And a result has an iterator
\* that is nil only if accesses of the map did overlap.
MetricIsDefined ==
  \A q \in Queries, s \in Series :
     LET o == fpToIt[q][s] IN
     /\ o \in Remotes => remote[q][s][o] # {}
     /\ o = Void /\ query[q] = "done" => q \in overlapped

\* Whatever the goroutines do to the map, a series in the result was answered
\* by every remote whose iterator it holds, and each of these remotes belongs
\* to the configuration that the query began with.
ResultsWereAnswered ==
  \A q \in Queries, s \in Series, o \in Owners : \A r \in remote[q][s][o] :
     /\ s \in answer[<<q, r>>]
     /\ r \in RemotesOf[gen[q]]

\* Unless accesses of the map overlap, no step of a goroutine takes the
\* iterator of a local series out of it: its samples take precedence over the
\* ones of every remote.
LocalStays ==
  [][\A q \in Queries, s \in Series :
        fpToIt[q][s] = Local /\ q \notin overlapped' => fpToIt'[q][s] = Local]_vars

\* Unless accesses of the map overlap, losses are confined to series that
\* several remotes answered: when a query is done, a series which only one of
\* its remotes answered is in the result, with that remote's iterator.
UncontestedMerged ==
  \A q \in Queries : query[q] = "done" /\ q \notin overlapped =>
     \A t \in TasksOf(q) : \A s \in answer[t] :
        (\A u \in TasksOf(q) \ {t} : s \notin answer[u])
           => fpToIt[q][s] \in Owners /\ t[2] \in remote[q][s][fpToIt[q][s]]

\* The comment on the goroutines of querier.query (fanin.go:99): no lock, but
\* "with fingerprint there seems to be no problem".  When a query is done, its
\* result has, for every remote, every series which that remote answered.
EveryAnswerMerged ==
  \A q \in Queries : query[q] = "done" =>
     \A t \in TasksOf(q) : \A s \in answer[t] :
        fpToIt[q][s] \in Owners /\ t[2] \in remote[q][s][fpToIt[q][s]]

\* "QueryRange returns a list of series iterators for the selected time range
\* and label matchers" (local.Querier): a request carries the parameters of
\* the query whose goroutine sends it.
AnswersOwnQuestion ==
  \A t \in Tasks : sent[t] # None => sent[t] = t[1]

\* A query returns, whatever the remotes answer or fail to answer, and
\* whatever is reloaded meanwhile.
QueryReturns ==
  \A q \in Queries : (query[q] = "wait") ~> (crashed \/ query[q] = "done")
=============================================================================
