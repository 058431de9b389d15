-------------------------------- MODULE API ---------------------------------
(***************************************************************************)
(* The HTTP API (web/api/v1/api.go): the handlers, the goroutines of       *)
(* proxyReq that ask the other Prometheus servers, and the merging of      *)
(* their answers.                                                          *)
(*                                                                         *)
(* The goroutines append to one slice without a lock.  bodys is captured,  *)
(* so bodys = append(bodys, body) works on it in place, a word at a time:  *)
(* pointer, length and capacity are loaded, in an order that is left to    *)
(* the compiler; if there is no room, growslice copies the elements to a   *)
(* new array, capacity and pointer are stored and the pointer is loaded    *)
(* again; then the length is stored, and only then the element.  Each is a *)
(* step here, so that the words a goroutine holds may belong to different  *)
(* states of the slice.  The copy of growslice is one step.                *)
(*                                                                         *)
(* An element is the target whose body it is, or Nil: not stored yet, or   *)
(* with words of several bodies.  A nil pointer or an index outside the    *)
(* array ends the model (crashed): the program panics or uses memory that  *)
(* is not the slice's.                                                     *)
(*                                                                         *)
(* A body is a record: json tells whether it can be unmarshalled, data is  *)
(* the list it holds, whose length also stands for numDeleted.  The proxy  *)
(* looks at neither the status of an answer nor at the request's method.   *)
(* RangeQuery has the parameters of the query handlers, TargetLabels the   *)
(* addresses that are asked.                                               *)
(*                                                                         *)
(* An operator marked as a mutant is a plausible bug in the operator after *)
(* it; Next does not use it.                                               *)
(***************************************************************************)
EXTENDS Integers, Sequences, FiniteSets

CONSTANTS
  Conns,     \* connections, each of which carries one request
  Targets,   \* the other Prometheus servers
  Bodies,    \* what they can answer
  KindsOf,   \* the requests that a connection may carry
  Nil        \* a nil pointer, an element that is no body

Body == [json: BOOLEAN, data: Seq(Int)]

ASSUME ApiAssumption == (\A b \in Bodies : b \in Body) /\ Nil \notin Targets

VARIABLES
  conn,      \* state of each connection: see Idle
  task,      \* the goroutine of proxyReq for each connection and target
  slice,     \* the words of bodys for each connection; ptr names an array
  array,     \* the array that growslice has made for a goroutine
  reg,       \* the words of bodys that a goroutine holds, and has yet to load
  raced,     \* connections where an append has begun during another
  crashed    \* a goroutine of proxyReq has panicked: the process is gone

sliceVars == <<slice, array, reg, raced>>
apiVars == <<conn, task, sliceVars, crashed>>

Words  == {"ptr", "len", "cap"}
NoBody == [json |-> FALSE, data |-> <<>>]

Idle == [state |-> "idle", kind |-> "", asked |-> {}, bodys |-> <<>>, code |-> 0, data |-> <<>>]
Off  == [pc |-> "off", body |-> NoBody]

Listing    == {"series", "targets", "alertmanagers"}
Checked    == {"label_values", "series", "drop_series"}
ProxyKinds == Listing \cup Checked

ApiInit ==
  /\ conn = [c \in Conns |-> Idle]
  /\ task = [g \in Conns \X Targets |-> Off]
  /\ slice = [c \in Conns |-> [ptr |-> Nil, len |-> 0, cap |-> 0]]
  /\ array = [g \in Conns \X Targets |-> <<>>]
  /\ reg = [g \in Conns \X Targets |-> [left |-> Words, ptr |-> Nil, len |-> 0, cap |-> 0]]
  /\ raced = {}
  /\ crashed = FALSE

-----------------------------------------------------------------------------
\* respondError: the status for a type of error.
StatusOf == [bad_data |-> 400, execution |-> 422, canceled |-> 503, timeout |-> 503,
             internal |-> 500]

\* instr, respond and respondError end the request.
Respond(c, k, status, data) ==
  conn' = [conn EXCEPT ![c] = [@ EXCEPT !.state = "done", !.kind = k, !.code = status,
                                        !.data = data]]

Arrives(c, k) == conn[c].state = "idle" /\ k \in KindsOf[c]

\* options returns neither data nor an error.
Options(c) ==
  /\ Arrives(c, "options")
  /\ Respond(c, "options", 204, <<>>)
  /\ UNCHANGED <<task, sliceVars, crashed>>

\* The errors of query and queryRange: bad parameters, or what the engine
\* fails with.  Only query tells an error of the storage from the others.
QueryErrors(k) ==
  {"bad_data", "canceled", "timeout", "execution"} \cup (IF k = "query" THEN {"internal"} ELSE {})

Query(c, k) ==
  /\ Arrives(c, k) /\ k \in {"query", "query_range"}
  /\ \E status \in {200} \cup {StatusOf[e] : e \in QueryErrors(k)} : Respond(c, k, status, <<>>)
  /\ UNCHANGED <<task, sliceVars, crashed>>

\* labelValues, series and dropSeries check their parameters first.
Reject(c, k) ==
  /\ Arrives(c, k) /\ k \in Checked
  /\ Respond(c, k, StatusOf["bad_data"], <<>>)
  /\ UNCHANGED <<task, sliceVars, crashed>>

\* proxyReq starts a goroutine for each of the targets S that getPromTargets
\* returns.
ProxyReq(c, k, S) ==
  /\ Arrives(c, k) /\ k \in ProxyKinds
  /\ conn' = [conn EXCEPT ![c] = [@ EXCEPT !.state = "wait", !.kind = k, !.asked = S]]
  /\ task' = [g \in DOMAIN task |-> IF g[1] = c /\ g[2] \in S
                                      THEN [task[g] EXCEPT !.pc = "do"] ELSE task[g]]
  /\ UNCHANGED <<sliceVars, crashed>>

-----------------------------------------------------------------------------
(***************************************************************************)
(* A goroutine of proxyReq.                                                *)
(***************************************************************************)

\* Mutant: an early return for a bad answer, without wg.Done().
DoReturns(g, body) ==
  /\ task[g].pc = "do"
  /\ task' = [task EXCEPT ![g] = [@ EXCEPT !.pc = IF body.json THEN "load" ELSE "off",
                                          !.body = body]]
  /\ UNCHANGED <<conn, sliceVars, crashed>>

\* client.Do and ioutil.ReadAll.  NewClientForTimeOut bounds the wait.
Do(g, body) ==
  /\ task[g].pc = "do"
  /\ task' = [task EXCEPT ![g] = [@ EXCEPT !.pc = "load", !.body = body]]
  /\ UNCHANGED <<conn, sliceVars, crashed>>

\* client.Do fails, as it cannot dial or the deadline has passed: resp is nil,
\* and so resp.Body panics.
DoFails(g) ==
  /\ task[g].pc = "do"
  /\ crashed' = TRUE
  /\ UNCHANGED <<conn, task, sliceVars>>

-----------------------------------------------------------------------------
(***************************************************************************)
(* bodys = append(bodys, body), by goroutine g.                            *)
(***************************************************************************)
Goto(g, from, to) == task[g].pc = from /\ task' = [task EXCEPT ![g].pc = to]

Appending(g) ==
  \/ task[g].pc \in {"append", "cap", "ptr", "reload", "len", "elem"}
  \/ task[g].pc = "load" /\ reg[g].left # Words

\* The array of connection c that p points to.
ArrayAt(c, p) == IF p = Nil THEN <<>> ELSE array[<<c, p>>]

Load(g, w) ==
  LET s    == slice[g[1]]
      left == reg[g].left \ {w}
  IN
  /\ w \in reg[g].left
  /\ Goto(g, "load", IF left = {} THEN "append" ELSE "load")
  /\ reg' = [reg EXCEPT ![g] = [left |-> left,
                                ptr |-> IF w = "ptr" THEN s.ptr ELSE reg[g].ptr,
                                len |-> IF w = "len" THEN s.len ELSE reg[g].len,
                                cap |-> IF w = "cap" THEN s.cap ELSE reg[g].cap]]
  /\ raced' = raced \cup {c \in {g[1]} : \E t \in Targets \ {g[2]} : Appending(<<c, t>>)}
  /\ UNCHANGED <<conn, slice, array, crashed>>

HasRoom(g) == reg[g].len + 1 <= reg[g].cap

\* growslice: the capacity is doubled, or what is needed if that is more.
Grow(g) ==
  LET n   == reg[g].len
      old == ArrayAt(g[1], reg[g].ptr)
      cap == IF n + 1 > 2 * reg[g].cap THEN n + 1 ELSE 2 * reg[g].cap
  IN
  /\ ~ HasRoom(g)
  /\ n <= Len(old)
  /\ Goto(g, "append", "cap")
  /\ array' = [array EXCEPT ![g] = [i \in 1 .. cap |-> IF i <= n THEN old[i] ELSE Nil]]
  /\ reg' = [reg EXCEPT ![g] = [@ EXCEPT !.ptr = g[2], !.cap = cap]]
  /\ UNCHANGED <<conn, slice, raced, crashed>>

InPlace(g) ==
  /\ HasRoom(g)
  /\ Goto(g, "append", "len")
  /\ UNCHANGED <<conn, sliceVars, crashed>>

StoreCap(g) ==
  /\ Goto(g, "cap", "ptr")
  /\ slice' = [slice EXCEPT ![g[1]].cap = reg[g].cap]
  /\ UNCHANGED <<conn, array, reg, raced, crashed>>

StorePtr(g) ==
  /\ Goto(g, "ptr", "reload")
  /\ slice' = [slice EXCEPT ![g[1]].ptr = reg[g].ptr]
  /\ UNCHANGED <<conn, array, reg, raced, crashed>>

ReloadPtr(g) ==
  /\ Goto(g, "reload", "len")
  /\ reg' = [reg EXCEPT ![g].ptr = slice[g[1]].ptr]
  /\ UNCHANGED <<conn, slice, array, raced, crashed>>

\* Mutant: the length is stored as it was.
StoreOldLen(g) ==
  /\ Goto(g, "len", "elem")
  /\ slice' = [slice EXCEPT ![g[1]].len = reg[g].len]
  /\ UNCHANGED <<conn, array, reg, raced, crashed>>

StoreLen(g) ==
  /\ Goto(g, "len", "elem")
  /\ slice' = [slice EXCEPT ![g[1]].len = reg[g].len + 1]
  /\ UNCHANGED <<conn, array, reg, raced, crashed>>

\* Another goroutine has the same element of the same array to write.
Shared(g) ==
  \E t \in Targets \ {g[2]} :
     LET h == <<g[1], t>> IN
     /\ task[h].pc \in {"elem", "done"}
     /\ reg[h].ptr = reg[g].ptr /\ reg[h].len = reg[g].len

\* The element, which has three words, so that two writers may mix theirs;
\* then wg.Done().
StoreElem(g, v) ==
  LET p == reg[g].ptr
      i == reg[g].len + 1
  IN
  /\ Goto(g, "elem", "done")
  /\ i <= Len(ArrayAt(g[1], p))
  /\ v \in IF Shared(g) THEN {g[2], ArrayAt(g[1], p)[i], Nil} ELSE {g[2]}
  /\ array' = [array EXCEPT ![<<g[1], p>>] = [@ EXCEPT ![i] = v]]
  /\ UNCHANGED <<conn, slice, reg, raced, crashed>>

\* The words do not belong together: growslice reads, or the element is written,
\* outside the array.
Faults(g) ==
  /\ \/ task[g].pc = "append" /\ ~ HasRoom(g) /\ reg[g].len > Len(ArrayAt(g[1], reg[g].ptr))
     \/ task[g].pc = "elem" /\ reg[g].len + 1 > Len(ArrayAt(g[1], reg[g].ptr))
  /\ crashed' = TRUE
  /\ UNCHANGED <<conn, task, sliceVars>>

-----------------------------------------------------------------------------
(***************************************************************************)
(* Merging the bodies, a sequence bs.                                      *)
(***************************************************************************)
Elems(s) == {s[i] : i \in 1 .. Len(s)}

Concatenated(bs) ==
  LET data[i \in 0 .. Len(bs)] == IF i = 0 THEN <<>> ELSE data[i - 1] \o bs[i].data
  IN data[Len(bs)]

\* Mutant: only the previous value is compared.
RemoveNeighbours(data) ==
  LET seen(i) == i > 1 /\ data[i - 1] = data[i]
      kept[i \in 0 .. Len(data)] ==
        IF i = 0 THEN <<>> ELSE IF seen(i) THEN kept[i - 1] ELSE Append(kept[i - 1], data[i])
  IN kept[Len(data)]

\* removeDuplicate
RemoveDuplicate(data) ==
  LET seen(i) == \E j \in 1 .. i - 1 : data[j] = data[i]
      kept[i \in 0 .. Len(data)] ==
        IF i = 0 THEN <<>> ELSE IF seen(i) THEN kept[i - 1] ELSE Append(kept[i - 1], data[i])
  IN kept[Len(data)]

\* sort.Sort: the k-th value is the one that k values are not above, where
\* equal ones keep their order.
Sorted(data) ==
  LET rank(i) == Cardinality({j \in 1 .. Len(data) :
                               data[j] < data[i] \/ (data[j] = data[i] /\ j <= i)})
  IN [k \in 1 .. Len(data) |-> data[CHOOSE i \in 1 .. Len(data) : rank(i) = k]]

\* numDeleted += res.Data.NumDeleted + numDeleted
NumDeleted(bs) ==
  LET n[i \in 0 .. Len(bs)] == IF i = 0 THEN 0 ELSE n[i - 1] + (Len(bs[i].data) + n[i - 1])
  IN n[Len(bs)]

\* What the handler of a kind of request makes of the bodies.
MergedData(k, bs) ==
  CASE k = "label_values" -> Sorted(RemoveDuplicate(Concatenated(bs)))
    [] k = "drop_series"  -> <<NumDeleted(bs)>>
    [] OTHER              -> Concatenated(bs)

BodysOf(c) ==
  [i \in DOMAIN conn[c].bodys |-> IF conn[c].bodys[i] = Nil THEN NoBody
                                 ELSE task[<<c, conn[c].bodys[i]>>].body]

\* wg.Wait() has returned.
Waited(c) ==
  /\ conn[c].state = "wait"
  /\ \A t \in conn[c].asked : task[<<c, t>>].pc = "done"

\* proxyReq returns the slice, which may still have words that do not belong
\* together.
ProxyReturns(c) ==
  LET s == slice[c]
      a == ArrayAt(c, s.ptr)
  IN
  /\ Waited(c)
  /\ IF s.len <= Len(a)
       THEN /\ conn' = [conn EXCEPT ![c] = [@ EXCEPT !.state = "merge",
                                                     !.bodys = SubSeq(a, 1, s.len)]]
            /\ UNCHANGED crashed
       ELSE crashed' = TRUE /\ UNCHANGED conn
  /\ UNCHANGED <<task, sliceVars>>

\* labelValues unmarshals into a pointer, which is nil for a body that is not
\* JSON: the handler panics, and net/http closes the connection.  The others
\* go on as if such a body were empty.  An element that is no body may have a
\* length without a pointer, and then every handler panics.
Merge(c) ==
  LET k == conn[c].kind
      bs == BodysOf(c)
      unmarshalled == k = "label_values" => \A i \in DOMAIN bs : bs[i].json
  IN
  /\ conn[c].state = "merge"
  /\ \/ /\ ~ unmarshalled \/ \E i \in DOMAIN conn[c].bodys : conn[c].bodys[i] = Nil
        /\ conn' = [conn EXCEPT ![c].state = "aborted"]
     \/ unmarshalled /\ Respond(c, k, 200, MergedData(k, bs))
  /\ UNCHANGED <<task, sliceVars, crashed>>

-----------------------------------------------------------------------------
AppendStep(g) ==
  \/ \E w \in Words : Load(g, w)
  \/ Grow(g) \/ InPlace(g)
  \/ StoreCap(g) \/ StorePtr(g) \/ ReloadPtr(g)
  \/ StoreLen(g)
  \/ \E v \in Targets \cup {Nil} : StoreElem(g, v)
  \/ Faults(g)

GoroutineStep(g) ==
  \/ \E body \in Bodies : Do(g, body)
  \/ DoFails(g)
  \/ AppendStep(g)

HandlerStep(c) == ProxyReturns(c) \/ Merge(c)

RequestStep(c) ==
  \/ Options(c)
  \/ \E k \in KindsOf[c] : Query(c, k) \/ Reject(c, k)
  \/ \E k \in KindsOf[c], S \in SUBSET Targets : ProxyReq(c, k, S)

ApiNext ==
  \/ \E c \in Conns : HandlerStep(c)
  \/ \E g \in Conns \X Targets : GoroutineStep(g)

-----------------------------------------------------------------------------
(***************************************************************************)
(* Properties.                                                             *)
(***************************************************************************)

\* However the appends of the goroutines overlap, word by word, what proxyReq
\* returns holds bodies of targets that it asked, none of them twice, and is
\* not empty if it asked any.  A body is lost, or takes an element that is no
\* body, only if appends did overlap: otherwise it returns all of them.
BodysSurvive ==
  \A c \in Conns : conn[c].state \in {"merge", "done", "aborted"} =>
     LET bodys == conn[c].bodys IN
     /\ \A i \in DOMAIN bodys : bodys[i] \in conn[c].asked \cup {Nil}
     /\ \A i, j \in DOMAIN bodys : bodys[i] = bodys[j] /\ bodys[i] # Nil => i = j
     /\ conn[c].asked # {} => bodys # <<>>
     /\ c \notin raced => Elems(bodys) = conn[c].asked

\* The number of values in all the bodies.
Total(bs) ==
  LET sum[i \in 0 .. Len(bs)] == IF i = 0 THEN 0 ELSE sum[i - 1] + Len(bs[i].data)
  IN sum[Len(bs)]

\* A response is made of all the bodies that proxyReq returned: label values
\* are in order and without duplicates; series, targets and alertmanagers
\* are the lists one after the other; the number of deleted series is never
\* less than the sum, and the sum itself if there was one body.
ResponseMerged ==
  \A c \in Conns : conn[c].state = "done" /\ conn[c].code = 200 =>
     LET bs     == BodysOf(c)
         data   == conn[c].data
         values == UNION {Elems(bs[i].data) : i \in DOMAIN bs}
     IN CASE conn[c].kind = "label_values" ->
               Elems(data) = values /\ \A i \in 1 .. Len(data) - 1 : data[i] < data[i + 1]
          [] conn[c].kind \in Listing ->
               Elems(data) = values /\ Len(data) = Total(bs)
          [] conn[c].kind = "drop_series" ->
               data[1] >= Total(bs) /\ (Len(bs) <= 1 => data[1] = Total(bs))
          [] OTHER -> TRUE
=============================================================================
