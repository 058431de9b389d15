---------------------------- MODULE ServerProofs ----------------------------
(***************************************************************************)
(* Proofs about Server, for any number of reloads, connections and         *)
(* targets: reloadConfig leaves every reloadable that can take it with the *)
(* newest configuration; the unlocked append of proxyReq, word by word,    *)
(* cannot lose all bodies, invent one or repeat one, and loses none while  *)
(* no two appends overlap; and a response is what the bodies that were     *)
(* collected make.                                                         *)
(***************************************************************************)
EXTENDS Server, FiniteSetTheorems, WellFoundedInduction, TLAPS

Live == {"start", "ready", "select", "stop"}

\* Who runs reloadConfig, and what it has yet to do.
ReloadTypes ==
  /\ loads \in Nat
  /\ todo \in Seq(Components)
  /\ applied \in [Components -> Int]
  /\ reload \in {"idle", "main", "hup"}
  /\ main = "load" => reload = "main"
  /\ main \in Live => reload # "main" /\ loads >= 1
  /\ main = "parse" => reload = "idle"
  /\ reload = "main" => main \in {"load"} \cup Exited
  /\ reload = "hup" => main \in Live \cup Exited
  /\ reload = "idle" => todo = <<>>
  /\ todo # <<>> => loads >= 1

\* The reloadables that the loop has passed have the newest configuration or
\* have failed; while Main itself reloads, this is the first configuration.
Passed ==
  /\ main \in Live \/ todo # <<>> =>
       \A r \in Components \ Elems(todo) : applied[r] = loads - 1 \/ r \in failed
  /\ main \in Live => \A r \in Components : applied[r] >= 0

ReloadInv == ReloadTypes /\ Passed

-----------------------------------------------------------------------------
LEMMA TailElems ==
  ASSUME NEW S, NEW s \in Seq(S), s # <<>>
  PROVE  /\ Head(s) \in S
         /\ Tail(s) \in Seq(S)
         /\ Elems(s) \subseteq Elems(Tail(s)) \cup {Head(s)}
<1>1. /\ Len(s) \in Nat /\ Len(s) >= 1
      /\ Tail(s) \in Seq(S) /\ Len(Tail(s)) = Len(s) - 1
      /\ Head(s) = s[1] /\ s[1] \in S
      /\ \A i \in 1 .. Len(s) - 1 : Tail(s)[i] = s[i + 1]
  OBVIOUS
<1>2. ASSUME NEW i \in 1 .. Len(s), i # 1
      PROVE  s[i] \in Elems(Tail(s))
  <2>1. i - 1 \in 1 .. Len(Tail(s)) /\ Tail(s)[i - 1] = s[i]
    BY <1>1, <1>2
  <2> QED
    BY <2>1 DEF Elems
<1> QED
  BY <1>1, <1>2 DEF Elems

LEMMA AllReloadables ==
  Reloadables \in Seq(Components) /\ Reloadables # <<>> /\ Components \subseteq Elems(Reloadables)
<1>1. /\ Len(Reloadables) = 4
      /\ Reloadables[1] = "writer" /\ Reloadables[2] = "reader"
      /\ Reloadables[3] = "targets" /\ Reloadables[4] = "web"
  BY DEF Reloadables
<1>2. 1 \in 1 .. 4 /\ 2 \in 1 .. 4 /\ 3 \in 1 .. 4 /\ 4 \in 1 .. 4
  OBVIOUS
<1>3. Reloadables \in Seq(Components)
  BY DEF Reloadables, Components
<1>4. Components \subseteq Elems(Reloadables)
  BY <1>1, <1>2 DEF Components, Elems
<1>5. Reloadables # <<>>
  BY DEF Reloadables
<1> QED
  BY <1>3, <1>4, <1>5

LEMMA NoElems == Elems(<<>>) = {}
BY DEF Elems

\* A step of Main, of the web handler or of the API leaves reloadConfig alone.
LEMMA ReloadUntouched ==
  ASSUME ReloadInv, UNCHANGED reloadVars,
         main' = main \/ main' \in Exited
           \/ (main \in Live /\ main' \in Live)
  PROVE  ReloadInv'
BY DEF ReloadInv, ReloadTypes, Passed, reloadVars, Exited, Live

LEMMA ContinueKeeps ==
  ASSUME ReloadInv, todo # <<>>, Continue, UNCHANGED loads,
         applied' \in [Components -> Int],
         \A r \in Components :
            (r # Head(todo) => applied'[r] = applied[r]) /\ (applied[r] >= 0 => applied'[r] >= 0),
         failed \subseteq failed',
         applied'[Head(todo)] = loads - 1 \/ Head(todo) \in failed',
         ~ Ended
  PROVE  ReloadInv'
<1>1. /\ Head(todo) \in Components
      /\ todo' \in Seq(Components)
      /\ Elems(todo) \subseteq Elems(todo') \cup {Head(todo)}
  BY TailElems DEF ReloadInv, ReloadTypes, Continue
<1>2. loads >= 1 /\ loads \in Nat /\ loads' = loads
  BY DEF ReloadInv, ReloadTypes
<1>3. \A r \in Components \ Elems(todo') : applied'[r] = loads' - 1 \/ r \in failed'
  BY <1>1, <1>2 DEF ReloadInv, Passed
<1>4. main \notin Exited /\ main \in {"load"} \cup Live /\ reload # "idle"
      /\ (main = "load" <=> reload = "main")
  BY DEF ReloadInv, ReloadTypes, Ended, Exited, Live
<1>5. CASE todo' # <<>>
  <2>1. main' = main /\ reload' = reload
    BY <1>5 DEF Continue
  <2> QED
    BY <1>1, <1>2, <1>3, <1>4, <1>5, <2>1 DEF ReloadInv, ReloadTypes, Passed, Live, Exited
<1>6. CASE todo' = <<>>
  <2>1. Return(failed' # {})
    BY <1>6 DEF Continue
  <2>2. \A r \in Components : applied'[r] = loads' - 1 \/ r \in failed'
    BY <1>3, <1>6, NoElems
  <2>3. main' \in Live => \A r \in Components : applied'[r] >= 0
    <3>1. CASE reload = "hup"
      BY <3>1, <1>4, <2>1 DEF Return, ReloadInv, Passed
    <3>2. CASE reload = "main"
      BY <3>2, <1>2, <1>4, <2>1, <2>2 DEF Return, Live
    <3> QED
      BY <3>1, <3>2, <1>4 DEF ReloadInv, ReloadTypes
  <2> QED
    BY <1>1, <1>2, <1>4, <1>6, <2>1, <2>2, <2>3
    DEF ReloadInv, ReloadTypes, Passed, Return, Live, Exited
<1> QED
  BY <1>5, <1>6

LEMMA ReloadInvNext == ReloadInv /\ [Next]_vars => ReloadInv'
<1> SUFFICES ASSUME ReloadInv, [Next]_vars PROVE ReloadInv'
  OBVIOUS
<1>1. CASE UNCHANGED vars
  BY <1>1, ReloadUntouched DEF vars
<1>2. CASE ~ Ended /\ (ParseFails \/ PrintVersion \/ Killed \/ Start \/ EnterSelect \/ Leave \/ Stop)
  BY <1>2, ReloadUntouched
  DEF ParseFails, PrintVersion, Killed, Start, EnterSelect, Leave, Stop, Live, Exited
<1>3. CASE Listen \/ ServeFails \/ Serve \/ \E c \in Conns : PostReload(c) \/ Request(c)
  BY <1>3, ReloadUntouched DEF Listen, ServeFails, Serve, PostReload, Request
<1>4. CASE Parsed
  BY <1>4 DEF Parsed, ReloadInv, ReloadTypes, Passed, Live, Exited
<1>5. CASE Hup
  BY <1>5 DEF Hup, ReloadInv, ReloadTypes, Passed, Live, Exited
<1>6. CASE ~ Ended /\ LoadFails
  BY <1>6 DEF LoadFails, Return, ReloadInv, ReloadTypes, Passed, Live, Exited, Ended
<1>7. CASE ~ Ended /\ LoadFile
  BY <1>7, AllReloadables DEF LoadFile, ReloadInv, ReloadTypes, Passed, Live, Exited, Ended
<1>8. CASE ~ Ended /\ Apply
  <2>1. Head(todo) \in Components
    BY <1>8, TailElems DEF Apply, ReloadInv, ReloadTypes
  <2>2. loads - 1 \in Int /\ loads - 1 >= 0
    BY <1>8 DEF Apply, ReloadInv, ReloadTypes
  <2>3. /\ applied' \in [Components -> Int]
        /\ applied'[Head(todo)] = loads - 1
        /\ \A r \in Components : (r # Head(todo) => applied'[r] = applied[r])
                                 /\ (applied[r] >= 0 => applied'[r] >= 0)
    BY <1>8, <2>1, <2>2 DEF Apply, ReloadInv, ReloadTypes
  <2> QED
    BY <1>8, <2>3, ContinueKeeps DEF Apply
<1>9. CASE ~ Ended /\ ApplyFails
  BY <1>9, ContinueKeeps DEF ApplyFails, ReloadInv, ReloadTypes
<1> QED
  BY <1>1, <1>2, <1>3, <1>4, <1>5, <1>6, <1>7, <1>8, <1>9 DEF Next, ReloadStep

\* reloadConfig, from Main and at every SIGHUP, with any pattern of errors of
\* ApplyConfig and of the file: Server.ReloadApplies.
THEOREM ReloadsReachAll == Spec => []ReloadApplies
<1>1. Init => ReloadInv
  <2>1. <<>> \in Seq(Components)
    OBVIOUS
  <2> QED
    BY <2>1 DEF Init, ReloadInv, ReloadTypes, Passed, Live, Exited
<1>2. ReloadInv => ReloadApplies
  BY NoElems DEF ReloadInv, ReloadTypes, Passed, ReloadApplies, Live
<1> QED
  BY <1>1, <1>2, ReloadInvNext, PTL DEF Spec

-----------------------------------------------------------------------------
(***************************************************************************)
(* The bodies that proxyReq collects.                                      *)
(***************************************************************************)
Pcs == {"off", "do", "load", "append", "cap", "ptr", "reload", "len", "elem", "done"}
Elem == Targets \cup {Nil}
Goroutines == Conns \X Targets

ConnFields == {"state", "kind", "asked", "bodys", "code", "data"}

IsConn(r) == r = [f \in ConnFields |-> r[f]]

ConnTypes == conn = [c \in Conns |-> conn[c]] /\ \A c \in Conns : IsConn(conn[c])

TaskTypes == task \in [Goroutines -> [pc: Pcs, body: Body]]

SliceTypes ==
  /\ slice \in [Conns -> [ptr: Elem, len: Nat, cap: Nat]]
  /\ array \in [Goroutines -> Seq(Elem)]
  /\ reg \in [Goroutines -> [left: SUBSET Words, ptr: Elem, len: Nat, cap: Nat]]

Returned == {"merge", "done", "aborted"}

\* The targets whose goroutine has ended.
DoneOf(c) == {t \in conn[c].asked : task[<<c, t>>].pc = "done"}

\* What BodysSurvive says of one connection.
Survived(c) ==
  LET bodys == conn[c].bodys IN
  /\ \A i \in DOMAIN bodys : bodys[i] \in conn[c].asked \cup {Nil}
  /\ \A i, j \in DOMAIN bodys : bodys[i] = bodys[j] /\ bodys[i] # Nil => i = j
  /\ conn[c].asked # {} => bodys # <<>>
  /\ c \notin raced => Elems(bodys) = conn[c].asked

Collecting(c) ==
  /\ conn[c].asked \subseteq Targets
  /\ conn[c].state = "idle" => conn[c].asked = {} /\ conn[c].bodys = <<>>
  /\ conn[c].bodys \in Seq(Elem)
  /\ conn[c].state \in Returned => conn[c].asked \subseteq DoneOf(c) /\ Survived(c)

\* A goroutine works for a target that was asked, and holds no word before it
\* has begun to append.
Working(c, t) ==
  /\ task[<<c, t>>].pc # "off" => t \in conn[c].asked
  /\ task[<<c, t>>].pc \in {"off", "do"} => reg[<<c, t>>].left = Words

\* A body is where its goroutine has put it, in whatever array.
Written(c) ==
  \A t \in Targets : \A i \in 1 .. Len(array[<<c, t>>]) :
     LET u == array[<<c, t>>][i] IN
     u # Nil => u \in DoneOf(c) /\ i = reg[<<c, u>>].len + 1

\* The slice is not empty when some length has been stored.
Stored(c) ==
  \A t \in Targets : task[<<c, t>>].pc \in {"elem", "done"} => slice[c].len # 0

\* The words p, n and k make a slice that holds all the bodies so far.
Holds(c, p, n, k) ==
  /\ n <= k
  /\ IF p = Nil
       THEN k = 0 /\ DoneOf(c) = {}
       ELSE /\ Len(array[<<c, p>>]) = k
            /\ \A i \in 1 .. n : array[<<c, p>>][i] # Nil
            /\ \A u \in DoneOf(c) : \E i \in 1 .. n : array[<<c, p>>][i] = u

\* Where the one goroutine that appends is, and what it has done to the slice.
Phase(c, t) ==
  LET pc == task[<<c, t>>].pc
      r  == reg[<<c, t>>]
      s  == slice[c]
  IN
  /\ pc = "load" =>
       /\ Holds(c, s.ptr, s.len, s.cap)
       /\ "ptr" \notin r.left => r.ptr = s.ptr
       /\ "len" \notin r.left => r.len = s.len
       /\ "cap" \notin r.left => r.cap = s.cap
  /\ pc # "load" => Holds(c, r.ptr, r.len, r.cap)
  /\ pc \in {"append", "cap", "ptr", "reload", "len"} => s.len = r.len
  /\ pc = "elem" => s.len = r.len + 1
  /\ pc \in {"append", "ptr", "reload", "len", "elem"} => s.cap = r.cap
  /\ pc \in {"append", "reload", "len", "elem"} => s.ptr = r.ptr
  /\ pc \in {"cap", "ptr", "reload", "len", "elem"} => r.ptr # Nil /\ r.len + 1 <= r.cap

\* Where no append has begun during another.
Lone(c) ==
  /\ \A t, u \in Targets : Appending(<<c, t>>) /\ Appending(<<c, u>>) => t = u
  /\ \A t \in Targets : Appending(<<c, t>>) => Phase(c, t)
  /\ (\A t \in Targets : ~ Appending(<<c, t>>)) =>
        Holds(c, slice[c].ptr, slice[c].len, slice[c].cap)

Consistent(c) ==
  /\ Collecting(c)
  /\ \A t \in Targets : Working(c, t)
  /\ Written(c)
  /\ Stored(c)
  /\ c \notin raced => Lone(c)

BodysInv ==
  /\ ConnTypes
  /\ TaskTypes
  /\ SliceTypes
  /\ \A c \in Conns : Consistent(c)

-----------------------------------------------------------------------------
\* What a step of goroutine <<c, t>> leaves alone.
Frame(c, t) ==
  /\ UNCHANGED conn
  /\ \A u \in Targets \ {t} : task'[<<c, u>>] = task[<<c, u>>] /\ reg'[<<c, u>>] = reg[<<c, u>>]
  /\ \A d \in Conns \ {c} :
       /\ slice'[d] = slice[d]
       /\ d \in raced' <=> d \in raced
       /\ \A u \in Targets : /\ task'[<<d, u>>] = task[<<d, u>>]
                             /\ reg'[<<d, u>>] = reg[<<d, u>>]
                             /\ array'[<<d, u>>] = array[<<d, u>>]

\* A connection of which nothing is written.
LEMMA ConnKept ==
  ASSUME NEW d \in Conns, Consistent(d), conn'[d] = conn[d], slice'[d] = slice[d],
         d \in raced' <=> d \in raced,
         \A u \in Targets : /\ task'[<<d, u>>] = task[<<d, u>>]
                            /\ reg'[<<d, u>>] = reg[<<d, u>>]
                            /\ array'[<<d, u>>] = array[<<d, u>>],
         slice[d].ptr \in Elem, \A u \in Targets : reg[<<d, u>>].ptr \in Elem
  PROVE  Consistent(d)'
<1>1. conn[d].asked \subseteq Targets
  BY DEF Consistent, Collecting
<1>2. DoneOf(d)' = DoneOf(d)
  BY <1>1 DEF DoneOf
<1>3. Collecting(d)'
  BY <1>2 DEF Consistent, Collecting, Survived
<1>4. \A u \in Targets : Working(d, u)'
  BY DEF Consistent, Working
<1>5. Written(d)'
  <2> SUFFICES ASSUME NEW u \in Targets, NEW i \in 1 .. Len(array[<<d, u>>]),
                      array[<<d, u>>][i] # Nil
               PROVE  /\ array[<<d, u>>][i] \in DoneOf(d)
                      /\ i = reg'[<<d, array[<<d, u>>][i]>>].len + 1
    BY <1>2 DEF Written
  <2>1. /\ array[<<d, u>>][i] \in DoneOf(d)
        /\ i = reg[<<d, array[<<d, u>>][i]>>].len + 1
    BY DEF Consistent, Written
  <2> QED
    BY <1>1, <2>1 DEF DoneOf
<1>6. Stored(d)'
  BY DEF Consistent, Stored
<1>7. ASSUME d \notin raced' PROVE Lone(d)'
  <2>1. Lone(d)
    BY <1>7 DEF Consistent
  <2>2. \A u \in Targets : Appending(<<d, u>>)' <=> Appending(<<d, u>>)
    BY DEF Appending
  <2>3. ASSUME NEW p \in Elem, NEW n, NEW k, Holds(d, p, n, k) PROVE Holds(d, p, n, k)'
    BY <1>2, <2>3 DEF Holds, Elem
  <2>4. ASSUME NEW u \in Targets, Phase(d, u) PROVE Phase(d, u)'
    BY <2>3, <2>4 DEF Phase
  <2> QED
    BY <2>1, <2>2, <2>3, <2>4 DEF Lone
<1> QED
  BY <1>3, <1>4, <1>5, <1>6, <1>7 DEF Consistent

\* A step of a goroutine leaves the other connections consistent.
LEMMA OthersKept ==
  ASSUME BodysInv, NEW c \in Conns, NEW t \in Targets, Frame(c, t),
         NEW d \in Conns, d # c
  PROVE  Consistent(d)'
<1>1. Consistent(d) /\ slice[d].ptr \in Elem /\ \A u \in Targets : reg[<<d, u>>].ptr \in Elem
  BY DEF BodysInv, SliceTypes, Goroutines
<1> QED
  BY <1>1, ConnKept DEF Frame

\* The connection of a goroutine that is not through waits for it.
LEMMA Busy ==
  ASSUME BodysInv, NEW c \in Conns, NEW t \in Targets, task[<<c, t>>].pc \notin {"off", "done"}
  PROVE  /\ t \in conn[c].asked /\ t \notin DoneOf(c)
         /\ conn[c].state \notin Returned /\ conn[c].state # "idle"
<1>1. t \in conn[c].asked
  BY DEF BodysInv, Consistent, Working
<1>2. t \notin DoneOf(c)
  BY DEF DoneOf
<1> QED
  BY <1>1, <1>2 DEF BodysInv, Consistent, Collecting

\* The parts of Consistent(c) that do not depend on appends being alone, for the
\* steps of a goroutine that do not write the element.
LEMMA StepKeeps ==
  ASSUME BodysInv, NEW c \in Conns, NEW t \in Targets, Frame(c, t),
         task[<<c, t>>].pc \notin {"off", "done"},
         task'[<<c, t>>].pc \notin {"off", "do", "done"},
         \A u \in Targets : \A i \in 1 .. Len(array'[<<c, u>>]) :
            array'[<<c, u>>][i] # Nil =>
               \E w \in Targets : /\ i \in 1 .. Len(array[<<c, w>>])
                                  /\ array[<<c, w>>][i] = array'[<<c, u>>][i],
         (slice'[c].len = slice[c].len /\ task'[<<c, t>>].pc # "elem") \/ slice'[c].len # 0,
         task[<<c, t>>].pc # "elem"
  PROVE  /\ DoneOf(c)' = DoneOf(c)
         /\ Collecting(c)' /\ (\A u \in Targets : Working(c, u)') /\ Written(c)' /\ Stored(c)'
<1>1. t \in conn[c].asked /\ t \notin DoneOf(c) /\ conn[c].state \notin Returned
  BY Busy
<1>2. conn[c].asked \subseteq Targets
  BY DEF BodysInv, Consistent, Collecting
<1>3. \A u \in Targets : u # t => task'[<<c, u>>] = task[<<c, u>>] /\ reg'[<<c, u>>] = reg[<<c, u>>]
  BY DEF Frame
<1>4. DoneOf(c)' = DoneOf(c)
  BY <1>2, <1>3 DEF DoneOf, Frame
<1>5. Collecting(c)'
  BY <1>1 DEF BodysInv, Consistent, Collecting, Frame
<1>6. ASSUME NEW u \in Targets PROVE Working(c, u)'
  BY <1>1, <1>3 DEF BodysInv, Consistent, Working, Frame
<1>7. Written(c)'
  <2> SUFFICES ASSUME NEW u \in Targets, NEW i \in 1 .. Len(array'[<<c, u>>]),
                      array'[<<c, u>>][i] # Nil
               PROVE  /\ array'[<<c, u>>][i] \in DoneOf(c)
                      /\ i = reg'[<<c, array'[<<c, u>>][i]>>].len + 1
    BY <1>4 DEF Written
  <2>1. PICK w \in Targets : i \in 1 .. Len(array[<<c, w>>]) /\ array[<<c, w>>][i] = array'[<<c, u>>][i]
    OBVIOUS
  <2>2. /\ array[<<c, w>>][i] \in DoneOf(c)
        /\ i = reg[<<c, array[<<c, w>>][i]>>].len + 1
    BY <2>1 DEF BodysInv, Consistent, Written
  <2>3. array[<<c, w>>][i] \in Targets /\ array[<<c, w>>][i] # t
    BY <1>1, <1>2, <2>2 DEF DoneOf
  <2> QED
    BY <1>3, <2>1, <2>2, <2>3
<1>8. Stored(c)'
  <2>1. Stored(c)
    BY DEF BodysInv, Consistent
  <2>2. ASSUME NEW u \in Targets, task'[<<c, u>>].pc \in {"elem", "done"} PROVE slice'[c].len # 0
    <3>1. CASE u = t
      BY <2>2, <3>1
    <3>2. CASE u # t
      BY <1>3, <2>1, <2>2, <3>2 DEF Stored
    <3> QED
      BY <3>1, <3>2
  <2> QED
    BY <2>2 DEF Stored
<1> QED
  BY <1>4, <1>5, <1>6, <1>7, <1>8

\* Slices stay what they are while nothing is written.
LEMMA HoldsKept ==
  ASSUME NEW c, DoneOf(c)' = DoneOf(c), UNCHANGED array, NEW p, NEW n, NEW k
  PROVE  Holds(c, p, n, k)' <=> Holds(c, p, n, k)
BY DEF Holds

LEMMA GotoIs ==
  ASSUME TaskTypes, NEW c \in Conns, NEW t \in Targets, NEW from, NEW to \in Pcs,
         Goto(<<c, t>>, from, to)
  PROVE  /\ TaskTypes'
         /\ task[<<c, t>>].pc = from /\ task'[<<c, t>>].pc = to
         /\ \A d \in Conns, u \in Targets : task'[<<d, u>>].body = task[<<d, u>>].body
         /\ \A d \in Conns, u \in Targets : d # c \/ u # t => task'[<<d, u>>] = task[<<d, u>>]
<1>1. <<c, t>> \in Goroutines /\ task' = [task EXCEPT ![<<c, t>>].pc = to]
  BY DEF Goroutines, Goto
<1>2. \A h \in Goroutines : h # <<c, t>> => task'[h] = task[h]
  BY <1>1 DEF TaskTypes
<1>3. /\ TaskTypes'
      /\ task'[<<c, t>>].pc = to /\ task'[<<c, t>>].body = task[<<c, t>>].body
  BY <1>1 DEF TaskTypes
<1>4. \A d \in Conns, u \in Targets : d # c \/ u # t =>
         <<d, u>> \in Goroutines /\ <<d, u>> # <<c, t>>
  BY DEF Goroutines
<1> QED
  BY <1>2, <1>3, <1>4 DEF Goto

\* The goroutine that appends alone, after its step.
LEMMA OnlyOne ==
  ASSUME NEW c \in Conns, NEW t \in Targets, Frame(c, t),
         \A u \in Targets \ {t} : ~ Appending(<<c, u>>),
         Appending(<<c, t>>)', Phase(c, t)'
  PROVE  Lone(c)'
<1>1. \A u \in Targets : u # t => ~ Appending(<<c, u>>)'
  BY DEF Frame, Appending
<1> QED
  BY <1>1 DEF Lone

LEMMA LoneOthers ==
  ASSUME BodysInv, NEW c \in Conns, NEW t \in Targets, Appending(<<c, t>>), c \notin raced
  PROVE  Phase(c, t) /\ \A u \in Targets \ {t} : ~ Appending(<<c, u>>)
BY DEF BodysInv, Consistent, Lone

LEMMA LoadKeeps ==
  ASSUME BodysInv, NEW c \in Conns, NEW t \in Targets, NEW w \in Words, Load(<<c, t>>, w)
  PROVE  BodysInv'
<1> DEFINE r == reg[<<c, t>>]
           s == slice[c]
           left == r.left \ {w}
           q == IF left = {} THEN "append" ELSE "load"
           m == [left |-> left, ptr |-> IF w = "ptr" THEN s.ptr ELSE r.ptr,
                 len |-> IF w = "len" THEN s.len ELSE r.len,
                 cap |-> IF w = "cap" THEN s.cap ELSE r.cap]
<1>1. /\ w \in r.left /\ Goto(<<c, t>>, "load", q)
      /\ reg' = [reg EXCEPT ![<<c, t>>] = m]
      /\ raced' = raced \cup {d \in {c} : \E u \in Targets \ {t} : Appending(<<d, u>>)}
      /\ UNCHANGED <<conn, slice, array>>
  BY DEF Load
<1>2. /\ <<c, t>> \in Goroutines
      /\ r \in [left: SUBSET Words, ptr: Elem, len: Nat, cap: Nat]
      /\ s \in [ptr: Elem, len: Nat, cap: Nat]
  BY DEF BodysInv, SliceTypes, Goroutines
<1>3. /\ m \in [left: SUBSET Words, ptr: Elem, len: Nat, cap: Nat]
      /\ m.left = left
      /\ m.ptr = (IF w = "ptr" THEN s.ptr ELSE r.ptr)
      /\ m.len = (IF w = "len" THEN s.len ELSE r.len)
      /\ m.cap = (IF w = "cap" THEN s.cap ELSE r.cap)
  BY <1>2
<1>4. q \in Pcs /\ q \in {"append", "load"} /\ (q = "append" <=> left = {})
  BY DEF Pcs
<1> HIDE DEF m, q
<1>5. SliceTypes' /\ reg'[<<c, t>>] = m /\ \A h \in Goroutines : h # <<c, t>> => reg'[h] = reg[h]
  BY <1>1, <1>2, <1>3 DEF BodysInv, SliceTypes
<1>6. /\ TaskTypes' /\ task[<<c, t>>].pc = "load" /\ task'[<<c, t>>].pc = q
      /\ \A d \in Conns, u \in Targets : d # c \/ u # t => task'[<<d, u>>] = task[<<d, u>>]
  BY <1>1, <1>4, GotoIs DEF BodysInv
<1>7. Frame(c, t)
  BY <1>1, <1>5, <1>6 DEF Frame, Goroutines
<1>8. /\ DoneOf(c)' = DoneOf(c)
      /\ Collecting(c)' /\ (\A u \in Targets : Working(c, u)') /\ Written(c)' /\ Stored(c)'
  BY <1>1, <1>4, <1>6, <1>7, StepKeeps
<1>9. ASSUME c \notin raced' PROVE Lone(c)'
  <2>1. c \notin raced /\ \A u \in Targets \ {t} : ~ Appending(<<c, u>>)
    BY <1>1, <1>9
  <2>2. /\ Holds(c, s.ptr, s.len, s.cap)
        /\ "ptr" \notin r.left => r.ptr = s.ptr
        /\ "len" \notin r.left => r.len = s.len
        /\ "cap" \notin r.left => r.cap = s.cap
    <3>1. CASE r.left = Words
      <4>1. ~ Appending(<<c, t>>)
        BY <1>6, <3>1 DEF Appending
      <4>2. Holds(c, s.ptr, s.len, s.cap)
        BY <2>1, <4>1 DEF BodysInv, Consistent, Lone
      <4> QED
        BY <3>1, <4>2 DEF Words
    <3>2. CASE r.left # Words
      <4>1. Appending(<<c, t>>)
        BY <1>6, <3>2 DEF Appending
      <4>2. Phase(c, t)
        BY <2>1, <4>1, LoneOthers
      <4> QED
        BY <1>6, <4>2 DEF Phase
    <3> QED
      BY <3>1, <3>2
  <2>3. \A p, n, k : Holds(c, p, n, k)' <=> Holds(c, p, n, k)
    BY <1>1, <1>8, HoldsKept
  <2>4. Appending(<<c, t>>)'
    <3>1. left # Words
      BY DEF Words
    <3> QED
      BY <1>3, <1>4, <1>5, <1>6, <3>1 DEF Appending
  <2>5. Phase(c, t)'
    <3>1. slice'[c] = s
      BY <1>1
    <3>2. /\ "ptr" \notin left => m.ptr = s.ptr
          /\ "len" \notin left => m.len = s.len
          /\ "cap" \notin left => m.cap = s.cap
      BY <1>3, <2>2
    <3>3. CASE q = "load"
      BY <1>3, <1>5, <1>6, <2>2, <2>3, <3>1, <3>2, <3>3 DEF Phase
    <3>4. CASE q = "append"
      <4>1. m.ptr = s.ptr /\ m.len = s.len /\ m.cap = s.cap
        BY <1>4, <3>2, <3>4
      <4> QED
        BY <1>5, <1>6, <2>2, <2>3, <3>1, <3>4, <4>1 DEF Phase
    <3> QED
      BY <1>4, <3>3, <3>4
  <2> QED
    BY <1>7, <2>1, <2>4, <2>5, OnlyOne
<1>10. Consistent(c)'
  BY <1>8, <1>9 DEF Consistent
<1>11. \A d \in Conns : Consistent(d)'
  BY <1>7, <1>10, OthersKept
<1> QED
  BY <1>1, <1>5, <1>6, <1>11 DEF BodysInv, ConnTypes

\* What the other steps have in common: a goroutine that appends goes on to
\* append.
LEMMA AppendKeeps ==
  ASSUME BodysInv, NEW c \in Conns, NEW t \in Targets, NEW from, NEW to \in Pcs,
         Goto(<<c, t>>, from, to), UNCHANGED <<conn, raced>>, SliceTypes',
         from \in {"append", "cap", "ptr", "reload", "len"},
         to \in {"append", "cap", "ptr", "reload", "len", "elem"},
         \A d \in Conns, u \in Targets : d # c \/ u # t => reg'[<<d, u>>] = reg[<<d, u>>],
         \A d \in Conns : d # c => slice'[d] = slice[d],
         \A d \in Conns, u \in Targets : d # c => array'[<<d, u>>] = array[<<d, u>>],
         \A u \in Targets : \A i \in 1 .. Len(array'[<<c, u>>]) :
            array'[<<c, u>>][i] # Nil =>
               \E w \in Targets : /\ i \in 1 .. Len(array[<<c, w>>])
                                  /\ array[<<c, w>>][i] = array'[<<c, u>>][i],
         (slice'[c].len = slice[c].len /\ to # "elem") \/ slice'[c].len # 0,
         Phase(c, t) /\ DoneOf(c)' = DoneOf(c) => Phase(c, t)'
  PROVE  BodysInv'
<1>1. /\ TaskTypes' /\ task[<<c, t>>].pc = from /\ task'[<<c, t>>].pc = to
      /\ \A d \in Conns, u \in Targets : d # c \/ u # t => task'[<<d, u>>] = task[<<d, u>>]
  BY GotoIs DEF BodysInv
<1>2. Frame(c, t)
  BY <1>1 DEF Frame
<1>3. /\ DoneOf(c)' = DoneOf(c)
      /\ Collecting(c)' /\ (\A u \in Targets : Working(c, u)') /\ Written(c)' /\ Stored(c)'
  BY <1>1, <1>2, StepKeeps
<1>4. Appending(<<c, t>>) /\ Appending(<<c, t>>)'
  BY <1>1 DEF Appending
<1>5. ASSUME c \notin raced' PROVE Lone(c)'
  <2>1. Phase(c, t) /\ \A u \in Targets \ {t} : ~ Appending(<<c, u>>)
    BY <1>4, <1>5, LoneOthers
  <2> QED
    BY <1>2, <1>3, <1>4, <2>1, OnlyOne
<1>6. \A d \in Conns : Consistent(d)'
  BY <1>2, <1>3, <1>5, OthersKept DEF Consistent
<1> QED
  BY <1>1, <1>6 DEF BodysInv, ConnTypes

\* The words of goroutine <<c, t>> and of the slice.
LEMMA WordTypes ==
  ASSUME BodysInv, NEW c \in Conns, NEW t \in Targets
  PROVE  /\ <<c, t>> \in Goroutines
         /\ reg[<<c, t>>] \in [left: SUBSET Words, ptr: Elem, len: Nat, cap: Nat]
         /\ slice[c] \in [ptr: Elem, len: Nat, cap: Nat]
         /\ \A u \in Targets : array[<<c, u>>] \in Seq(Elem)
BY DEF BodysInv, SliceTypes, Goroutines

LEMMA InPlaceKeeps ==
  ASSUME BodysInv, NEW c \in Conns, NEW t \in Targets, InPlace(<<c, t>>)
  PROVE  BodysInv'
<1> DEFINE r == reg[<<c, t>>]
<1>1. /\ Goto(<<c, t>>, "append", "len") /\ UNCHANGED <<conn, slice, array, reg, raced>>
      /\ r.len + 1 <= r.cap
  BY DEF InPlace, HasRoom, sliceVars
<1>2. SliceTypes'
  BY <1>1 DEF BodysInv, SliceTypes
<1>3. "len" \in Pcs
  BY DEF Pcs
<1>4. /\ task[<<c, t>>].pc = "append" /\ task'[<<c, t>>].pc = "len"
      /\ slice'[c] = slice[c] /\ reg'[<<c, t>>] = r
  BY <1>1, <1>3, GotoIs DEF BodysInv
<1>5. ASSUME Phase(c, t), DoneOf(c)' = DoneOf(c) PROVE Phase(c, t)'
  <2>1. \A p, n, k : Holds(c, p, n, k)' <=> Holds(c, p, n, k)
    BY <1>1, <1>5, HoldsKept
  <2>2. r.len \in Nat /\ r.cap \in Nat
    BY WordTypes
  <2>3. Holds(c, r.ptr, r.len, r.cap)
    BY <1>4, <1>5 DEF Phase
  <2>4. r.ptr # Nil
    <3>1. r.ptr = Nil => r.cap = 0
      BY <2>3 DEF Holds
    <3> QED
      BY <1>1, <2>2, <3>1
  <2> QED
    BY <1>1, <1>4, <1>5, <2>1, <2>3, <2>4 DEF Phase
<1> QED
  BY <1>1, <1>2, <1>3, <1>5, AppendKeeps

LEMMA StoreCapKeeps ==
  ASSUME BodysInv, NEW c \in Conns, NEW t \in Targets, StoreCap(<<c, t>>)
  PROVE  BodysInv'
<1> DEFINE r == reg[<<c, t>>]
<1>1. /\ Goto(<<c, t>>, "cap", "ptr") /\ UNCHANGED <<conn, array, reg, raced>>
      /\ slice' = [slice EXCEPT ![c].cap = r.cap]
  BY DEF StoreCap
<1>2. SliceTypes' /\ \A d \in Conns : d # c => slice'[d] = slice[d]
  BY <1>1, WordTypes DEF BodysInv, SliceTypes
<1>3. "ptr" \in Pcs
  BY DEF Pcs
<1>4. /\ task[<<c, t>>].pc = "cap" /\ task'[<<c, t>>].pc = "ptr" /\ reg'[<<c, t>>] = r
  BY <1>1, <1>3, GotoIs DEF BodysInv
<1>5. slice'[c].cap = r.cap /\ slice'[c].len = slice[c].len
  BY <1>1 DEF BodysInv, SliceTypes
<1>6. ASSUME Phase(c, t), DoneOf(c)' = DoneOf(c) PROVE Phase(c, t)'
  <2>1. \A p, n, k : Holds(c, p, n, k)' <=> Holds(c, p, n, k)
    BY <1>1, <1>6, HoldsKept
  <2> QED
    BY <1>4, <1>5, <1>6, <2>1 DEF Phase
<1> QED
  BY <1>1, <1>2, <1>3, <1>5, <1>6, AppendKeeps

LEMMA StorePtrKeeps ==
  ASSUME BodysInv, NEW c \in Conns, NEW t \in Targets, StorePtr(<<c, t>>)
  PROVE  BodysInv'
<1> DEFINE r == reg[<<c, t>>]
<1>1. /\ Goto(<<c, t>>, "ptr", "reload") /\ UNCHANGED <<conn, array, reg, raced>>
      /\ slice' = [slice EXCEPT ![c].ptr = r.ptr]
  BY DEF StorePtr
<1>2. SliceTypes' /\ \A d \in Conns : d # c => slice'[d] = slice[d]
  BY <1>1, WordTypes DEF BodysInv, SliceTypes
<1>3. "reload" \in Pcs
  BY DEF Pcs
<1>4. /\ task[<<c, t>>].pc = "ptr" /\ task'[<<c, t>>].pc = "reload" /\ reg'[<<c, t>>] = r
  BY <1>1, <1>3, GotoIs DEF BodysInv
<1>5. slice'[c].ptr = r.ptr /\ slice'[c].len = slice[c].len /\ slice'[c].cap = slice[c].cap
  BY <1>1 DEF BodysInv, SliceTypes
<1>6. ASSUME Phase(c, t), DoneOf(c)' = DoneOf(c) PROVE Phase(c, t)'
  <2>1. \A p, n, k : Holds(c, p, n, k)' <=> Holds(c, p, n, k)
    BY <1>1, <1>6, HoldsKept
  <2> QED
    BY <1>4, <1>5, <1>6, <2>1 DEF Phase
<1> QED
  BY <1>1, <1>2, <1>3, <1>5, <1>6, AppendKeeps

LEMMA ReloadPtrKeeps ==
  ASSUME BodysInv, NEW c \in Conns, NEW t \in Targets, ReloadPtr(<<c, t>>)
  PROVE  BodysInv'
<1> DEFINE r == reg[<<c, t>>]
<1>1. /\ Goto(<<c, t>>, "reload", "len") /\ UNCHANGED <<conn, slice, array, raced>>
      /\ reg' = [reg EXCEPT ![<<c, t>>].ptr = slice[c].ptr]
  BY DEF ReloadPtr
<1>2. /\ SliceTypes'
      /\ reg'[<<c, t>>].ptr = slice[c].ptr
      /\ reg'[<<c, t>>].len = r.len /\ reg'[<<c, t>>].cap = r.cap
      /\ \A h \in Goroutines : h # <<c, t>> => reg'[h] = reg[h]
  BY <1>1, WordTypes DEF BodysInv, SliceTypes
<1>3. \A d \in Conns, u \in Targets : d # c \/ u # t => reg'[<<d, u>>] = reg[<<d, u>>]
  BY <1>2 DEF Goroutines
<1>4. "len" \in Pcs
  BY DEF Pcs
<1>5. task[<<c, t>>].pc = "reload" /\ task'[<<c, t>>].pc = "len" /\ slice'[c] = slice[c]
  BY <1>1, <1>4, GotoIs DEF BodysInv
<1>6. ASSUME Phase(c, t), DoneOf(c)' = DoneOf(c) PROVE Phase(c, t)'
  <2>1. \A p, n, k : Holds(c, p, n, k)' <=> Holds(c, p, n, k)
    BY <1>1, <1>6, HoldsKept
  <2> QED
    BY <1>2, <1>5, <1>6, <2>1 DEF Phase
<1> QED
  BY <1>1, <1>2, <1>3, <1>4, <1>6, AppendKeeps

LEMMA StoreLenKeeps ==
  ASSUME BodysInv, NEW c \in Conns, NEW t \in Targets, StoreLen(<<c, t>>)
  PROVE  BodysInv'
<1> DEFINE r == reg[<<c, t>>]
<1>1. /\ Goto(<<c, t>>, "len", "elem") /\ UNCHANGED <<conn, array, reg, raced>>
      /\ slice' = [slice EXCEPT ![c].len = r.len + 1]
  BY DEF StoreLen
<1>2. r.len \in Nat /\ r.len + 1 \in Nat /\ r.len + 1 # 0
  <2>1. r.len \in Nat
    BY WordTypes
  <2> QED
    BY <2>1
<1>3. SliceTypes' /\ \A d \in Conns : d # c => slice'[d] = slice[d]
  BY <1>1, <1>2 DEF BodysInv, SliceTypes
<1>4. "elem" \in Pcs
  BY DEF Pcs
<1>5. /\ task[<<c, t>>].pc = "len" /\ task'[<<c, t>>].pc = "elem" /\ reg'[<<c, t>>] = r
  BY <1>1, <1>4, GotoIs DEF BodysInv
<1>6. slice'[c].ptr = slice[c].ptr /\ slice'[c].len = r.len + 1 /\ slice'[c].cap = slice[c].cap
  BY <1>1 DEF BodysInv, SliceTypes
<1>7. ASSUME Phase(c, t), DoneOf(c)' = DoneOf(c) PROVE Phase(c, t)'
  <2>1. \A p, n, k : Holds(c, p, n, k)' <=> Holds(c, p, n, k)
    BY <1>1, <1>7, HoldsKept
  <2> QED
    BY <1>5, <1>6, <1>7, <2>1 DEF Phase
<1> QED
  BY <1>1, <1>2, <1>3, <1>4, <1>6, <1>7, AppendKeeps

LEMMA GrowKeeps ==
  ASSUME BodysInv, NEW c \in Conns, NEW t \in Targets, Grow(<<c, t>>)
  PROVE  BodysInv'
<1> DEFINE r == reg[<<c, t>>]
           n == r.len
           old == ArrayAt(c, r.ptr)
           cap == IF n + 1 > 2 * r.cap THEN n + 1 ELSE 2 * r.cap
           a == [i \in 1 .. cap |-> IF i <= n THEN old[i] ELSE Nil]
<1>1. /\ Goto(<<c, t>>, "append", "cap") /\ UNCHANGED <<conn, slice, raced>>
      /\ ~ (n + 1 <= r.cap) /\ n <= Len(old)
      /\ array' = [array EXCEPT ![<<c, t>>] = a]
      /\ reg' = [reg EXCEPT ![<<c, t>>] = [r EXCEPT !.ptr = t, !.cap = cap]]
  BY DEF Grow, HasRoom
<1>2. /\ <<c, t>> \in Goroutines /\ n \in Nat /\ r.cap \in Nat /\ r.ptr \in Elem
      /\ r \in [left: SUBSET Words, ptr: Elem, len: Nat, cap: Nat]
      /\ \A u \in Targets : array[<<c, u>>] \in Seq(Elem)
  BY WordTypes
<1>3. cap \in Nat /\ n + 1 <= cap
  BY <1>2
<1>4. /\ old \in Seq(Elem)
      /\ r.ptr # Nil => r.ptr \in Targets /\ old = array[<<c, r.ptr>>]
      /\ r.ptr = Nil => old = <<>>
  BY <1>2 DEF ArrayAt, Elem
<1> HIDE DEF old, cap
<1>5. n <= Len(old) /\ Len(old) \in Nat /\ (r.ptr = Nil => n = 0)
  <2>1. n <= Len(old) /\ Len(old) \in Nat
    BY <1>1, <1>4
  <2>2. ASSUME r.ptr = Nil PROVE n = 0
    <3>1. Len(old) = 0
      BY <1>4, <2>2
    <3> QED
      BY <1>2, <2>1, <3>1
  <2> QED
    BY <2>1, <2>2
<1> HIDE DEF n
<1>6. (\A i \in 1 .. n : old[i] \in Elem) /\ \A i \in 1 .. n : i \in 1 .. cap
  <2>1. \A i \in 1 .. n : i \in 1 .. Len(old) /\ i \in 1 .. cap
    BY <1>2, <1>3, <1>5
  <2> QED
    BY <1>4, <2>1
<1>7. a \in [1 .. cap -> Elem]
  BY <1>2, <1>3, <1>6 DEF Elem
<1>8. a \in Seq(Elem) /\ Len(a) = cap /\ (\A i \in 1 .. cap : a[i] = IF i <= n THEN old[i] ELSE Nil)
  BY <1>3, <1>7
<1> HIDE DEF a
<1>9. /\ SliceTypes'
      /\ reg'[<<c, t>>].ptr = t /\ reg'[<<c, t>>].len = n /\ reg'[<<c, t>>].cap = cap
      /\ \A h \in Goroutines : h # <<c, t>> => reg'[h] = reg[h] /\ array'[h] = array[h]
      /\ array'[<<c, t>>] = a
  <2>1. t \in Elem
    BY DEF Elem
  <2> QED
    BY <1>1, <1>2, <1>3, <1>8, <2>1 DEF BodysInv, SliceTypes, n
<1>10. /\ \A d \in Conns, u \in Targets : d # c \/ u # t => reg'[<<d, u>>] = reg[<<d, u>>]
       /\ \A d \in Conns, u \in Targets : d # c \/ u # t => array'[<<d, u>>] = array[<<d, u>>]
  BY <1>9 DEF Goroutines
<1>11. ASSUME NEW u \in Targets, NEW i \in 1 .. Len(array'[<<c, u>>]), array'[<<c, u>>][i] # Nil
       PROVE  \E w \in Targets : /\ i \in 1 .. Len(array[<<c, w>>])
                                 /\ array[<<c, w>>][i] = array'[<<c, u>>][i]
  <2>1. CASE u # t
    BY <1>10, <1>11, <2>1
  <2>2. CASE u = t
    <3>1. i \in 1 .. cap /\ a[i] # Nil
      BY <1>8, <1>9, <1>11, <2>2
    <3>2. i <= n /\ a[i] = old[i]
      BY <1>8, <3>1
    <3>3. r.ptr # Nil
      BY <1>2, <1>5, <3>1, <3>2
    <3>4. i \in 1 .. Len(old)
      BY <1>2, <1>5, <3>1, <3>2
    <3> QED
      BY <1>4, <1>9, <2>2, <3>2, <3>3, <3>4
  <2> QED
    BY <2>1, <2>2
<1>12. "cap" \in Pcs
  BY DEF Pcs
<1>13. task[<<c, t>>].pc = "append" /\ task'[<<c, t>>].pc = "cap" /\ slice'[c] = slice[c]
  BY <1>1, <1>12, GotoIs DEF BodysInv
<1>14. ASSUME Phase(c, t), DoneOf(c)' = DoneOf(c) PROVE Phase(c, t)'
  <2>1. Holds(c, r.ptr, n, r.cap) /\ slice[c].len = n
    BY <1>13, <1>14 DEF Phase, n
  <2>2. t # Nil
    BY ApiAssumption
  <2>3. \A i \in 1 .. n : a[i] = old[i]
    BY <1>2, <1>6, <1>8
  <2>4. Holds(c, r.ptr, r.len, r.cap)'
    <3>1. CASE r.ptr = Nil
      <4>1. DoneOf(c) = {} /\ n = 0
        BY <1>5, <2>1, <3>1 DEF Holds
      <4>2. n <= cap /\ (1 .. n) = {}
        BY <1>3, <4>1
      <4> QED
        BY <1>8, <1>9, <1>14, <2>2, <4>1, <4>2 DEF Holds
    <3>2. CASE r.ptr # Nil
      <4>1. /\ \A i \in 1 .. n : old[i] # Nil
            /\ \A u \in DoneOf(c) : \E i \in 1 .. n : old[i] = u
        BY <1>4, <2>1, <3>2 DEF Holds
      <4>2. n <= cap
        BY <1>2, <1>3
      <4>3. \A u \in DoneOf(c) : \E i \in 1 .. n : a[i] = u
        BY <2>3, <4>1
      <4>4. \A i \in 1 .. n : a[i] # Nil
        BY <2>3, <4>1
      <4> QED
        BY <1>8, <1>9, <1>14, <2>2, <4>2, <4>3, <4>4 DEF Holds
    <3> QED
      BY <3>1, <3>2
  <2> QED
    BY <1>3, <1>9, <1>13, <2>1, <2>2, <2>4 DEF Phase
<1>15. \A u \in Targets : \A i \in 1 .. Len(array'[<<c, u>>]) :
          array'[<<c, u>>][i] # Nil =>
             \E w \in Targets : /\ i \in 1 .. Len(array[<<c, w>>])
                                /\ array[<<c, w>>][i] = array'[<<c, u>>][i]
  BY <1>11
<1>16. Goto(<<c, t>>, "append", "cap") /\ UNCHANGED <<conn, raced>> /\ UNCHANGED slice
  BY <1>1
<1> QED
  BY <1>9, <1>10, <1>12, <1>14, <1>15, <1>16, AppendKeeps
\* The element of goroutine <<c, t>> is of an array of the connection, and
\* nobody else writes it if no append has overlapped.
LEMMA ElemIs ==
  ASSUME BodysInv, NEW c \in Conns, NEW t \in Targets, NEW v, StoreElem(<<c, t>>, v)
  PROVE  LET r == reg[<<c, t>>]
             a == array[<<c, r.ptr>>]
         IN /\ r.ptr \in Targets /\ r.len + 1 \in 1 .. Len(a)
            /\ v \in {t, a[r.len + 1], Nil}
            /\ c \notin raced => v = t
<1> DEFINE r == reg[<<c, t>>]
           a == array[<<c, r.ptr>>]
<1>1. /\ Goto(<<c, t>>, "elem", "done")
      /\ r.len + 1 <= Len(ArrayAt(c, r.ptr))
      /\ v \in IF Shared(<<c, t>>) THEN {t, ArrayAt(c, r.ptr)[r.len + 1], Nil} ELSE {t}
      /\ array' = [array EXCEPT ![<<c, r.ptr>>] = [a EXCEPT ![r.len + 1] = v]]
  BY DEF StoreElem
<1>2. r.len \in Nat /\ r.ptr \in Elem
  BY WordTypes
<1>3. r.ptr # Nil
  <2>1. ArrayAt(c, Nil) = <<>> /\ Len(<<>>) = 0
    BY DEF ArrayAt
  <2>2. ~ (r.len + 1 <= 0)
    BY <1>2
  <2> QED
    BY <1>1, <2>1, <2>2
<1>4. r.ptr \in Targets /\ ArrayAt(c, r.ptr) = a
  BY <1>2, <1>3 DEF Elem, ArrayAt
<1>5. a \in Seq(Elem)
  BY <1>4, WordTypes
<1>6. r.len + 1 \in 1 .. Len(a)
  <2>1. Len(a) \in Nat /\ r.len + 1 <= Len(a)
    BY <1>1, <1>4, <1>5
  <2> QED
    BY <1>2, <2>1
<1>7. v \in {t, a[r.len + 1], Nil}
  BY <1>1, <1>4
<1>8. ASSUME c \notin raced PROVE v = t
  <2>1. task[<<c, t>>].pc = "elem"
    BY <1>1 DEF Goto
  <2>2. Appending(<<c, t>>)
    BY <2>1 DEF Appending
  <2>3. Phase(c, t) /\ \A u \in Targets \ {t} : ~ Appending(<<c, u>>)
    BY <1>8, <2>2, LoneOthers
  <2>4. Holds(c, r.ptr, r.len, r.cap)
    BY <2>1, <2>3 DEF Phase
  <2>5. ASSUME NEW u \in Targets \ {t}, task[<<c, u>>].pc \in {"elem", "done"},
               reg[<<c, u>>].len = r.len
        PROVE  FALSE
    <3>1. task[<<c, u>>].pc = "done"
      BY <2>3, <2>5 DEF Appending
    <3>2. u \in DoneOf(c)
      BY <3>1 DEF DoneOf, BodysInv, Consistent, Working
    <3>3. PICK j \in 1 .. r.len : a[j] = u
      BY <1>3, <2>4, <3>2 DEF Holds
    <3>4. j \in 1 .. Len(a) /\ u # Nil
      BY <1>2, <1>5, <1>6, ApiAssumption
    <3>5. j = reg[<<c, u>>].len + 1
      BY <1>4, <3>3, <3>4 DEF BodysInv, Consistent, Written
    <3> QED
      BY <1>2, <2>5, <3>5
  <2>6. ~ Shared(<<c, t>>)
    BY <2>5 DEF Shared
  <2> QED
    BY <1>1, <2>6
<1> QED
  BY <1>1, <1>4, <1>6, <1>7, <1>8

LEMMA StoreElemKeeps ==
  ASSUME BodysInv, NEW c \in Conns, NEW t \in Targets, NEW v, StoreElem(<<c, t>>, v)
  PROVE  BodysInv'
<1> DEFINE r == reg[<<c, t>>]
           p == r.ptr
           i == r.len + 1
           a == array[<<c, p>>]
           b == [a EXCEPT ![i] = v]
<1>1. Goto(<<c, t>>, "elem", "done") /\ UNCHANGED <<conn, slice, reg, raced>>
  BY DEF StoreElem
<1>2. /\ p \in Targets /\ i \in 1 .. Len(a) /\ v \in {t, a[i], Nil}
      /\ c \notin raced => v = t
      /\ array' = [array EXCEPT ![<<c, p>>] = b]
  <2>1. array' = [array EXCEPT ![<<c, p>>] = b]
    BY DEF StoreElem
  <2> HIDE DEF b
  <2> QED
    BY <2>1, ElemIs
<1>3. /\ <<c, p>> \in Goroutines /\ a \in Seq(Elem) /\ Len(a) \in Nat
      /\ r.len \in Nat /\ r.cap \in Nat
  <2>1. r.len \in Nat /\ r.cap \in Nat
    BY WordTypes
  <2>2. <<c, p>> \in Goroutines
    BY <1>2 DEF Goroutines
  <2>3. a \in Seq(Elem)
    BY <1>2, WordTypes
  <2> HIDE DEF a
  <2> QED
    BY <2>1, <2>2, <2>3
<1> HIDE DEF a, p, i
<1>4. v \in Elem
  <2>1. a[i] \in Elem
    BY <1>2, <1>3
  <2> QED
    BY <1>2, <2>1 DEF Elem
<1>5. /\ b \in Seq(Elem) /\ Len(b) = Len(a) /\ b[i] = v
      /\ \A j \in 1 .. Len(a) : j # i => b[j] = a[j]
  BY <1>2, <1>3, <1>4
<1>6. "done" \in Pcs
  BY DEF Pcs
<1>7. /\ TaskTypes' /\ task[<<c, t>>].pc = "elem" /\ task'[<<c, t>>].pc = "done"
      /\ \A d \in Conns, u \in Targets : d # c \/ u # t => task'[<<d, u>>] = task[<<d, u>>]
  BY <1>1, <1>6, GotoIs DEF BodysInv
<1> HIDE DEF b
<1>8. /\ SliceTypes' /\ array'[<<c, p>>] = b
      /\ \A h \in Goroutines : h # <<c, p>> => array'[h] = array[h]
  BY <1>1, <1>2, <1>3, <1>5 DEF BodysInv, SliceTypes
<1>9. \A d \in Conns, u \in Targets : d # c \/ u # p => array'[<<d, u>>] = array[<<d, u>>]
  BY <1>8 DEF Goroutines
<1>10. Frame(c, t)
  BY <1>1, <1>7, <1>9 DEF Frame
<1>11. t \in conn[c].asked /\ conn[c].state \notin Returned /\ conn[c].asked \subseteq Targets
  BY <1>7, Busy DEF BodysInv, Consistent, Collecting
<1>12. DoneOf(c)' = DoneOf(c) \cup {t}
  <2>1. \A u \in conn[c].asked : task'[<<c, u>>].pc = "done" <=> u = t \/ task[<<c, u>>].pc = "done"
    BY <1>7, <1>11
  <2> QED
    BY <1>1, <1>11, <2>1 DEF DoneOf
<1>13. Collecting(c)'
  BY <1>1, <1>11 DEF BodysInv, Consistent, Collecting
<1>14. ASSUME NEW u \in Targets PROVE Working(c, u)'
  BY <1>1, <1>7, <1>11 DEF BodysInv, Consistent, Working
<1>15. Written(c)'
  <2> SUFFICES ASSUME NEW u \in Targets, NEW j \in 1 .. Len(array'[<<c, u>>]),
                      array'[<<c, u>>][j] # Nil
               PROVE  /\ array'[<<c, u>>][j] \in DoneOf(c) \cup {t}
                      /\ j = reg[<<c, array'[<<c, u>>][j]>>].len + 1
    BY <1>1, <1>12 DEF Written
  <2>1. Written(c)
    BY DEF BodysInv, Consistent
  <2>2. CASE u # p
    BY <1>9, <2>1, <2>2 DEF Written
  <2>3. CASE u = p /\ j # i
    <3>1. j \in 1 .. Len(a) /\ array'[<<c, u>>][j] = a[j]
      BY <1>5, <1>8, <2>3
    <3> QED
      BY <1>2, <2>1, <2>3, <3>1 DEF Written, a
  <2>4. CASE u = p /\ j = i
    <3>1. array'[<<c, u>>][j] = v
      BY <1>5, <1>8, <2>4
    <3>2. CASE v = t
      BY <2>4, <3>1, <3>2 DEF i
    <3>3. CASE v = a[i]
      BY <1>2, <2>1, <2>4, <3>1, <3>3 DEF Written, a
    <3> QED
      BY <1>2, <3>1, <3>2, <3>3
  <2> QED
    BY <2>2, <2>3, <2>4
<1>16. Stored(c)'
  <2>1. Stored(c)
    BY DEF BodysInv, Consistent
  <2>2. slice[c].len # 0
    BY <1>7, <2>1 DEF Stored
  <2> QED
    BY <1>1, <2>2 DEF Stored
<1>17. ASSUME c \notin raced' PROVE Lone(c)'
  <2> DEFINE s == slice[c]
  <2>1. Appending(<<c, t>>) /\ c \notin raced
    BY <1>1, <1>7, <1>17 DEF Appending
  <2>2. Phase(c, t) /\ \A u \in Targets \ {t} : ~ Appending(<<c, u>>)
    BY <2>1, LoneOthers
  <2>3. v = t
    BY <1>2, <2>1
  <2>4. \A u \in Targets : ~ Appending(<<c, u>>)'
    <3>1. ~ Appending(<<c, t>>)'
      BY <1>7 DEF Appending
    <3>2. \A u \in Targets \ {t} : ~ Appending(<<c, u>>)'
      BY <2>2, <1>10 DEF Frame, Appending
    <3> QED
      BY <3>1, <3>2
  <2>5. /\ Holds(c, p, r.len, r.cap)
        /\ s.len = i /\ s.cap = r.cap /\ s.ptr = p /\ i <= r.cap
    BY <1>7, <2>2 DEF Phase, i, p
  <2>6. p # Nil /\ t # Nil
    BY <1>2, ApiAssumption
  <2>7. /\ Len(a) = r.cap
        /\ \A j \in 1 .. r.len : a[j] # Nil
        /\ \A u \in DoneOf(c) : \E j \in 1 .. r.len : a[j] = u
    BY <2>5, <2>6 DEF Holds, a
  <2>8. \A j \in 1 .. r.len : j \in 1 .. i /\ b[j] = a[j]
    <3>1. \A j \in 1 .. r.len : j \in 1 .. i /\ j # i /\ j \in 1 .. Len(a)
      BY <1>2, <1>3 DEF i
    <3> QED
      BY <1>5, <3>1
  <2>9. i \in 1 .. i /\ \A j \in 1 .. i : j = i \/ j \in 1 .. r.len
    <3>1. r.len \in Nat /\ i = r.len + 1
      BY <1>3 DEF i
    <3> HIDE DEF r
    <3> QED
      BY <3>1
  <2>10. \A j \in 1 .. i : b[j] # Nil
    BY <1>5, <2>3, <2>6, <2>7, <2>8, <2>9
  <2>11. ASSUME NEW u \in DoneOf(c) \cup {t} PROVE \E j \in 1 .. i : b[j] = u
    BY <1>5, <2>3, <2>7, <2>8, <2>9
  <2>12. Holds(c, slice[c].ptr, slice[c].len, slice[c].cap)'
    <3>1. slice'[c].ptr = p /\ slice'[c].len = i /\ slice'[c].cap = r.cap
      BY <1>1, <2>5
    <3>2. Len(array'[<<c, p>>]) = r.cap
      BY <1>5, <1>8, <2>7
    <3>3. (\A j \in 1 .. i : array'[<<c, p>>][j] # Nil)
          /\ \A u \in DoneOf(c)' : \E j \in 1 .. i : array'[<<c, p>>][j] = u
      BY <1>8, <1>12, <2>10, <2>11
    <3> QED
      BY <2>5, <2>6, <3>1, <3>2, <3>3 DEF Holds
  <2> QED
    BY <2>4, <2>12 DEF Lone
<1>18. \A d \in Conns : Consistent(d)'
  BY <1>10, <1>13, <1>14, <1>15, <1>16, <1>17, OthersKept DEF Consistent
<1> QED
  BY <1>1, <1>7, <1>8, <1>18 DEF BodysInv, ConnTypes

\* An answer of a target: the goroutine has yet to load the first word.
LEMMA DoKeeps ==
  ASSUME BodysInv, NEW c \in Conns, NEW t \in Targets, NEW body \in Bodies, Do(<<c, t>>, body)
  PROVE  BodysInv' /\ \A d \in Conns, u \in Targets :
                        d # c \/ u # t => task'[<<d, u>>] = task[<<d, u>>]
<1> DEFINE n == [task[<<c, t>>] EXCEPT !.pc = "load", !.body = body]
<1>1. /\ task[<<c, t>>].pc = "do" /\ task' = [task EXCEPT ![<<c, t>>] = n]
      /\ UNCHANGED <<conn, slice, array, reg, raced>>
  BY DEF Do, sliceVars
<1>2. <<c, t>> \in Goroutines /\ body \in Body
  BY ApiAssumption DEF Goroutines
<1>3. n \in [pc: Pcs, body: Body] /\ n.pc = "load"
  BY <1>2 DEF BodysInv, TaskTypes, Pcs
<1> HIDE DEF n
<1>4. TaskTypes' /\ task'[<<c, t>>] = n /\ \A h \in Goroutines : h # <<c, t>> => task'[h] = task[h]
  BY <1>1, <1>2, <1>3 DEF BodysInv, TaskTypes
<1>5. \A d \in Conns, u \in Targets : d # c \/ u # t => task'[<<d, u>>] = task[<<d, u>>]
  BY <1>4 DEF Goroutines
<1>6. Frame(c, t)
  BY <1>1, <1>5 DEF Frame
<1>7. /\ DoneOf(c)' = DoneOf(c)
      /\ Collecting(c)' /\ (\A u \in Targets : Working(c, u)') /\ Written(c)' /\ Stored(c)'
  BY <1>1, <1>3, <1>4, <1>6, StepKeeps
<1>8. ASSUME c \notin raced' PROVE Lone(c)'
  <2>1. Lone(c) /\ reg[<<c, t>>].left = Words
    BY <1>1, <1>8 DEF BodysInv, Consistent, Working
  <2>2. \A u \in Targets : Appending(<<c, u>>)' <=> Appending(<<c, u>>)
    <3>1. ~ Appending(<<c, t>>) /\ ~ Appending(<<c, t>>)'
      BY <1>1, <1>3, <1>4, <2>1 DEF Appending
    <3>2. \A u \in Targets \ {t} : Appending(<<c, u>>)' <=> Appending(<<c, u>>)
      BY <1>1, <1>5 DEF Appending
    <3> QED
      BY <3>1, <3>2
  <2>3. \A q, m, k : Holds(c, q, m, k)' <=> Holds(c, q, m, k)
    BY <1>1, <1>7, HoldsKept
  <2>4. ~ Appending(<<c, t>>)
    BY <1>1 DEF Appending
  <2>5. ASSUME NEW u \in Targets, Appending(<<c, u>>) PROVE Phase(c, u)'
    <3>1. Phase(c, u) /\ u # t
      BY <2>1, <2>4, <2>5 DEF Lone
    <3>2. task'[<<c, u>>] = task[<<c, u>>]
      BY <1>5, <3>1
    <3> QED
      BY <1>1, <2>3, <3>1, <3>2 DEF Phase
  <2> QED
    BY <1>1, <2>1, <2>2, <2>3, <2>5 DEF Lone
<1>9. \A d \in Conns : Consistent(d)'
  BY <1>6, <1>7, <1>8, OthersKept DEF Consistent
<1> QED
  BY <1>1, <1>4, <1>5, <1>9 DEF BodysInv, ConnTypes, SliceTypes

\* A step that touches neither a connection nor a goroutine.
LEMMA BodysKept ==
  ASSUME BodysInv, UNCHANGED <<conn, task, slice, array, reg, raced>>
  PROVE  BodysInv'
<1>1. ASSUME NEW d \in Conns PROVE Consistent(d)'
  <2>1. Consistent(d) /\ slice[d].ptr \in Elem /\ \A u \in Targets : reg[<<d, u>>].ptr \in Elem
    BY DEF BodysInv, SliceTypes, Goroutines
  <2> QED
    BY <2>1, ConnKept
<1>2. ConnTypes' /\ TaskTypes' /\ SliceTypes'
  BY DEF BodysInv, ConnTypes, TaskTypes, SliceTypes
<1> QED
  BY <1>1, <1>2 DEF BodysInv

\* What a goroutine does that has an answer; its body, and those of others,
\* stay.
LEMMA AppendStepKeeps ==
  ASSUME BodysInv, NEW c \in Conns, NEW t \in Targets, AppendStep(<<c, t>>)
  PROVE  BodysInv'
<1>1. CASE Faults(<<c, t>>)
  BY <1>1, BodysKept DEF Faults, sliceVars
<1>2. CASE \E w \in Words : Load(<<c, t>>, w)
  BY <1>2, LoadKeeps
<1>3. CASE \E v \in Targets \cup {Nil} : StoreElem(<<c, t>>, v)
  BY <1>3, StoreElemKeeps
<1> QED
  BY <1>1, <1>2, <1>3, GrowKeeps, InPlaceKeeps, StoreCapKeeps, StorePtrKeeps, ReloadPtrKeeps,
     StoreLenKeeps DEF AppendStep

-----------------------------------------------------------------------------
\* The steps of the handlers.
LEMMA ConnUpdate ==
  ASSUME ConnTypes, NEW c \in Conns, NEW n, IsConn(n),
         conn' = [conn EXCEPT ![c] = n]
  PROVE  ConnTypes' /\ \A d \in Conns : conn'[d] = IF d = c THEN n ELSE conn[d]
<1>1. \A d \in Conns : conn'[d] = IF d = c THEN n ELSE conn[d]
  BY DEF ConnTypes
<1>2. conn' = [d \in Conns |-> conn'[d]]
  BY DEF ConnTypes
<1> QED
  BY <1>1, <1>2 DEF ConnTypes

\* A handler goes on with its connection.
LEMMA ConnStepKeeps ==
  ASSUME BodysInv, NEW c \in Conns, NEW n, IsConn(n), conn' = [conn EXCEPT ![c] = n],
         UNCHANGED <<task, slice, array, reg, raced>>,
         n.asked = conn[c].asked, n.bodys \in Seq(Elem), n.state # "idle",
         n.state \in Returned => conn[c].asked \subseteq DoneOf(c) /\ Survived(c)'
  PROVE  BodysInv'
<1>1. ConnTypes' /\ \A d \in Conns : conn'[d] = IF d = c THEN n ELSE conn[d]
  BY ConnUpdate DEF BodysInv
<1>2. ASSUME NEW d \in Conns, d # c PROVE Consistent(d)'
  <2>1. Consistent(d) /\ slice[d].ptr \in Elem /\ \A u \in Targets : reg[<<d, u>>].ptr \in Elem
    BY DEF BodysInv, SliceTypes, Goroutines
  <2>2. conn'[d] = conn[d]
    BY <1>1, <1>2
  <2> QED
    BY <2>1, <2>2, ConnKept
<1>3. conn'[c] = n
  BY <1>1
<1>4. DoneOf(c)' = DoneOf(c)
  BY <1>3 DEF DoneOf
<1>5. Collecting(c)'
  BY <1>3, <1>4 DEF BodysInv, Consistent, Collecting
<1>6. \A u \in Targets : Working(c, u)'
  BY <1>3 DEF BodysInv, Consistent, Working
<1>7. Written(c)' /\ Stored(c)'
  BY <1>4 DEF BodysInv, Consistent, Written, Stored
<1>8. ASSUME c \notin raced' PROVE Lone(c)'
  <2>1. Lone(c)
    BY <1>8 DEF BodysInv, Consistent
  <2>2. \A u \in Targets : Appending(<<c, u>>)' <=> Appending(<<c, u>>)
    BY DEF Appending
  <2>3. \A p, m, k : Holds(c, p, m, k)' <=> Holds(c, p, m, k)
    BY <1>4, HoldsKept
  <2>4. ASSUME NEW u \in Targets, Phase(c, u) PROVE Phase(c, u)'
    BY <2>3, <2>4 DEF Phase
  <2> QED
    BY <2>1, <2>2, <2>3, <2>4 DEF Lone
<1>9. \A d \in Conns : Consistent(d)'
  BY <1>2, <1>5, <1>6, <1>7, <1>8 DEF Consistent
<1>10. TaskTypes' /\ SliceTypes'
  BY DEF BodysInv, TaskTypes, SliceTypes
<1> QED
  BY <1>1, <1>9, <1>10 DEF BodysInv

\* The end of a request that has its bodies, or that needs none.
LEMMA EndKeeps ==
  ASSUME BodysInv, NEW c \in Conns, NEW n, IsConn(n), conn' = [conn EXCEPT ![c] = n],
         UNCHANGED <<task, slice, array, reg, raced>>,
         n.asked = conn[c].asked, n.bodys = conn[c].bodys, n.state # "idle",
         conn[c].state \in Returned \cup {"idle"}
  PROVE  BodysInv'
<1>1. conn'[c] = n
  <2>1. \A d \in Conns : conn'[d] = IF d = c THEN n ELSE conn[d]
    BY ConnUpdate DEF BodysInv
  <2> QED
    BY <2>1
<1>2. Collecting(c)
  BY DEF BodysInv, Consistent
<1>3. conn[c].asked \subseteq DoneOf(c) /\ Survived(c)
  <2>1. CASE conn[c].state = "idle"
    <3>1. conn[c].asked = {} /\ conn[c].bodys = <<>>
      BY <1>2, <2>1 DEF Collecting
    <3>2. DOMAIN conn[c].bodys = {} /\ Elems(conn[c].bodys) = {}
      BY <3>1, NoElems
    <3> QED
      BY <3>1, <3>2 DEF Survived
  <2>2. CASE conn[c].state \in Returned
    BY <1>2, <2>2 DEF Collecting
  <2> QED
    BY <2>1, <2>2
<1>4. Survived(c)'
  BY <1>1, <1>3 DEF Survived
<1>5. n.bodys \in Seq(Elem)
  BY <1>2 DEF Collecting
<1> QED
  BY <1>3, <1>4, <1>5, ConnStepKeeps

LEMMA RespondKeeps ==
  ASSUME BodysInv, NEW c \in Conns, NEW k, NEW status, NEW data, Respond(c, k, status, data),
         UNCHANGED <<task, slice, array, reg, raced>>,
         conn[c].state \in Returned \cup {"idle"}
  PROVE  BodysInv'
<1> DEFINE n == [conn[c] EXCEPT !.state = "done", !.kind = k, !.code = status, !.data = data]
<1>1. IsConn(conn[c])
  BY DEF BodysInv, ConnTypes
<1>2. IsConn(n) /\ n.bodys = conn[c].bodys /\ n.asked = conn[c].asked /\ n.state = "done"
  BY <1>1 DEF IsConn, ConnFields
<1>3. conn' = [conn EXCEPT ![c] = n]
  BY DEF Respond
<1> HIDE DEF n
<1> QED
  BY <1>2, <1>3, EndKeeps

LEMMA MergeKeeps ==
  ASSUME BodysInv, NEW c \in Conns, Merge(c)
  PROVE  BodysInv'
<1>1. conn[c].state \in Returned /\ UNCHANGED <<task, slice, array, reg, raced>>
  BY DEF Merge, sliceVars, Returned
<1>2. CASE conn' = [conn EXCEPT ![c].state = "aborted"]
  <2> DEFINE n == [conn[c] EXCEPT !.state = "aborted"]
  <2>1. IsConn(conn[c])
    BY DEF BodysInv, ConnTypes
  <2>2. IsConn(n) /\ n.bodys = conn[c].bodys /\ n.asked = conn[c].asked /\ n.state = "aborted"
    BY <2>1 DEF IsConn, ConnFields
  <2>3. conn' = [conn EXCEPT ![c] = n]
    BY <1>2
  <2> HIDE DEF n
  <2> QED
    BY <1>1, <2>2, <2>3, EndKeeps
<1>3. CASE \E data : Respond(c, conn[c].kind, 200, data)
  BY <1>1, <1>3, RespondKeeps
<1> QED
  BY <1>2, <1>3, Zenon DEF Merge

LEMMA PostReloadKeeps ==
  ASSUME BodysInv, NEW c \in Conns, PostReload(c)
  PROVE  BodysInv'
<1> DEFINE n == [conn[c] EXCEPT !.state = "hung", !.kind = "reload"]
<1>1. IsConn(conn[c])
  BY DEF BodysInv, ConnTypes
<1>2. IsConn(n) /\ n.bodys = conn[c].bodys /\ n.asked = conn[c].asked /\ n.state = "hung"
  BY <1>1 DEF IsConn, ConnFields
<1>3. /\ conn' = [conn EXCEPT ![c] = n] /\ UNCHANGED <<task, slice, array, reg, raced>>
      /\ conn[c].state = "idle"
  BY DEF PostReload, Arrives, sliceVars
<1> HIDE DEF n
<1> QED
  BY <1>2, <1>3, EndKeeps

LEMMA ProxyReqKeeps ==
  ASSUME BodysInv, NEW c \in Conns, NEW k, NEW S \in SUBSET Targets, ProxyReq(c, k, S)
  PROVE  /\ BodysInv'
         /\ \A d \in Conns, t \in Targets : task'[<<d, t>>].body = task[<<d, t>>].body
<1> DEFINE n == [conn[c] EXCEPT !.state = "wait", !.kind = k, !.asked = S]
<1>1. IsConn(conn[c])
  BY DEF BodysInv, ConnTypes
<1>2. IsConn(n) /\ n.bodys = conn[c].bodys /\ n.asked = S /\ n.state = "wait"
  BY <1>1 DEF IsConn, ConnFields
<1>3. /\ conn' = [conn EXCEPT ![c] = n] /\ conn[c].state = "idle"
      /\ UNCHANGED <<slice, array, reg, raced>>
  BY DEF ProxyReq, Arrives, sliceVars
<1> HIDE DEF n
<1>4. ConnTypes' /\ \A d \in Conns : conn'[d] = IF d = c THEN n ELSE conn[d]
  BY <1>2, <1>3, ConnUpdate DEF BodysInv
<1>5. conn[c].asked = {} /\ conn[c].bodys = <<>>
      /\ \A t \in Targets : task[<<c, t>>].pc = "off" /\ reg[<<c, t>>].left = Words
  BY <1>3 DEF BodysInv, Consistent, Collecting, Working
<1>6. task' = [g \in Goroutines |-> IF g[1] = c /\ g[2] \in S
                                      THEN [task[g] EXCEPT !.pc = "do"] ELSE task[g]]
  BY DEF ProxyReq, BodysInv, TaskTypes, Goroutines
<1>7. \A g \in Goroutines : /\ [task[g] EXCEPT !.pc = "do"] \in [pc: Pcs, body: Body]
                            /\ [task[g] EXCEPT !.pc = "do"].pc = "do"
                            /\ [task[g] EXCEPT !.pc = "do"].body = task[g].body
  BY DEF BodysInv, TaskTypes, Pcs
<1>8. TaskTypes' /\ \A g \in Goroutines : task'[g].body = task[g].body
  BY <1>6, <1>7 DEF BodysInv, TaskTypes
<1>9. ASSUME NEW d \in Conns, NEW t \in Targets
      PROVE  /\ task'[<<d, t>>].body = task[<<d, t>>].body
             /\ d = c /\ t \in S => task'[<<d, t>>].pc = "do"
             /\ d # c \/ t \notin S => task'[<<d, t>>] = task[<<d, t>>]
  <2>1. <<d, t>> \in Goroutines /\ <<d, t>>[1] = d /\ <<d, t>>[2] = t
    BY DEF Goroutines
  <2> QED
    BY <1>6, <1>7, <1>8, <2>1
<1>10. ASSUME NEW d \in Conns, d # c PROVE Consistent(d)'
  <2>1. Consistent(d) /\ slice[d].ptr \in Elem /\ \A u \in Targets : reg[<<d, u>>].ptr \in Elem
    BY DEF BodysInv, SliceTypes, Goroutines
  <2>2. conn'[d] = conn[d] /\ \A u \in Targets : task'[<<d, u>>] = task[<<d, u>>]
    BY <1>4, <1>9, <1>10
  <2> QED
    BY <1>3, <2>1, <2>2, ConnKept
<1>11. Consistent(c)'
  <2>1. conn'[c] = n /\ \A t \in Targets : task'[<<c, t>>].pc \in {"off", "do"}
    BY <1>4, <1>5, <1>9
  <2>2. DoneOf(c) = {} /\ DoneOf(c)' = {}
    BY <1>2, <1>5, <2>1 DEF DoneOf
  <2>3. Collecting(c)'
    <3>1. <<>> \in Seq(Elem)
      OBVIOUS
    <3> QED
      BY <1>2, <1>5, <2>1, <3>1 DEF Collecting, Returned
  <2>4. ASSUME NEW t \in Targets PROVE Working(c, t)'
    BY <1>2, <1>3, <1>5, <1>9, <2>1 DEF Working
  <2>5. Written(c)'
    BY <1>3, <2>2 DEF BodysInv, Consistent, Written
  <2>6. Stored(c)'
    BY <2>1 DEF Stored
  <2>7. ASSUME c \notin raced' PROVE Lone(c)'
    <3>1. \A t \in Targets : ~ Appending(<<c, t>>) /\ ~ Appending(<<c, t>>)'
      BY <1>5, <2>1 DEF Appending
    <3>2. Holds(c, slice[c].ptr, slice[c].len, slice[c].cap)
      BY <1>3, <2>7, <3>1 DEF BodysInv, Consistent, Lone
    <3>3. \A p, m, l : Holds(c, p, m, l)' <=> Holds(c, p, m, l)
      BY <1>3, <2>2, HoldsKept
    <3> QED
      BY <1>3, <3>1, <3>2, <3>3 DEF Lone
  <2> QED
    BY <2>3, <2>4, <2>5, <2>6, <2>7 DEF Consistent
<1>12. SliceTypes'
  BY <1>3 DEF BodysInv, SliceTypes
<1> QED
  BY <1>4, <1>8, <1>9, <1>10, <1>11, <1>12 DEF BodysInv

\* The slice that proxyReq returns.
LEMMA ReturnedSurvives ==
  ASSUME BodysInv, NEW c \in Conns, Waited(c),
         slice[c].len <= Len(ArrayAt(c, slice[c].ptr)),
         conn'[c].asked = conn[c].asked, UNCHANGED raced,
         conn'[c].bodys = SubSeq(ArrayAt(c, slice[c].ptr), 1, slice[c].len)
  PROVE  conn[c].asked \subseteq DoneOf(c) /\ conn'[c].bodys \in Seq(Elem) /\ Survived(c)'
<1> DEFINE s == slice[c]
           a == ArrayAt(c, s.ptr)
           b == SubSeq(a, 1, s.len)
<1>1. conn[c].asked \subseteq DoneOf(c) /\ DoneOf(c) \subseteq conn[c].asked
  BY DEF Waited, DoneOf
<1>2. s.len \in Nat /\ s.ptr \in Elem /\ conn[c].asked \subseteq Targets
  BY DEF BodysInv, SliceTypes, Consistent, Collecting
<1>3. a \in Seq(Elem)
  <2>1. \A u \in Targets : array[<<c, u>>] \in Seq(Elem)
    BY DEF BodysInv, SliceTypes, Goroutines
  <2> QED
    BY <1>2, <2>1 DEF ArrayAt, Elem
<1>4. s.ptr # Nil => s.ptr \in Targets /\ a = array[<<c, s.ptr>>]
  BY <1>2 DEF ArrayAt, Elem
<1>5. s.ptr = Nil => a = <<>>
  BY DEF ArrayAt
<1> HIDE DEF a
<1>6. /\ s.len <= Len(a) /\ Len(a) \in Nat
      /\ b \in Seq(Elem) /\ Len(b) = s.len /\ DOMAIN b = 1 .. s.len
      /\ \A i \in 1 .. s.len : b[i] = a[i] /\ i \in 1 .. Len(a)
  <2>1. s.len <= Len(a) /\ Len(a) \in Nat
    BY <1>3 DEF a
  <2> HIDE DEF s
  <2>2. b \in Seq(Elem) /\ Len(b) = s.len /\ \A i \in 1 .. s.len : b[i] = a[i]
    BY <1>2, <1>3, <2>1
  <2>3. \A i \in 1 .. s.len : i \in 1 .. Len(a)
    BY <1>2, <2>1
  <2> QED
    BY <2>1, <2>2, <2>3
<1> HIDE DEF b
<1>7. conn'[c].bodys = b
  BY DEF a, b
<1>8. ASSUME NEW i \in 1 .. s.len, b[i] # Nil
      PROVE  b[i] \in conn[c].asked /\ i = reg[<<c, b[i]>>].len + 1
  <2>1. i \in 1 .. Len(a) /\ b[i] = a[i]
    BY <1>6
  <2>2. s.ptr # Nil
    <3>1. s.ptr = Nil => Len(a) = 0
      BY <1>5
    <3>2. Len(a) # 0
      BY <1>6, <2>1
    <3> QED
      BY <3>1, <3>2
  <2>3. b[i] \in DoneOf(c) /\ i = reg[<<c, b[i]>>].len + 1
    BY <1>4, <1>8, <2>1, <2>2 DEF BodysInv, Consistent, Written
  <2> QED
    BY <1>1, <2>3
<1>9. ASSUME conn[c].asked # {} PROVE b # <<>>
  <2>1. PICK t \in conn[c].asked : task[<<c, t>>].pc = "done"
    BY <1>9 DEF Waited
  <2>2. s.len # 0
    BY <1>2, <2>1 DEF BodysInv, Consistent, Stored
  <2> QED
    BY <1>6, <2>2
<1>10. ASSUME c \notin raced PROVE Elems(b) = conn[c].asked
  <2>1. \A t \in Targets : ~ Appending(<<c, t>>)
    BY DEF BodysInv, Consistent, Working, Waited, Appending
  <2>2. Holds(c, s.ptr, s.len, s.cap)
    BY <1>10, <2>1 DEF BodysInv, Consistent, Lone
  <2>3. CASE s.ptr = Nil
    <3>1. conn[c].asked = {}
      BY <1>1, <2>2, <2>3 DEF Holds
    <3>2. Len(a) = 0
      BY <1>5, <2>3
    <3>3. s.len = 0
      BY <1>2, <1>6, <3>2
    <3> QED
      BY <1>6, <3>1, <3>3 DEF Elems
  <2>4. CASE s.ptr # Nil
    <3>1. /\ \A i \in 1 .. s.len : a[i] # Nil
          /\ \A u \in DoneOf(c) : \E i \in 1 .. s.len : a[i] = u
      BY <1>4, <2>2, <2>4 DEF Holds
    <3>2. \A i \in 1 .. Len(b) : b[i] \in conn[c].asked
      BY <1>6, <1>8, <3>1
    <3>3. \A u \in conn[c].asked : \E i \in 1 .. Len(b) : b[i] = u
      BY <1>1, <1>6, <3>1
    <3> QED
      BY <3>2, <3>3 DEF Elems
  <2> QED
    BY <2>3, <2>4
<1>11. \A i, j \in 1 .. s.len : b[i] = b[j] /\ b[i] # Nil => i = j
  BY <1>8
<1>12. Survived(c)'
  BY <1>6, <1>7, <1>8, <1>9, <1>10, <1>11 DEF Survived
<1> QED
  BY <1>1, <1>6, <1>7, <1>12

LEMMA ProxyReturnsKeeps ==
  ASSUME BodysInv, NEW c \in Conns, ProxyReturns(c)
  PROVE  BodysInv'
<1> DEFINE b == SubSeq(ArrayAt(c, slice[c].ptr), 1, slice[c].len)
           n == [conn[c] EXCEPT !.state = "merge", !.bodys = b]
<1>1. Waited(c) /\ UNCHANGED <<task, slice, array, reg, raced>>
  BY DEF ProxyReturns, sliceVars
<1>2. CASE slice[c].len <= Len(ArrayAt(c, slice[c].ptr))
  <2>1. conn' = [conn EXCEPT ![c] = n]
    BY <1>2 DEF ProxyReturns
  <2>2. IsConn(conn[c])
    BY DEF BodysInv, ConnTypes
  <2> HIDE DEF b
  <2>3. IsConn(n) /\ n.bodys = b /\ n.asked = conn[c].asked /\ n.state = "merge"
    BY <2>2 DEF IsConn, ConnFields
  <2> HIDE DEF n
  <2>4. conn'[c] = n
    <3>1. \A d \in Conns : conn'[d] = IF d = c THEN n ELSE conn[d]
      BY <2>1, <2>3, ConnUpdate DEF BodysInv
    <3> QED
      BY <3>1
  <2>5. conn[c].asked \subseteq DoneOf(c) /\ n.bodys \in Seq(Elem) /\ Survived(c)'
    BY <1>1, <1>2, <2>3, <2>4, ReturnedSurvives DEF b
  <2> QED
    BY <1>1, <2>1, <2>3, <2>5, ConnStepKeeps
<1>3. CASE ~ (slice[c].len <= Len(ArrayAt(c, slice[c].ptr)))
  BY <1>1, <1>3, BodysKept DEF ProxyReturns
<1> QED
  BY <1>2, <1>3

LEMMA RequestKeeps ==
  ASSUME BodysInv, NEW c \in Conns, RequestStep(c)
  PROVE  BodysInv'
<1>1. CASE \E k \in KindsOf[c], S \in SUBSET Targets : ProxyReq(c, k, S)
  BY <1>1, ProxyReqKeeps
<1>2. CASE Options(c) \/ \E k \in KindsOf[c] : Query(c, k) \/ Reject(c, k)
  <2>1. conn[c].state = "idle" /\ UNCHANGED <<task, slice, array, reg, raced>>
    BY <1>2 DEF Options, Query, Reject, Arrives, sliceVars
  <2>2. PICK k, status, data : Respond(c, k, status, data)
    BY <1>2, Zenon DEF Options, Query, Reject
  <2> QED
    BY <2>1, <2>2, RespondKeeps
<1> QED
  BY <1>1, <1>2 DEF RequestStep

LEMMA BodysInvNext == BodysInv /\ [Next]_vars => BodysInv'
<1> SUFFICES ASSUME BodysInv, [Next]_vars PROVE BodysInv'
  OBVIOUS
<1>1. CASE ParseFails \/ PrintVersion \/ Parsed \/ Killed \/ Start \/ EnterSelect \/ Leave \/ Stop
           \/ Hup \/ ReloadStep \/ Listen \/ ServeFails \/ UNCHANGED vars
  BY <1>1, BodysKept DEF ParseFails, PrintVersion, Parsed, Killed, Start, EnterSelect, Leave, Stop,
    Hup, ReloadStep, LoadFails, LoadFile, Apply, ApplyFails, Listen, ServeFails, vars, apiVars,
    sliceVars
<1>2. CASE \E c \in Conns : PostReload(c) \/ Request(c)
  BY <1>2, PostReloadKeeps, RequestKeeps DEF Request
<1>3. CASE \E c \in Conns : HandlerStep(c)
  BY <1>3, ProxyReturnsKeeps, MergeKeeps DEF HandlerStep
<1>4. CASE \E g \in Conns \X Targets : GoroutineStep(g)
  <2>1. PICK c \in Conns, t \in Targets : GoroutineStep(<<c, t>>)
    BY <1>4
  <2>2. CASE DoFails(<<c, t>>)
    BY <2>2, BodysKept DEF DoFails, sliceVars
  <2> QED
    BY <2>1, <2>2, DoKeeps, AppendStepKeeps DEF GoroutineStep
<1> QED
  BY <1>1, <1>2, <1>3, <1>4 DEF Next, Serve, ApiNext

LEMMA InitBodys == Init => BodysInv
<1> SUFFICES ASSUME Init PROVE BodysInv
  OBVIOUS
<1>1. /\ conn = [c \in Conns |-> Idle] /\ task = [g \in Goroutines |-> Off]
      /\ slice = [c \in Conns |-> [ptr |-> Nil, len |-> 0, cap |-> 0]]
      /\ array = [g \in Goroutines |-> <<>>]
      /\ reg = [g \in Goroutines |-> [left |-> Words, ptr |-> Nil, len |-> 0, cap |-> 0]]
  BY DEF Init, ApiInit, Goroutines
<1>2. Off \in [pc: Pcs, body: Body] /\ Off.pc = "off"
  BY DEF Off, NoBody, Body, Pcs
<1>3. TaskTypes
  BY <1>1, <1>2 DEF TaskTypes
<1>4. SliceTypes
  <2>1. Nil \in Elem /\ <<>> \in Seq(Elem) /\ 0 \in Nat /\ Words \in SUBSET Words
    BY DEF Elem
  <2> QED
    BY <1>1, <2>1 DEF SliceTypes
<1>5. IsConn(Idle) /\ Idle.state = "idle" /\ Idle.asked = {} /\ Idle.bodys = <<>>
  BY DEF Idle, IsConn, ConnFields
<1>6. ConnTypes
  BY <1>1, <1>5 DEF ConnTypes
<1>7. ASSUME NEW c \in Conns PROVE Consistent(c)
  <2>1. /\ \A t \in Targets : /\ task[<<c, t>>].pc = "off" /\ reg[<<c, t>>].left = Words
                              /\ array[<<c, t>>] = <<>>
        /\ slice[c].ptr = Nil /\ slice[c].len = 0 /\ slice[c].cap = 0
    BY <1>1, <1>2 DEF Goroutines
  <2>2. conn[c].state = "idle" /\ conn[c].asked = {} /\ conn[c].bodys = <<>>
    BY <1>1, <1>5
  <2>3. DoneOf(c) = {}
    BY <2>2 DEF DoneOf
  <2>4. Collecting(c)
    BY <2>2 DEF Collecting, Returned
  <2>5. \A t \in Targets : Working(c, t) /\ ~ Appending(<<c, t>>)
    BY <2>1 DEF Working, Appending
  <2>6. Written(c) /\ Stored(c)
    BY <2>1 DEF Written, Stored
  <2>7. Lone(c)
    BY <2>1, <2>3, <2>5 DEF Lone, Holds
  <2> QED
    BY <2>4, <2>5, <2>6, <2>7 DEF Consistent
<1> QED
  BY <1>3, <1>4, <1>6, <1>7 DEF BodysInv

\* The unlocked append of proxyReq, word by word, with any number of targets
\* and however the goroutines overlap: API.BodysSurvive.
THEOREM AppendsSurvive == Spec => []BodysSurvive
<1>1. BodysInv => BodysSurvive
  BY DEF BodysInv, Consistent, Collecting, Survived, BodysSurvive, Returned
<1> QED
  BY InitBodys, <1>1, BodysInvNext, PTL DEF Spec

-----------------------------------------------------------------------------
(***************************************************************************)
(* What the handlers make of the bodies.  Their loops are recursive        *)
(* functions over 0 .. N.  That such a function exists, and what it        *)
(* returns, is shown by induction; the principle is stated for a set of    *)
(* numbers (UpTo) and follows from the least element of its complement.    *)
(***************************************************************************)
\* A set of numbers that is not empty has a least one.
LEMMA Least ==
  ASSUME NEW S \in SUBSET Nat, S # {}
  PROVE \E n \in S : \A m \in S : n <= m
<1> DEFINE R == OpToRel(<, Nat)
<1>1. IsWellFoundedOn(R, Nat)
  BY NatLessThanWellFounded
<1>2. PICK x \in S : \A y \in S : ~ (<<y, x>> \in R)
  <2> HIDE DEF R
  <2> QED BY <1>1, WFMin
<1>3. \A y \in S : ~ (y < x)
  BY <1>2 DEF OpToRel
<1> QED BY <1>3

\* Induction up to N, for a set of numbers.
LEMMA UpTo ==
  ASSUME NEW N \in Nat, NEW G, 0 \in G, \A i \in 1 .. N : i - 1 \in G => i \in G
  PROVE  N \in G /\ \A i \in 0 .. N : i \in G
<1> SUFFICES ASSUME (0 .. N) \ G # {} PROVE FALSE
  OBVIOUS
<1> DEFINE Bad == (0 .. N) \ G
<1>1. PICK n \in Bad : \A m \in Bad : n <= m
  <2>1. Bad \in SUBSET Nat /\ Bad # {}
    OBVIOUS
  <2> HIDE DEF Bad
  <2> QED
    BY <2>1, Least
<1>2. n \in 1 .. N /\ n - 1 \in 0 .. N
  BY <1>1
<1>3. n - 1 \in G
  BY <1>1, <1>2
<1> QED
  BY <1>1, <1>2, <1>3

\* f has the values of a loop that starts with a, after each of its n turns.
Computes(f, n, X, a, turn) == /\ f \in [0 .. n -> X]
                              /\ f[0] = a
                              /\ \A i \in 1 .. n : f[i] = turn[i][f[i - 1]]

\* There is such an f.
LEMMA Iterate ==
  ASSUME NEW N \in Nat, NEW X, NEW a \in X, NEW turn \in [1 .. N -> [X -> X]]
  PROVE  \E f : Computes(f, N, X, a, turn)
<1> DEFINE G == {n \in 0 .. N : \E f : Computes(f, n, X, a, turn)}
<1>1. 0 \in G
  <2>1. Computes([i \in 0 .. 0 |-> a], 0, X, a, turn)
    BY DEF Computes
  <2>2. 0 \in 0 .. N
    OBVIOUS
  <2> QED
    BY <2>1, <2>2
<1>2. ASSUME NEW n \in 1 .. N, n - 1 \in G PROVE n \in G
  <2>1. PICK f : Computes(f, n - 1, X, a, turn)
    BY <1>2
  <2> DEFINE g == [i \in 0 .. n |-> IF i = n THEN turn[n][f[n - 1]] ELSE f[i]]
  <2>2. turn[n][f[n - 1]] \in X
    BY <2>1 DEF Computes
  <2>3. \A i \in 0 .. n : i # n => i \in 0 .. n - 1
    OBVIOUS
  <2>4. g \in [0 .. n -> X] /\ g[0] = a
    BY <2>1, <2>2, <2>3 DEF Computes
  <2>5. ASSUME NEW i \in 1 .. n PROVE g[i] = turn[i][g[i - 1]]
    BY <2>1 DEF Computes
  <2>6. Computes(g, n, X, a, turn)
    BY <2>4, <2>5 DEF Computes
  <2> HIDE DEF g
  <2> QED
    BY <2>6
<1>3. N \in G
  <2>1. N \in 0 .. N
    OBVIOUS
  <2> HIDE DEF G
  <2> QED
    BY <1>1, <1>2, <2>1, UpTo
<1>4. PICK f : Computes(f, N, X, a, turn)
  BY <1>3
<1> QED
  BY <1>4

\* Two loops with the same turns compute the same.
LEMMA SameLoop ==
  ASSUME NEW N \in Nat, NEW f, NEW g,
         f[0] = g[0],
         \A i \in 1 .. N : f[i - 1] = g[i - 1] => f[i] = g[i]
  PROVE  f[N] = g[N]
<1> DEFINE G == {i \in 0 .. N : f[i] = g[i]}
<1>1. 0 \in G
  OBVIOUS
<1>2. ASSUME NEW i \in 1 .. N, i - 1 \in G PROVE i \in G
  BY <1>2
<1>3. \A i \in 0 .. N : i \in G
  <2> HIDE DEF G
  <2> QED
    BY <1>1, <1>2, UpTo
<1> QED
  BY <1>3

LEMMA BodyData ==
  ASSUME NEW bs \in Seq(Body)
  PROVE  Len(bs) \in Nat /\ \A i \in 1 .. Len(bs) : bs[i].data \in Seq(Int) /\ Len(bs[i].data) \in Nat
<1>1. Len(bs) \in Nat /\ \A i \in 1 .. Len(bs) : bs[i] \in Body
  OBVIOUS
<1>2. \A b \in Body : b.data \in Seq(Int) /\ Len(b.data) \in Nat
  BY DEF Body
<1> QED
  BY <1>1, <1>2

LEMMA CatLoop ==
  ASSUME NEW bs \in Seq(Body)
  PROVE  \E f \in [0 .. Len(bs) -> Seq(Int)] :
            /\ f[0] = <<>>
            /\ \A i \in 1 .. Len(bs) : f[i] = f[i - 1] \o bs[i].data
            /\ Concatenated(bs) = f[Len(bs)]
<1> DEFINE N == Len(bs)
           X == Seq(Int)
           e == <<>>
           T(i, d) == d \o bs[i].data
           F(f) == [i \in 0 .. N |-> IF i = 0 THEN e ELSE T(i, f[i - 1])]
           turn == [i \in 1 .. N |-> [d \in X |-> T(i, d)]]
           g == CHOOSE h : h = F(h)
<1>1. N \in Nat /\ e \in X
  BY BodyData
<1>2. \A i \in 1 .. N : \A d \in X : T(i, d) \in X
  BY BodyData
<1>3. Concatenated(bs) = g[N]
  BY DEF Concatenated
<1> HIDE DEF N, X, e, T
<1>4. turn \in [1 .. N -> [X -> X]]
  BY <1>2
<1>5. PICK f : Computes(f, N, X, e, turn)
  <2> HIDE DEF turn, g, F
  <2> QED
    BY <1>1, <1>4, Iterate
<1>6. ASSUME NEW i \in 1 .. N PROVE f[i] = T(i, f[i - 1])
  <2>1. i - 1 \in 0 .. N
    BY <1>1
  <2>2. f[i - 1] \in X
    BY <1>5, <2>1 DEF Computes
  <2> QED
    BY <1>5, <2>2 DEF Computes
<1>7. f = F(f)
  <2> HIDE DEF turn, g
  <2> QED
    BY <1>1, <1>5, <1>6 DEF Computes
<1>8. g = F(g)
  <2> HIDE DEF F
  <2> QED
    BY <1>7
<1> HIDE DEF g, turn
<1>9. f[N] = g[N]
  <2>1. g[0] = e
    BY <1>1, <1>8
  <2>2. ASSUME NEW i \in 1 .. N PROVE g[i] = T(i, g[i - 1])
    BY <1>1, <1>8
  <2>3. f[0] = g[0]
    BY <1>5, <2>1 DEF Computes
  <2>4. \A i \in 1 .. N : f[i - 1] = g[i - 1] => f[i] = g[i]
    BY <1>6, <2>2
  <2> HIDE DEF F
  <2> QED
    BY <1>1, <2>3, <2>4, SameLoop
<1>10. f \in [0 .. N -> X] /\ f[0] = e
  BY <1>5 DEF Computes
<1> HIDE DEF F
<1> QED
  BY <1>3, <1>6, <1>9, <1>10 DEF N, X, e, T

LEMMA SumLoop ==
  ASSUME NEW bs \in Seq(Body)
  PROVE  \E f \in [0 .. Len(bs) -> Nat] :
            /\ f[0] = 0
            /\ \A i \in 1 .. Len(bs) : f[i] = f[i - 1] + Len(bs[i].data)
            /\ Total(bs) = f[Len(bs)]
<1> DEFINE N == Len(bs)
           X == Nat
           e == 0
           T(i, d) == d + Len(bs[i].data)
           F(f) == [i \in 0 .. N |-> IF i = 0 THEN e ELSE T(i, f[i - 1])]
           turn == [i \in 1 .. N |-> [d \in X |-> T(i, d)]]
           g == CHOOSE h : h = F(h)
<1>1. N \in Nat /\ e \in X
  BY BodyData
<1>2. \A i \in 1 .. N : \A d \in X : T(i, d) \in X
  BY BodyData
<1>3. Total(bs) = g[N]
  BY DEF Total
<1> HIDE DEF N, X, e, T
<1>4. turn \in [1 .. N -> [X -> X]]
  BY <1>2
<1>5. PICK f : Computes(f, N, X, e, turn)
  <2> HIDE DEF turn, g, F
  <2> QED
    BY <1>1, <1>4, Iterate
<1>6. ASSUME NEW i \in 1 .. N PROVE f[i] = T(i, f[i - 1])
  <2>1. i - 1 \in 0 .. N
    BY <1>1
  <2>2. f[i - 1] \in X
    BY <1>5, <2>1 DEF Computes
  <2> QED
    BY <1>5, <2>2 DEF Computes
<1>7. f = F(f)
  <2> HIDE DEF turn, g
  <2> QED
    BY <1>1, <1>5, <1>6 DEF Computes
<1>8. g = F(g)
  <2> HIDE DEF F
  <2> QED
    BY <1>7
<1> HIDE DEF g, turn
<1>9. f[N] = g[N]
  <2>1. g[0] = e
    BY <1>1, <1>8
  <2>2. ASSUME NEW i \in 1 .. N PROVE g[i] = T(i, g[i - 1])
    BY <1>1, <1>8
  <2>3. f[0] = g[0]
    BY <1>5, <2>1 DEF Computes
  <2>4. \A i \in 1 .. N : f[i - 1] = g[i - 1] => f[i] = g[i]
    BY <1>6, <2>2
  <2> HIDE DEF F
  <2> QED
    BY <1>1, <2>3, <2>4, SameLoop
<1>10. f \in [0 .. N -> X] /\ f[0] = e
  BY <1>5 DEF Computes
<1> HIDE DEF F
<1> QED
  BY <1>3, <1>6, <1>9, <1>10 DEF N, X, e, T

LEMMA DelLoop ==
  ASSUME NEW bs \in Seq(Body)
  PROVE  \E f \in [0 .. Len(bs) -> Nat] :
            /\ f[0] = 0
            /\ \A i \in 1 .. Len(bs) : f[i] = f[i - 1] + (Len(bs[i].data) + f[i - 1])
            /\ NumDeleted(bs) = f[Len(bs)]
<1> DEFINE N == Len(bs)
           X == Nat
           e == 0
           T(i, d) == d + (Len(bs[i].data) + d)
           F(f) == [i \in 0 .. N |-> IF i = 0 THEN e ELSE T(i, f[i - 1])]
           turn == [i \in 1 .. N |-> [d \in X |-> T(i, d)]]
           g == CHOOSE h : h = F(h)
<1>1. N \in Nat /\ e \in X
  BY BodyData
<1>2. \A i \in 1 .. N : \A d \in X : T(i, d) \in X
  BY BodyData
<1>3. NumDeleted(bs) = g[N]
  BY DEF NumDeleted
<1> HIDE DEF N, X, e, T
<1>4. turn \in [1 .. N -> [X -> X]]
  BY <1>2
<1>5. PICK f : Computes(f, N, X, e, turn)
  <2> HIDE DEF turn, g, F
  <2> QED
    BY <1>1, <1>4, Iterate
<1>6. ASSUME NEW i \in 1 .. N PROVE f[i] = T(i, f[i - 1])
  <2>1. i - 1 \in 0 .. N
    BY <1>1
  <2>2. f[i - 1] \in X
    BY <1>5, <2>1 DEF Computes
  <2> QED
    BY <1>5, <2>2 DEF Computes
<1>7. f = F(f)
  <2> HIDE DEF turn, g
  <2> QED
    BY <1>1, <1>5, <1>6 DEF Computes
<1>8. g = F(g)
  <2> HIDE DEF F
  <2> QED
    BY <1>7
<1> HIDE DEF g, turn
<1>9. f[N] = g[N]
  <2>1. g[0] = e
    BY <1>1, <1>8
  <2>2. ASSUME NEW i \in 1 .. N PROVE g[i] = T(i, g[i - 1])
    BY <1>1, <1>8
  <2>3. f[0] = g[0]
    BY <1>5, <2>1 DEF Computes
  <2>4. \A i \in 1 .. N : f[i - 1] = g[i - 1] => f[i] = g[i]
    BY <1>6, <2>2
  <2> HIDE DEF F
  <2> QED
    BY <1>1, <2>3, <2>4, SameLoop
<1>10. f \in [0 .. N -> X] /\ f[0] = e
  BY <1>5 DEF Computes
<1> HIDE DEF F
<1> QED
  BY <1>3, <1>6, <1>9, <1>10 DEF N, X, e, T

LEMMA DupLoop ==
  ASSUME NEW data \in Seq(Int)
  PROVE  \E f \in [0 .. Len(data) -> Seq(Int)] :
            /\ f[0] = <<>>
            /\ \A i \in 1 .. Len(data) : f[i] = IF \E j \in 1 .. i - 1 : data[j] = data[i]
                                               THEN f[i - 1] ELSE Append(f[i - 1], data[i])
            /\ RemoveDuplicate(data) = f[Len(data)]
<1> DEFINE N == Len(data)
           X == Seq(Int)
           e == <<>>
           T(i, d) == IF \E j \in 1 .. i - 1 : data[j] = data[i] THEN d ELSE Append(d, data[i])
           F(f) == [i \in 0 .. N |-> IF i = 0 THEN e ELSE T(i, f[i - 1])]
           turn == [i \in 1 .. N |-> [d \in X |-> T(i, d)]]
           g == CHOOSE h : h = F(h)
<1>1. N \in Nat /\ e \in X
  OBVIOUS
<1>2. \A i \in 1 .. N : \A d \in X : T(i, d) \in X
  OBVIOUS
<1>3. RemoveDuplicate(data) = g[N]
  BY DEF RemoveDuplicate
<1> HIDE DEF N, X, e, T
<1>4. turn \in [1 .. N -> [X -> X]]
  BY <1>2
<1>5. PICK f : Computes(f, N, X, e, turn)
  <2> HIDE DEF turn, g, F
  <2> QED
    BY <1>1, <1>4, Iterate
<1>6. ASSUME NEW i \in 1 .. N PROVE f[i] = T(i, f[i - 1])
  <2>1. i - 1 \in 0 .. N
    BY <1>1
  <2>2. f[i - 1] \in X
    BY <1>5, <2>1 DEF Computes
  <2> QED
    BY <1>5, <2>2 DEF Computes
<1>7. f = F(f)
  <2> HIDE DEF turn, g
  <2> QED
    BY <1>1, <1>5, <1>6 DEF Computes
<1>8. g = F(g)
  <2> HIDE DEF F
  <2> QED
    BY <1>7
<1> HIDE DEF g, turn
<1>9. f[N] = g[N]
  <2>1. g[0] = e
    BY <1>1, <1>8
  <2>2. ASSUME NEW i \in 1 .. N PROVE g[i] = T(i, g[i - 1])
    BY <1>1, <1>8
  <2>3. f[0] = g[0]
    BY <1>5, <2>1 DEF Computes
  <2>4. \A i \in 1 .. N : f[i - 1] = g[i - 1] => f[i] = g[i]
    BY <1>6, <2>2
  <2> HIDE DEF F
  <2> QED
    BY <1>1, <2>3, <2>4, SameLoop
<1>10. f \in [0 .. N -> X] /\ f[0] = e
  BY <1>5 DEF Computes
<1> HIDE DEF F
<1> QED
  BY <1>3, <1>6, <1>9, <1>10 DEF N, X, e, T


LEMMA ElemsCat ==
  ASSUME NEW s \in Seq(Int), NEW t \in Seq(Int)
  PROVE  /\ Elems(s \o t) = Elems(s) \cup Elems(t)
         /\ Len(s \o t) = Len(s) + Len(t)
<1> DEFINE u == s \o t
<1>1. /\ Len(s) \in Nat /\ Len(t) \in Nat /\ Len(u) = Len(s) + Len(t)
      /\ \A i \in 1 .. Len(s) : u[i] = s[i]
      /\ \A i \in 1 .. Len(t) : u[Len(s) + i] = t[i]
  OBVIOUS
<1> HIDE DEF u
<1>2. ASSUME NEW i \in 1 .. Len(u) PROVE u[i] \in Elems(s) \cup Elems(t)
  <2>1. CASE i \in 1 .. Len(s)
    BY <1>1, <2>1 DEF Elems
  <2>2. CASE i - Len(s) \in 1 .. Len(t)
    <3>1. u[Len(s) + (i - Len(s))] = t[i - Len(s)] /\ Len(s) + (i - Len(s)) = i
      BY <1>1, <2>2
    <3> QED
      BY <2>2, <3>1 DEF Elems
  <2> QED
    BY <1>1, <2>1, <2>2
<1>3. ASSUME NEW i \in 1 .. Len(s) PROVE s[i] \in Elems(u)
  <2>1. i \in 1 .. Len(u)
    BY <1>1
  <2> QED
    BY <1>1, <2>1 DEF Elems
<1>4. ASSUME NEW i \in 1 .. Len(t) PROVE t[i] \in Elems(u)
  <2>1. Len(s) + i \in 1 .. Len(u)
    BY <1>1
  <2> QED
    BY <1>1, <2>1 DEF Elems
<1>5. Elems(u) \subseteq Elems(s) \cup Elems(t)
  BY <1>2 DEF Elems
<1>6. Elems(s) \subseteq Elems(u) /\ Elems(t) \subseteq Elems(u)
  BY <1>3, <1>4 DEF Elems
<1> QED
  BY <1>1, <1>5, <1>6 DEF u

LEMMA ConcatenatedIs ==
  ASSUME NEW bs \in Seq(Body)
  PROVE  /\ Concatenated(bs) \in Seq(Int)
         /\ Elems(Concatenated(bs)) = UNION {Elems(bs[i].data) : i \in 1 .. Len(bs)}
         /\ Len(Concatenated(bs)) = Total(bs)
<1> DEFINE N == Len(bs)
           Of(i) == UNION {Elems(bs[j].data) : j \in 1 .. i}
<1>1. PICK f \in [0 .. N -> Seq(Int)] : /\ f[0] = <<>>
                                        /\ \A i \in 1 .. N : f[i] = f[i - 1] \o bs[i].data
                                        /\ Concatenated(bs) = f[N]
  BY CatLoop
<1>2. PICK s \in [0 .. N -> Nat] : /\ s[0] = 0
                                   /\ \A i \in 1 .. N : s[i] = s[i - 1] + Len(bs[i].data)
                                   /\ Total(bs) = s[N]
  BY SumLoop
<1>3. N \in Nat /\ \A i \in 1 .. N : bs[i].data \in Seq(Int)
  BY BodyData
<1> DEFINE G == {i \in 0 .. N : Elems(f[i]) = Of(i) /\ Len(f[i]) = s[i]}
<1>4. 0 \in G
  <2>1. Elems(f[0]) = {} /\ Len(f[0]) = 0
    BY <1>1 DEF Elems
  <2>2. Of(0) = {}
    OBVIOUS
  <2> QED
    BY <1>2, <1>3, <2>1, <2>2
<1>5. ASSUME NEW i \in 1 .. N, i - 1 \in G PROVE i \in G
  <2>0. i \in 0 .. N /\ i - 1 \in 0 .. N
    BY <1>3
  <2>1. f[i - 1] \in Seq(Int) /\ bs[i].data \in Seq(Int) /\ f[i] = f[i - 1] \o bs[i].data
    BY <1>1, <1>3, <2>0
  <2>2. Elems(f[i]) = Elems(f[i - 1]) \cup Elems(bs[i].data)
        /\ Len(f[i]) = Len(f[i - 1]) + Len(bs[i].data)
    BY <2>1, ElemsCat
  <2>3. Of(i) = Of(i - 1) \cup Elems(bs[i].data)
    <3>1. 1 .. i = (1 .. (i - 1)) \cup {i}
      BY <1>3
    <3> QED
      BY <3>1
  <2> HIDE DEF Of
  <2>4. Elems(f[i - 1]) = Of(i - 1) /\ Len(f[i - 1]) = s[i - 1]
    BY <1>5
  <2>5. Elems(f[i]) = Of(i)
    BY <2>2, <2>3, <2>4
  <2>6. Len(f[i]) = s[i]
    BY <1>2, <2>2, <2>4
  <2> QED
    BY <2>0, <2>5, <2>6
<1>6. N \in G
  <2> HIDE DEF G
  <2> QED
    BY <1>3, <1>4, <1>5, UpTo
<1> QED
  BY <1>1, <1>2, <1>3, <1>6

LEMMA RemoveDuplicateIs ==
  ASSUME NEW data \in Seq(Int)
  PROVE  /\ RemoveDuplicate(data) \in Seq(Int)
         /\ Elems(RemoveDuplicate(data)) = Elems(data)
         /\ \A i, j \in 1 .. Len(RemoveDuplicate(data)) :
               RemoveDuplicate(data)[i] = RemoveDuplicate(data)[j] => i = j
<1> DEFINE N == Len(data)
           Of(i) == {data[j] : j \in 1 .. i}
           Inj(s) == \A i, j \in 1 .. Len(s) : s[i] = s[j] => i = j
<1>1. PICK f \in [0 .. N -> Seq(Int)] :
         /\ f[0] = <<>>
         /\ \A i \in 1 .. N : f[i] = IF \E j \in 1 .. i - 1 : data[j] = data[i]
                                       THEN f[i - 1] ELSE Append(f[i - 1], data[i])
         /\ RemoveDuplicate(data) = f[N]
  BY DupLoop
<1>2. N \in Nat /\ \A i \in 1 .. N : data[i] \in Int
  OBVIOUS
<1> DEFINE G == {i \in 0 .. N : Elems(f[i]) = Of(i) /\ Inj(f[i])}
<1>3. 0 \in G
  <2>1. Elems(f[0]) = {} /\ Inj(f[0])
    BY <1>1 DEF Elems
  <2>2. Of(0) = {}
    OBVIOUS
  <2> QED
    BY <1>2, <2>1, <2>2
<1>4. ASSUME NEW i \in 1 .. N, i - 1 \in G PROVE i \in G
  <2> DEFINE s == f[i - 1]
             x == data[i]
  <2>0. i \in 0 .. N /\ i - 1 \in 0 .. N
    BY <1>2
  <2>1. s \in Seq(Int) /\ x \in Int /\ f[i] = IF x \in Of(i - 1) THEN s ELSE Append(s, x)
    BY <1>1, <1>2, <2>0
  <2>2. Of(i) = Of(i - 1) \cup {x}
    <3>1. 1 .. i = (1 .. (i - 1)) \cup {i}
      BY <1>2
    <3> QED
      BY <3>1
  <2>3. Elems(s) = Of(i - 1) /\ Inj(s)
    BY <1>4
  <2> HIDE DEF Of, s, x
  <2>4. CASE x \in Elems(s)
    <3>1. f[i] = s /\ Of(i) = Of(i - 1)
      BY <2>1, <2>2, <2>3, <2>4
    <3> QED
      BY <2>0, <2>3, <3>1
  <2>5. CASE x \notin Elems(s)
    <3> DEFINE t == Append(s, x)
    <3>1. /\ Len(s) \in Nat /\ Len(t) = Len(s) + 1 /\ t[Len(s) + 1] = x
          /\ \A k \in 1 .. Len(s) : t[k] = s[k]
      BY <2>1
    <3> HIDE DEF t
    <3>2. \A k \in 1 .. Len(t) : k \in 1 .. Len(s) \/ k = Len(s) + 1
      BY <3>1
    <3>3. \A k \in 1 .. Len(s) : k \in 1 .. Len(t)
      BY <3>1
    <3>4. Len(s) + 1 \in 1 .. Len(t)
      BY <3>1
    <3>5. Elems(t) = Elems(s) \cup {x}
      BY <3>1, <3>2, <3>3, <3>4 DEF Elems
    <3>6. \A k \in 1 .. Len(s) : s[k] # x
      BY <2>5 DEF Elems
    <3>7. Inj(t)
      BY <2>3, <3>1, <3>2, <3>6
    <3>8. f[i] = t
      BY <2>1, <2>3, <2>5 DEF t
    <3>9. Elems(f[i]) = Of(i) /\ Inj(f[i])
      BY <2>2, <2>3, <3>5, <3>7, <3>8
    <3> HIDE DEF Inj
    <3> QED
      BY <2>0, <3>9
  <2> QED
    BY <2>4, <2>5
<1>5. N \in G
  <2> HIDE DEF G
  <2> QED
    BY <1>2, <1>3, <1>4, UpTo
<1>6. Elems(data) = Of(N)
  BY DEF Elems
<1>7. Elems(f[N]) = Of(N) /\ Inj(f[N]) /\ f[N] \in Seq(Int)
  <2> HIDE DEF Of, Inj
  <2> QED
    BY <1>2, <1>5
<1> HIDE DEF Of
<1> QED
  BY <1>1, <1>6, <1>7

LEMMA NumDeletedIs ==
  ASSUME NEW bs \in Seq(Body)
  PROVE  /\ NumDeleted(bs) \in Nat /\ Total(bs) \in Nat
         /\ NumDeleted(bs) >= Total(bs)
         /\ Len(bs) <= 1 => NumDeleted(bs) = Total(bs)
<1> DEFINE N == Len(bs)
<1>1. PICK f \in [0 .. N -> Nat] :
         /\ f[0] = 0
         /\ \A i \in 1 .. N : f[i] = f[i - 1] + (Len(bs[i].data) + f[i - 1])
         /\ NumDeleted(bs) = f[N]
  BY DelLoop
<1>2. PICK s \in [0 .. N -> Nat] : /\ s[0] = 0
                                   /\ \A i \in 1 .. N : s[i] = s[i - 1] + Len(bs[i].data)
                                   /\ Total(bs) = s[N]
  BY SumLoop
<1>3. N \in Nat /\ \A i \in 1 .. N : Len(bs[i].data) \in Nat
  BY BodyData
<1> DEFINE G == {i \in 0 .. N : f[i] >= s[i] /\ (i <= 1 => f[i] = s[i])}
<1>4. 0 \in G
  BY <1>1, <1>2, <1>3
<1>5. ASSUME NEW i \in 1 .. N, i - 1 \in G PROVE i \in G
  <2>1. i \in 0 .. N /\ i - 1 \in 0 .. N
    BY <1>3
  <2>2. /\ f[i] = f[i - 1] + (Len(bs[i].data) + f[i - 1])
        /\ s[i] = s[i - 1] + Len(bs[i].data)
        /\ f[i - 1] \in Nat /\ s[i - 1] \in Nat /\ Len(bs[i].data) \in Nat
    BY <1>1, <1>2, <1>3, <2>1
  <2>3. f[i - 1] >= s[i - 1] /\ (i = 1 => f[i - 1] = 0 /\ s[i - 1] = 0)
    BY <1>1, <1>2, <1>5
  <2>4. f[i] >= s[i] /\ (i <= 1 => f[i] = s[i])
    BY <2>2, <2>3
  <2> QED
    BY <2>1, <2>4
<1>6. N \in G
  <2> HIDE DEF G
  <2> QED
    BY <1>3, <1>4, <1>5, UpTo
<1> QED
  BY <1>1, <1>2, <1>3, <1>6

LEMMA SortedIs ==
  ASSUME NEW data \in Seq(Int), \A i, j \in 1 .. Len(data) : data[i] = data[j] => i = j
  PROVE  /\ Len(Sorted(data)) = Len(data)
         /\ Elems(Sorted(data)) = Elems(data)
         /\ \A k \in 1 .. Len(data) - 1 : Sorted(data)[k] < Sorted(data)[k + 1]
<1> DEFINE N == Len(data)
           D == 1 .. N
           Below(i) == {j \in D : data[j] < data[i] \/ (data[j] = data[i] /\ j <= i)}
           rank == [i \in D |-> Cardinality(Below(i))]
           at == [k \in D |-> CHOOSE i \in D : Cardinality(Below(i)) = k]
<1>1. N \in Nat /\ \A i \in D : data[i] \in Int
  OBVIOUS
<1>2. IsFiniteSet(D) /\ Cardinality(D) = N
  <2>1. 1 \in Int /\ N \in Int /\ (IF 1 > N THEN 0 ELSE N - 1 + 1) = N
    BY <1>1
  <2> HIDE DEF N
  <2> QED
    BY <2>1, FS_Interval
<1>3. ASSUME NEW i \in D
      PROVE  /\ IsFiniteSet(Below(i)) /\ i \in Below(i)
             /\ rank[i] \in D
  <2>1. Below(i) \in SUBSET D /\ i \in Below(i)
    BY <1>1
  <2> HIDE DEF D, Below
  <2>2. /\ IsFiniteSet(Below(i))
        /\ Cardinality(Below(i)) <= N
        /\ Cardinality(Below(i)) \in Nat
    BY <1>2, <2>1, FS_Subset, FS_CardinalityType
  <2>3. Cardinality(Below(i)) # 0
    BY <2>1, <2>2, FS_EmptySet
  <2>4. Cardinality(Below(i)) \in D
    BY <1>1, <2>2, <2>3 DEF D
  <2> QED
    BY <2>1, <2>2, <2>4
<1>4. ASSUME NEW i \in D, NEW j \in D, data[i] < data[j] PROVE rank[i] < rank[j]
  <2>1. Below(i) \in SUBSET Below(j) /\ j \in Below(j) /\ j \notin Below(i)
    BY <1>1, <1>4
  <2>2. /\ IsFiniteSet(Below(j)) /\ IsFiniteSet(Below(i))
    BY <1>3
  <2> HIDE DEF Below, D
  <2>3. /\ Cardinality(Below(i)) <= Cardinality(Below(j))
        /\ Cardinality(Below(i)) # Cardinality(Below(j))
        /\ Cardinality(Below(i)) \in Nat /\ Cardinality(Below(j)) \in Nat
    BY <2>1, <2>2, FS_Subset, FS_CardinalityType
  <2> QED
    BY <2>3
<1>5. rank \in [D -> D]
  <2> HIDE DEF Below, D
  <2> QED
    BY <1>3
<1>0. /\ Sorted(data) = [k \in D |-> data[at[k]]]
      /\ \A i \in D : rank[i] = Cardinality(Below(i))
  BY DEF Sorted
<1> HIDE DEF rank
<1>6. \A i, j \in D : rank[i] = rank[j] => i = j
  <2> SUFFICES ASSUME NEW i \in D, NEW j \in D, rank[i] = rank[j], i # j PROVE FALSE
    OBVIOUS
  <2>1. data[i] < data[j] \/ data[j] < data[i]
    BY <1>1
  <2>2. rank[i] \in Int /\ rank[j] \in Int
    BY <1>1, <1>5
  <2> HIDE DEF D
  <2> QED
    BY <1>4, <2>1, <2>2
<1>7. \A k \in D : \E i \in D : rank[i] = k
  <2> HIDE DEF D
  <2>1. rank \in Injection(D, D)
    BY <1>5, <1>6 DEF Injection, IsInjective
  <2>2. rank \in Surjection(D, D)
    BY <1>2, <2>1, FS_Injection
  <2> QED
    BY <2>2 DEF Surjection
<1>8. \A k \in D : at[k] \in D /\ rank[at[k]] = k
  <2> HIDE DEF D, Below
  <2> QED
    BY <1>0, <1>7
<1>9. Sorted(data) = [k \in D |-> data[at[k]]]
  BY <1>0
<1> HIDE DEF at, D
<1>10. Sorted(data) \in Seq(Int) /\ Len(Sorted(data)) = N
  BY <1>1, <1>8, <1>9 DEF D
<1>11. \A k \in D : Sorted(data)[k] = data[at[k]]
  BY <1>9
<1>12. ASSUME NEW i \in D PROVE at[rank[i]] = i
  BY <1>5, <1>6, <1>8
<1>13. Elems(Sorted(data)) = {Sorted(data)[k] : k \in D}
  BY <1>10 DEF Elems, D
<1>14. Elems(data) = {data[k] : k \in D}
  BY DEF Elems, D
<1>15. Elems(Sorted(data)) = Elems(data)
  BY <1>5, <1>8, <1>11, <1>12, <1>13, <1>14
<1>16. ASSUME NEW k \in 1 .. N - 1 PROVE Sorted(data)[k] < Sorted(data)[k + 1]
  <2>1. k \in D /\ k + 1 \in D /\ k + 1 # k /\ ~ (k + 1 < k)
    BY <1>1 DEF D
  <2>2. at[k] \in D /\ at[k + 1] \in D /\ rank[at[k]] = k /\ rank[at[k + 1]] = k + 1
    BY <1>8, <2>1
  <2>3. at[k] # at[k + 1]
    BY <2>1, <2>2
  <2>4. ~ (data[at[k + 1]] < data[at[k]])
    BY <1>4, <2>1, <2>2
  <2>5. data[at[k]] # data[at[k + 1]]
    BY <2>2, <2>3 DEF D
  <2>6. data[at[k]] < data[at[k + 1]]
    BY <1>1, <2>2, <2>4, <2>5
  <2> QED
    BY <1>11, <2>1, <2>6
<1> QED
  BY <1>10, <1>15, <1>16

-----------------------------------------------------------------------------
\* A response with the status 200 to a request of the proxy is what the
\* handler makes of the bodies that the connection holds.
Merged(c) ==
  conn[c].state = "done" /\ conn[c].code = 200 /\ conn[c].kind \in ProxyKinds =>
     conn[c].data = MergedData(conn[c].kind, BodysOf(c))

MergedInv == \A c \in Conns : Merged(c)

\* A step that changes neither the slice nor the bodies of a connection that
\* is answered then.
LEMMA MergedStep ==
  ASSUME MergedInv, BodysInv,
         \A c \in Conns :
            \/ ~ (conn'[c].state = "done" /\ conn'[c].code = 200 /\ conn'[c].kind \in ProxyKinds)
            \/ /\ conn'[c].bodys = conn[c].bodys
               /\ \A t \in Targets : task'[<<c, t>>].body = task[<<c, t>>].body
               /\ \/ conn'[c] = conn[c]
                  \/ conn'[c].data = MergedData(conn'[c].kind, BodysOf(c))
  PROVE  MergedInv'
<1>1. ASSUME NEW c \in Conns PROVE Merged(c)'
  <2> SUFFICES ASSUME conn'[c].state = "done", conn'[c].code = 200, conn'[c].kind \in ProxyKinds
               PROVE  conn'[c].data = MergedData(conn'[c].kind, BodysOf(c)')
    BY DEF Merged
  <2>1. /\ conn'[c].bodys = conn[c].bodys
        /\ \A t \in Targets : task'[<<c, t>>].body = task[<<c, t>>].body
        /\ \/ conn'[c] = conn[c]
           \/ conn'[c].data = MergedData(conn'[c].kind, BodysOf(c))
    OBVIOUS
  <2>2. \A i \in DOMAIN conn[c].bodys : conn[c].bodys[i] # Nil => conn[c].bodys[i] \in Targets
    BY DEF BodysInv, Consistent, Collecting, Elem
  <2>3. BodysOf(c)' = BodysOf(c)
    BY <2>1, <2>2 DEF BodysOf
  <2>4. conn'[c] = conn[c] => conn'[c].data = MergedData(conn'[c].kind, BodysOf(c))
    BY DEF MergedInv, Merged
  <2> QED
    BY <2>1, <2>3, <2>4
<1> QED
  BY <1>1 DEF MergedInv

LEMMA RespondMerged ==
  ASSUME MergedInv, BodysInv, NEW c \in Conns, NEW k, NEW status, NEW data,
         Respond(c, k, status, data), UNCHANGED task,
         status = 200 /\ k \in ProxyKinds => data = MergedData(k, BodysOf(c))
  PROVE  MergedInv'
<1> DEFINE n == [conn[c] EXCEPT !.state = "done", !.kind = k, !.code = status, !.data = data]
<1>1. IsConn(conn[c])
  BY DEF BodysInv, ConnTypes
<1>2. IsConn(n) /\ n.bodys = conn[c].bodys /\ n.kind = k /\ n.code = status /\ n.data = data
  BY <1>1 DEF IsConn, ConnFields
<1>3. conn' = [conn EXCEPT ![c] = n]
  BY DEF Respond
<1> HIDE DEF n
<1>4. \A d \in Conns : conn'[d] = IF d = c THEN n ELSE conn[d]
  BY <1>2, <1>3, ConnUpdate DEF BodysInv
<1> QED
  BY <1>2, <1>4, MergedStep

\* The connection goes on, or its handler panics.
LEMMA GoesOnMerged ==
  ASSUME MergedInv, BodysInv, NEW c \in Conns, NEW n, IsConn(n), n.state # "done",
         conn' = [conn EXCEPT ![c] = n],
         \A d \in Conns, t \in Targets : task'[<<d, t>>].body = task[<<d, t>>].body
  PROVE  MergedInv'
<1>1. ConnTypes
  BY DEF BodysInv
<1>2. \A d \in Conns : conn'[d] = IF d = c THEN n ELSE conn[d]
  BY <1>1 DEF ConnTypes
<1> QED
  BY <1>2, MergedStep

\* A goroutine goes on: the connection of one that takes an answer has not been
\* answered, and an append leaves the bodies alone.
LEMMA DoMerged ==
  ASSUME MergedInv, BodysInv, NEW c \in Conns, NEW t \in Targets, NEW body \in Bodies,
         Do(<<c, t>>, body)
  PROVE  MergedInv'
<1>1. UNCHANGED conn /\ task[<<c, t>>].pc = "do"
  BY DEF Do
<1>2. \A d \in Conns, u \in Targets : d # c \/ u # t => task'[<<d, u>>] = task[<<d, u>>]
  BY DoKeeps
<1>3. conn[c].state # "done"
  BY <1>1, Busy DEF Returned
<1>4. \A d \in Conns : d # c => \A u \in Targets : task'[<<d, u>>].body = task[<<d, u>>].body
  BY <1>2
<1> QED
  BY <1>1, <1>3, <1>4, MergedStep

LEMMA AppendStepMerged ==
  ASSUME MergedInv, BodysInv, NEW c \in Conns, NEW t \in Targets, AppendStep(<<c, t>>)
  PROVE  MergedInv'
<1>1. UNCHANGED conn
  BY DEF AppendStep, Load, Grow, InPlace, StoreCap, StorePtr, ReloadPtr, StoreLen, StoreElem, Faults
<1>2. UNCHANGED task \/ \E from, to \in Pcs : Goto(<<c, t>>, from, to)
  <2>1. CASE \E w \in Words : Load(<<c, t>>, w)
    <3>1. PICK to \in {"append", "load"} : Goto(<<c, t>>, "load", to)
      BY <2>1 DEF Load
    <3> QED
      BY <3>1 DEF Pcs
  <2>2. CASE \E v \in Targets \cup {Nil} : StoreElem(<<c, t>>, v)
    BY <2>2 DEF StoreElem, Pcs
  <2>3. CASE Faults(<<c, t>>)
    BY <2>3 DEF Faults
  <2>4. CASE Grow(<<c, t>>) \/ InPlace(<<c, t>>)
    BY <2>4 DEF Grow, InPlace, Pcs
  <2>5. CASE StoreCap(<<c, t>>) \/ StorePtr(<<c, t>>) \/ ReloadPtr(<<c, t>>) \/ StoreLen(<<c, t>>)
    BY <2>5 DEF StoreCap, StorePtr, ReloadPtr, StoreLen, Pcs
  <2> QED
    BY <2>1, <2>2, <2>3, <2>4, <2>5 DEF AppendStep
<1>3. \A d \in Conns, u \in Targets : task'[<<d, u>>].body = task[<<d, u>>].body
  BY <1>2, GotoIs DEF BodysInv
<1> QED
  BY <1>1, <1>3, MergedStep

LEMMA ProxyReqMerged ==
  ASSUME MergedInv, BodysInv, NEW c \in Conns, NEW k, NEW S \in SUBSET Targets, ProxyReq(c, k, S)
  PROVE  MergedInv'
<1> DEFINE n == [conn[c] EXCEPT !.state = "wait", !.kind = k, !.asked = S]
<1>1. IsConn(conn[c])
  BY DEF BodysInv, ConnTypes
<1>2. IsConn(n) /\ n.state = "wait"
  BY <1>1 DEF IsConn, ConnFields
<1>3. conn' = [conn EXCEPT ![c] = n]
  BY DEF ProxyReq
<1> HIDE DEF n
<1>4. \A d \in Conns, t \in Targets : task'[<<d, t>>].body = task[<<d, t>>].body
  BY ProxyReqKeeps
<1> QED
  BY <1>2, <1>3, <1>4, GoesOnMerged

LEMMA ProxyReturnsMerged ==
  ASSUME MergedInv, BodysInv, NEW c \in Conns, ProxyReturns(c)
  PROVE  MergedInv'
<1> DEFINE b == SubSeq(ArrayAt(c, slice[c].ptr), 1, slice[c].len)
           n == [conn[c] EXCEPT !.state = "merge", !.bodys = b]
<1>1. UNCHANGED task /\ (UNCHANGED conn \/ conn' = [conn EXCEPT ![c] = n])
  BY DEF ProxyReturns
<1>2. IsConn(conn[c])
  BY DEF BodysInv, ConnTypes
<1> HIDE DEF b
<1>3. IsConn(n) /\ n.state = "merge"
  BY <1>2 DEF IsConn, ConnFields
<1> HIDE DEF n
<1>4. CASE UNCHANGED conn
  BY <1>1, <1>4, MergedStep
<1> QED
  BY <1>1, <1>3, <1>4, GoesOnMerged

LEMMA MergeMerged ==
  ASSUME MergedInv, BodysInv, NEW c \in Conns, Merge(c)
  PROVE  MergedInv'
<1>1. UNCHANGED task
  BY DEF Merge
<1>2. CASE conn' = [conn EXCEPT ![c].state = "aborted"]
  <2> DEFINE n == [conn[c] EXCEPT !.state = "aborted"]
  <2>1. IsConn(conn[c])
    BY DEF BodysInv, ConnTypes
  <2>2. IsConn(n) /\ n.state = "aborted"
    BY <2>1 DEF IsConn, ConnFields
  <2>3. conn' = [conn EXCEPT ![c] = n]
    BY <1>2
  <2> HIDE DEF n
  <2> QED
    BY <1>1, <2>2, <2>3, GoesOnMerged
<1>3. CASE Respond(c, conn[c].kind, 200, MergedData(conn[c].kind, BodysOf(c)))
  BY <1>1, <1>3, RespondMerged
<1> QED
  BY <1>2, <1>3, Zenon DEF Merge

LEMMA PostReloadMerged ==
  ASSUME MergedInv, BodysInv, NEW c \in Conns, PostReload(c)
  PROVE  MergedInv'
<1> DEFINE n == [conn[c] EXCEPT !.state = "hung", !.kind = "reload"]
<1>1. IsConn(conn[c])
  BY DEF BodysInv, ConnTypes
<1>2. IsConn(n) /\ n.state = "hung"
  BY <1>1 DEF IsConn, ConnFields
<1>3. conn' = [conn EXCEPT ![c] = n] /\ UNCHANGED task
  BY DEF PostReload
<1> HIDE DEF n
<1> QED
  BY <1>2, <1>3, GoesOnMerged

LEMMA RequestMerged ==
  ASSUME MergedInv, BodysInv, NEW c \in Conns, RequestStep(c)
  PROVE  MergedInv'
<1>1. CASE \E k \in KindsOf[c], S \in SUBSET Targets : ProxyReq(c, k, S)
  BY <1>1, ProxyReqMerged
<1>2. CASE Options(c)
  <2>1. "options" \notin ProxyKinds
    BY DEF ProxyKinds, Listing, Checked
  <2> QED
    BY <1>2, <2>1, RespondMerged DEF Options
<1>3. CASE \E k \in KindsOf[c] : Query(c, k)
  <2>1. PICK k \in KindsOf[c] : Query(c, k)
    BY <1>3
  <2>2. k \notin ProxyKinds
    BY <2>1 DEF Query, ProxyKinds, Listing, Checked
  <2>3. PICK status : Respond(c, k, status, <<>>)
    BY <2>1 DEF Query
  <2>4. UNCHANGED task
    BY <2>1 DEF Query
  <2> QED
    BY <2>2, <2>3, <2>4, RespondMerged
<1>4. CASE \E k \in KindsOf[c] : Reject(c, k)
  <2>1. StatusOf["bad_data"] = 400
    BY DEF StatusOf
  <2> QED
    BY <1>4, <2>1, RespondMerged DEF Reject
<1> QED
  BY <1>1, <1>2, <1>3, <1>4 DEF RequestStep

LEMMA MergedInvNext == BodysInv /\ MergedInv /\ [Next]_vars => MergedInv'
<1> SUFFICES ASSUME BodysInv, MergedInv, [Next]_vars PROVE MergedInv'
  OBVIOUS
<1>1. CASE UNCHANGED <<conn, task>>
  BY <1>1 DEF MergedInv, Merged, BodysOf
<1>2. CASE ParseFails \/ PrintVersion \/ Parsed \/ Killed \/ Start \/ EnterSelect \/ Leave \/ Stop
           \/ Hup \/ ReloadStep \/ Listen \/ ServeFails \/ UNCHANGED vars
  BY <1>1, <1>2 DEF ParseFails, PrintVersion, Parsed, Killed, Start, EnterSelect, Leave, Stop,
    Hup, ReloadStep, LoadFails, LoadFile, Apply, ApplyFails, Listen, ServeFails, vars, apiVars
<1>3. CASE \E c \in Conns : PostReload(c) \/ Request(c)
  BY <1>3, PostReloadMerged, RequestMerged DEF Request
<1>4. CASE \E c \in Conns : HandlerStep(c)
  BY <1>4, ProxyReturnsMerged, MergeMerged DEF HandlerStep
<1>5. CASE \E g \in Conns \X Targets : GoroutineStep(g)
  <2>1. PICK c \in Conns, t \in Targets : GoroutineStep(<<c, t>>)
    BY <1>5
  <2>2. CASE DoFails(<<c, t>>)
    BY <1>1, <2>2 DEF DoFails
  <2> QED
    BY <2>1, <2>2, DoMerged, AppendStepMerged DEF GoroutineStep
<1> QED
  BY <1>2, <1>3, <1>4, <1>5 DEF Next, Serve, ApiNext

\* What the handlers compute, for any bodies.
LEMMA MergedDataIs ==
  ASSUME NEW bs \in Seq(Body), NEW k, NEW data, data = MergedData(k, bs)
  PROVE  LET values == UNION {Elems(bs[i].data) : i \in DOMAIN bs} IN
         /\ k = "label_values" =>
              Elems(data) = values /\ \A i \in 1 .. Len(data) - 1 : data[i] < data[i + 1]
         /\ k \in Listing => Elems(data) = values /\ Len(data) = Total(bs)
         /\ k = "drop_series" =>
              data[1] >= Total(bs) /\ (Len(bs) <= 1 => data[1] = Total(bs))
<1> DEFINE values == UNION {Elems(bs[i].data) : i \in DOMAIN bs}
           all == Concatenated(bs)
<1>1. DOMAIN bs = 1 .. Len(bs)
  OBVIOUS
<1>2. all \in Seq(Int) /\ Elems(all) = values /\ Len(all) = Total(bs)
  BY <1>1, ConcatenatedIs
<1> HIDE DEF all, values
<1>3. ASSUME k = "label_values"
      PROVE  Elems(data) = values /\ \A i \in 1 .. Len(data) - 1 : data[i] < data[i + 1]
  <2> DEFINE kept == RemoveDuplicate(all)
  <2>1. data = Sorted(kept)
    BY <1>3 DEF MergedData, all
  <2>2. /\ kept \in Seq(Int) /\ Elems(kept) = values
        /\ \A i, j \in 1 .. Len(kept) : kept[i] = kept[j] => i = j
    BY <1>2, RemoveDuplicateIs
  <2> HIDE DEF kept
  <2> QED
    BY <2>1, <2>2, SortedIs
<1>4. ASSUME k \in Listing PROVE Elems(data) = values /\ Len(data) = Total(bs)
  BY <1>2, <1>4 DEF MergedData, Listing, all
<1>5. ASSUME k = "drop_series"
      PROVE  data[1] >= Total(bs) /\ (Len(bs) <= 1 => data[1] = Total(bs))
  <2>1. data = <<NumDeleted(bs)>>
    BY <1>5 DEF MergedData
  <2> QED
    BY <2>1, NumDeletedIs
<1> QED
  BY <1>3, <1>4, <1>5 DEF values

\* What the client of the proxy gets, with any number of targets, any bodies
\* and any order of the appends: API.ResponseMerged.
THEOREM ResponsesMerged == Spec => []ResponseMerged
<1>1. Init => MergedInv
  <2> SUFFICES ASSUME Init PROVE MergedInv
    OBVIOUS
  <2>1. conn = [c \in Conns |-> Idle]
    BY DEF Init, ApiInit
  <2>2. Idle.state = "idle"
    BY DEF Idle
  <2> QED
    BY <2>1, <2>2 DEF MergedInv, Merged
<1>2. BodysInv /\ MergedInv => ResponseMerged
  <2> SUFFICES ASSUME BodysInv, MergedInv, NEW c \in Conns,
                      conn[c].state = "done", conn[c].code = 200
               PROVE  LET bs     == BodysOf(c)
                          data   == conn[c].data
                          values == UNION {Elems(bs[i].data) : i \in DOMAIN bs}
                      IN CASE conn[c].kind = "label_values" ->
                                /\ Elems(data) = values
                                /\ \A i \in 1 .. Len(data) - 1 : data[i] < data[i + 1]
                           [] conn[c].kind \in Listing ->
                                Elems(data) = values /\ Len(data) = Total(bs)
                           [] conn[c].kind = "drop_series" ->
                                data[1] >= Total(bs) /\ (Len(bs) <= 1 => data[1] = Total(bs))
                           [] OTHER -> TRUE
    BY DEF ResponseMerged
  <2> DEFINE bs == BodysOf(c)
             k  == conn[c].kind
             data == conn[c].data
  <2>1. bs \in Seq(Body)
    <3>1. conn[c].bodys \in Seq(Elem)
      BY DEF BodysInv, Consistent, Collecting
    <3>2. NoBody \in Body /\ \A t \in Targets : task[<<c, t>>].body \in Body
      BY DEF BodysInv, TaskTypes, Goroutines, NoBody, Body
    <3>3. DOMAIN conn[c].bodys = 1 .. Len(conn[c].bodys) /\ Len(conn[c].bodys) \in Nat
      BY <3>1
    <3>4. bs \in [1 .. Len(conn[c].bodys) -> Body]
      BY <3>1, <3>2, <3>3 DEF BodysOf, Elem
    <3> QED
      BY <3>3, <3>4
  <2>2. k \in ProxyKinds => data = MergedData(k, bs)
    BY DEF MergedInv, Merged
  <2>3. k = "label_values" \/ k \in Listing \/ k = "drop_series" => k \in ProxyKinds
    BY DEF ProxyKinds, Checked
  <2>4. k \notin Listing \/ (k # "label_values" /\ k # "drop_series")
    BY DEF Listing
  <2> HIDE DEF bs, k, data
  <2>5. k \in ProxyKinds =>
         LET values == UNION {Elems(bs[i].data) : i \in DOMAIN bs} IN
         /\ k = "label_values" =>
              Elems(data) = values /\ \A i \in 1 .. Len(data) - 1 : data[i] < data[i + 1]
         /\ k \in Listing => Elems(data) = values /\ Len(data) = Total(bs)
         /\ k = "drop_series" =>
              data[1] >= Total(bs) /\ (Len(bs) <= 1 => data[1] = Total(bs))
    BY <2>1, <2>2, MergedDataIs
  <2> QED
    BY <2>3, <2>4, <2>5 DEF bs, k, data
<1>3. Spec => []BodysInv
  BY InitBodys, BodysInvNext, PTL DEF Spec
<1> QED
  BY <1>1, <1>2, <1>3, MergedInvNext, PTL DEF Spec
=============================================================================
