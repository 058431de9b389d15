----------------------------- MODULE Operators ------------------------------
(***************************************************************************)
(* What the pure algorithms promise for one input: the external labels and *)
(* the window of a remote read (module ReadQuery), the merge of the        *)
(* samples of a series (SampleMerge), the parameters of a range query      *)
(* (RangeQuery) and the labels of targets (TargetLabels).  MCOperators has *)
(* TLC look at all small inputs, OperatorsProofs proves the promises for   *)
(* the inputs below, however large.                                        *)
(***************************************************************************)
EXTENDS ReadQuery, RangeQuery, SampleMerge, TargetLabels

VARIABLES
  kind,    \* the algorithm the input is for
  input    \* the input

\* What querier.read is called with.
Reads == [external: LabelSets, matchers: SUBSET Matchers]

\* Windows of at least the two seconds between two instants.
Windows ==
  {w \in [from: Int, through: Int] : w.from + TicksPerSecond * Step <= w.through}

\* Parameters of a request, as they are sent.
Params ==
  [form: {"float", "text"}, value: Int] \cup [form: {"nan", "bad", ""}]

RangeParams == [start: Params, end: Params, step: Params, timeout: Params]

\* A mergeIterator and an interval to read of it.
MergeReads ==
  {r \in [local: Streams, remote: Seq(Streams), from: Int, through: Int] : r.from <= r.through}

\* The samples of the first n remotes for whose time no remote before has one.
FirstSamples(remote, n) ==
  UNION {{s \in Elems(remote[i]) :
            \A j \in 1 .. i - 1 : \A x \in Elems(remote[j]) : x.Timestamp # s.Timestamp} :
         i \in 1 .. n}

\* The metric.Interval of such a read.
Interval(r) == [OldestInclusive |-> r.from, NewestInclusive |-> r.through]

\* The targets of a group and the configuration of their job.
LabelSet == UNION {[D -> STRING] : D \in SUBSET STRING}

Groups == [Labels: LabelSet, Targets: Seq(LabelSet)]

\* The rules to relabel targets, by what they need.
Filters    == [Action: {"keep", "drop"}, SourceLabels: Seq(STRING),
               Regex: SUBSET Seq(STRING)]
Replaces   == UNION {[Action: {"replace"}, SourceLabels: Seq(STRING), TargetLabel: STRING,
                      Expand: [V -> [Target: STRING, Replacement: STRING]]] :
                     V \in SUBSET Seq(STRING)}
HashMods   == UNION {[Action: {"hashmod"}, SourceLabels: Seq(STRING), TargetLabel: STRING,
                      Hash: [V -> STRING]] : V \in SUBSET Seq(STRING)}
LabelMaps  == UNION {[Action: {"labelmap"}, Renamed: [D -> STRING]] : D \in SUBSET STRING}
LabelDrops == [Action: {"labeldrop", "labelkeep"}, Regex: SUBSET STRING]

Rules == Filters \cup Replaces \cup HashMods \cup LabelMaps \cup LabelDrops

ScrapeConfigs ==
  UNION {[Scheme: STRING, MetricsPath: STRING, JobName: STRING, RelabelConfigs: Seq(Rules),
          Params: [P -> Seq(STRING)]] : P \in SUBSET {ParamOf[n] : n \in DOMAIN ParamOf}}

TargetReads == [group: Groups, cfg: ScrapeConfigs]

-----------------------------------------------------------------------------
\* mergeIterator.RangeValues returns, in strictly increasing order of time,
\* the local samples of the interval and of the remotes' those that are older
\* than the first local one in it (not in the series: see RangeAsDocumented),
\* each once; the order in which the remotes answered decides nothing but
\* whose sample is kept where several have one for the same time.
RangeIsReference ==
  kind = "merge" =>
    LET values    == RangeValues(input, Interval(input))
        Within(s) == input.from <= s.Timestamp /\ s.Timestamp <= input.through
        own       == {s \in Elems(input.local) : Within(s)}
        old       == {s \in FirstSamples(input.remote, Len(input.remote)) :
                        Within(s) /\ \A l \in own : s.Timestamp < l.Timestamp}
    IN /\ \A i \in 1 .. Len(values) - 1 : values[i].Timestamp < values[i + 1].Timestamp
       /\ Elems(values) = own \cup old

\* The samples that the comment on mergeIterator lets a read consider: all
\* local ones, and of the remotes' "only ... before the first local sample of
\* a series".
Considered ==
  Elems(input.local)
    \cup {s \in FirstSamples(input.remote, Len(input.remote)) :
            \A l \in Elems(input.local) : s.Timestamp < l.Timestamp}

\* mergeIterator.ValueAtOrBeforeTime keeps to that comment: its value is the
\* newest sample at or before the time among those to be considered, and
\* ZeroSamplePair just when there is none.
PointAsDocumented ==
  kind = "merge" =>
    LET v      == ValueAtOrBeforeTime(input, input.through)
        before == {s \in Considered : s.Timestamp <= input.through}
    IN IF before = {} THEN v = ZeroSamplePair
       ELSE v \in before /\ \A s \in before : s.Timestamp <= v.Timestamp

\* "If a series has samples in a local iterator, remote samples are only
\* considered before the first local sample of a series" (fanin.go, on
\* mergeIterator): so no read of a range returns a later one.  RangeValues
\* takes the first local sample of the interval for that of the series.
RangeAsDocumented ==
  kind = "merge" => Elems(RangeValues(input, Interval(input))) \subseteq Considered

\* Adding and removing external labels (querier.read): the series that are
\* left match what the user asked for, and no two series of a remote become
\* one, which would let mergeIterators put two streams of one remote into the
\* same mergeIterator.
ReadKeepsSeriesApart ==
  kind = "read" =>
    LET sent  == AddExternalLabels(input.external, input.matchers)
        added == External(input.external, input.matchers)
    IN /\ \A metric \in Read(LabelSets, input.external, input.matchers) :
             Matches(metric, input.matchers)
       /\ \A s, t \in {l \in LabelSets : Matches(l, sent)} :
             RemoveLabels(s, added) = RemoveLabels(t, added) => s = t

\* Client.Read rounds both ends of a query to seconds and asks for every
\* second second: a window of two seconds or more still has an instant in
\* it, also before 1970, and so has that of an instant query whose staleness
\* delta is that long.
WindowIsSampled ==
  kind = "window" =>
    LET w == InstantWindow(input.through, input.through - input.from)
    IN \E t \in Instants(w) : w.from <= t /\ t <= w.through

\* queryRange refuses no range for its resolution that the engine would go
\* through in at most 11,000 steps: neither the wrapping of the length nor the
\* part of the step that the engine drops makes the test refuse a short range.
\* The test is no limit on the steps: the same two let longer ones pass.
ShortRangesAccepted ==
  kind = "range"
    /\ (\A p \in {input.start, input.end, input.step} : ~ Unparsable(p))
    /\ input.timeout.form = "" =>
    \A r \in [start: ParseTime(input.start), end: ParseTime(input.end),
              step: ParseDuration(input.step)] :
      r.start <= r.end /\ r.step >= NanosPerTick /\ Steps(r) <= MaxPoints =>
        r \in EngineRanges(input.start, input.end, input.step, input.timeout)

\* A target can be dialled, where said are its labels after relabelling: its
\* address has a port, that of its own scheme if none was given (an address
\* that no port makes valid stays as it is), its instance is the one that was
\* said, else this address, and neither a meta label nor an invalid value is
\* left.
Dialable(said, lset) ==
  LET addr == said["__address__"]
      port == CASE At(said, "__scheme__") \in {"", "http"} -> ":80"
                [] At(said, "__scheme__") = "https"        -> ":443"
  IN /\ addr \notin Slashed
     /\ lset["__address__"] = IF addr \in BareHosts \ HostPorts THEN addr \o port ELSE addr
     /\ lset["instance"] = At(FillIn(said, Label("instance", lset["__address__"])), "instance")
     /\ \A name \in DOMAIN lset : name \notin MetaLabels /\ lset[name] \notin InvalidValues

\* Whether a rule can set or delete a label.
Touches(rule, name) ==
  CASE rule.Action = "replace"   ->
         name \in {rule.TargetLabel} \cup {rule.Expand[v].Target : v \in DOMAIN rule.Expand}
    [] rule.Action = "hashmod"   -> name = rule.TargetLabel
    [] rule.Action = "labelmap"  ->
         name \in {rule.Renamed[m] : m \in DOMAIN rule.Renamed}
    [] rule.Action = "labeldrop" -> name \in rule.Regex
    [] rule.Action = "labelkeep" -> name \notin rule.Regex
    [] OTHER                     -> FALSE

\* The parameters of the configuration go through the labels of a target and
\* come out of Target.URL as they were, all values in their order, unless a
\* rule touches the label: then the value that relabelling leaves is the
\* first one.  What discovery says of a parameter counts only where the
\* configuration has no value.
ParamsKept(own, said, cfg, params) ==
  LET Of(ps, k)   == IF k \in DOMAIN ps THEN ps[k] ELSE <<>>
      Touched(n)  == \E r \in Elems(cfg.RelabelConfigs) : Touches(r, n)
      Rest(vs)    == SubSeq(vs, 2, Len(vs))
  IN \A n \in DOMAIN ParamOf :
       LET asked == Of(cfg.Params, ParamOf[n])
       IN Of(params, ParamOf[n]) =
            IF ~ Touched(n) THEN IF asked # <<>> THEN asked ELSE IF Has(own, n) THEN <<own[n]>> ELSE <<>>
            ELSE IF Has(said, n) THEN <<said[n]>> \o Rest(asked)
            ELSE asked

\* targetsFromGroup: the targets of a group are those that no rule drops, in
\* their order; they can be dialled, and their URLs have the parameters of the
\* configuration (Dialable and ParamsKept).  One bad target leaves none of its
\* group, and nothing else does.  The API's proxy sends its requests to the
\* instances of the targets whose job is allprometheus.
TargetsAsConfigured ==
  kind = "target" =>
    LET group   == input.group
        cfg     == input.cfg
        targets == TargetsFromGroup(group, cfg)
        Own(i)  == FillIn(group.Targets[i], group.Labels)
        Pre(i)  == PreRelabelLabels(Own(i), cfg)
        Said(i) == Relabelled(Pre(i), cfg.RelabelConfigs)
        kept    == {i \in 1 .. Len(group.Targets) : ~ Dropped(Pre(i), cfg.RelabelConfigs)}
    IN \/ targets = <<>> /\ (kept = {} \/ \E i \in kept : Erroneous(Said(i)))
       \/ \E at \in [1 .. Len(targets) -> kept] :
            /\ \A k \in kept : \E i \in 1 .. Len(targets) : at[i] = k
            /\ \A i, j \in 1 .. Len(targets) : i < j => at[i] < at[j]
            /\ \A i \in 1 .. Len(targets) :
                 /\ Dialable(Said(at[i]), targets[i].labels)
                 /\ ParamsKept(Own(at[i]), Said(at[i]), cfg, URL(targets[i]).Params)
            /\ Elems(PromTargets(targets)) =
                 {targets[i].labels["instance"] :
                    i \in {j \in 1 .. Len(targets) : At(Said(at[j]), "job") = "allprometheus"}}
=============================================================================
