----------------------------- MODULE MCOperators ----------------------------
(***************************************************************************)
(* The pure algorithms, checked against what they should compute for all   *)
(* small inputs.  A state is one input: kind says of which algorithm.  The *)
(* properties are those of module Operators.                               *)
(***************************************************************************)
EXTENDS Operators, FiniteSets, SequencesExt

Times == 2 .. 4
Instant == 1 .. 5

\* The samples at times T of the source v; the value tells the source.
Stream(T, v) ==
  LET ts == SetToSortSeq(T, <)
  IN [i \in DOMAIN ts |-> [Timestamp |-> ts[i], Value |-> v]]

MergeInputs ==
  UNION {{r \in [local: {Stream(l, 1) : l \in SUBSET Times},
                 remote: {[i \in 1 .. n |-> Stream(T[i], i + 1)] : T \in [1 .. n -> SUBSET Times]},
                 from: Instant, through: Instant] :
            r.from <= r.through} : n \in 0 .. 3}

ReadInputs ==
  [external: LabelSets, matchers: {m \in SUBSET Matchers : Cardinality(m) <= 2}]

WindowInputs ==
  {w \in [from: -4500 .. 4500, through: -4500 .. 4500] :
     /\ w.from % 500 \in {0, 1, 499} /\ w.through % 500 \in {0, 1, 499}
     /\ w.from + 2000 <= w.through /\ w.through <= w.from + 5000}

-----------------------------------------------------------------------------
\* Label sets with or without each label.
Optional(name, values) == {<<>>} \cup {(name :> v) : v \in values}

MCParamOf == "__param_p" :> "p" @@ "__param_q" :> "q"

MCTargets ==
  {a @@ s @@ j @@ i @@ p @@ m :
     a \in Optional("__address__", {"h", "h:9090", "h/x", "a:b:c"}),
     s \in Optional("__scheme__", {"https", "ftp"}),
     j \in Optional("job", {"allprometheus"}),
     i \in Optional("instance", {"i", "#"}),
     p \in Optional("__param_p", {"d"}),
     m \in Optional("__meta_m", {"#"})}

MCGroupLabels == {<<>>, "job" :> "g" @@ "__scheme__" :> "http", "__param_q" :> "g"}

Filter(action, label, values) ==
  [Action |-> action, SourceLabels |-> <<label>>, Regex |-> {<<v>> : v \in values}]
Set(target, value) ==
  [Action |-> "replace", SourceLabels |-> <<>>, TargetLabel |-> target,
   Expand |-> <<>> :> [Target |-> target, Replacement |-> value]]
Names(action, names) == [Action |-> action, Regex |-> names]

KeepAll == Filter("keep", "job", {"allprometheus", "c", "g"})
DropFirst == Filter("drop", "__address__", {"k:1"})
KeepProms == Filter("keep", "job", {"allprometheus"})

\* Copies the job of some targets, and deletes or copies by what it finds.
ReplaceSome ==
  [Action |-> "replace", SourceLabels |-> <<"job", "__address__">>, TargetLabel |-> "instance",
   Expand |-> <<"allprometheus", "h">> :> [Target |-> "instance", Replacement |-> ""]
              @@ <<"c", "h">> :> [Target |-> "__param_p", Replacement |-> "c"]
              @@ <<"g", "h">> :> [Target |-> "", Replacement |-> "g"]]

\* The shard of a target, to keep the targets of one shard.
Shard ==
  [Action |-> "hashmod", SourceLabels |-> <<"__address__">>, TargetLabel |-> "__param_q",
   Hash |-> <<"k:1">> :> "0" @@ <<"h">> :> "1" @@ <<"h:9090">> :> "0" @@ <<"h/x">> :> "1"
            @@ <<"a:b:c">> :> "0" @@ <<"">> :> "1"]

Copy == [Action |-> "labelmap", Renamed |-> "__meta_m" :> "instance" @@ "job" :> "instance"]

MCRules ==
  {<<>>, <<KeepAll, ReplaceSome>>, <<DropFirst>>, <<KeepProms, Set("__param_p", "h")>>,
   <<Shard, Filter("keep", "__param_q", {"1"})>>, <<Copy, Names("labeldrop", {"__meta_m"})>>,
   <<Names("labelkeep", {"__address__", "__param_p"})>>, <<Set("job", "c"), KeepProms>>,
   <<Set("__address__", "h"), DropFirst>>, <<Names("labeldrop", {"__scheme__", "__param_p"})>>}

MCConfigs ==
  {[Scheme |-> "http", MetricsPath |-> "/m", JobName |-> "c", Params |-> ps,
    RelabelConfigs |-> r] :
     ps \in {<<>>, "p" :> <<"1", "2">>, "p" :> <<>> @@ "q" :> <<"1">>}, r \in MCRules}

\* A target beside one that is always fine.
TargetInputs ==
  {[group |-> [Labels |-> g, Targets |-> <<("__address__" :> "k:1"), t>>], cfg |-> c] :
     g \in MCGroupLabels, t \in MCTargets, c \in MCConfigs}

-----------------------------------------------------------------------------
MCParams ==
  {[form |-> "float", value |-> v] : v \in -Half - 1 .. Half + 1}
    \cup {[form |-> "text", value |-> 2], [form |-> "nan"], [form |-> "bad"]}

MCSteps ==
  {[form |-> "float", value |-> v] : v \in {-1, 0, 1, 2, 3, 4, 5, Half}}
    \cup {[form |-> "text", value |-> 2], [form |-> "nan"], [form |-> ""]}

RangeInputs == [start: MCParams, end: MCParams, step: MCSteps,
                timeout: {[form |-> ""], [form |-> "bad"]}]

-----------------------------------------------------------------------------
OperatorsInit ==
  \/ kind = "merge"  /\ input \in MergeInputs
  \/ kind = "read"   /\ input \in ReadInputs
  \/ kind = "window" /\ input \in WindowInputs
  \/ kind = "target" /\ input \in TargetInputs
  \/ kind = "range"  /\ input \in RangeInputs

OperatorsNext == UNCHANGED <<kind, input>>

OperatorsSpec == OperatorsInit /\ [][OperatorsNext]_<<kind, input>>
=============================================================================
