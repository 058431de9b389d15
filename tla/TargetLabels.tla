---------------------------- MODULE TargetLabels ----------------------------
(***************************************************************************)
(* The labels of targets (retrieval/target.go), which TargetManager takes  *)
(* as the constant FromGroup, and the addresses the API's proxy makes of   *)
(* them (getPromTargets in web/api/v1/api.go).                             *)
(*                                                                         *)
(* A label set is a function from the names of its labels to their values. *)
(* Which strings net.SplitHostPort can split, which contain a "/" and      *)
(* which are not valid UTF-8 is given by constants.  A target group has    *)
(* Labels and the label sets Targets; a scrape configuration has Scheme,   *)
(* MetricsPath, JobName, Params (a sequence of values for each parameter)  *)
(* and the rules RelabelConfigs.                                           *)
(***************************************************************************)
EXTENDS Integers, Sequences

CONSTANTS
  HostPorts,      \* strings that are a host and a port
  BareHosts,      \* strings that become one when ":1234" is appended
  Slashed,        \* strings that contain a "/"
  InvalidValues,  \* strings that are not valid UTF-8
  MetaLabels,     \* names with the prefix __meta_
  ParamOf         \* names with the prefix __param_, and what follows it

\* The prefixes keep the names apart, and a port leaves a string valid.
ASSUME NameAssumption ==
  /\ \A n, o \in DOMAIN ParamOf : ParamOf[n] = ParamOf[o] => n = o
  /\ DOMAIN ParamOf \cap MetaLabels = {}
  /\ {"__address__", "__scheme__", "__metrics_path__", "job", "instance"}
       \cap (DOMAIN ParamOf \cup MetaLabels) = {}
  /\ \A host \in BareHosts \ InvalidValues, port \in {":80", ":443"} :
        host \o port \notin InvalidValues

Has(lset, name) == name \in DOMAIN lset

\* The value of a label in a Go map: "" when there is none.
At(lset, name) == IF Has(lset, name) THEN lset[name] ELSE ""

\* One label; lset and the labels of defaults that it has none of; lset without
\* the labels of a set of names.
Label(name, value) == [n \in {name} |-> value]
FillIn(lset, defaults) ==
  [n \in DOMAIN lset \cup DOMAIN defaults |-> IF Has(lset, n) THEN lset[n] ELSE defaults[n]]
Without(lset, names) == [n \in DOMAIN lset \ names |-> lset[n]]

\* The elements of s at the indices in I, appended one by one.
Picked(s, I) ==
  LET picked[n \in 0 .. Len(s)] ==
        IF n = 0 THEN <<>>
        ELSE IF n \in I THEN Append(picked[n - 1], s[n]) ELSE picked[n - 1]
  IN picked[Len(s)]

ParamLabel(k) == CHOOSE name \in DOMAIN ParamOf : ParamOf[name] = k

\* Names with the prefix "__".
Reserved ==
  {"__address__", "__scheme__", "__metrics_path__"} \cup MetaLabels \cup DOMAIN ParamOf

-----------------------------------------------------------------------------
(***************************************************************************)
(* relabel.Process (vendored).  What a regular expression does is given by *)
(* the rule: the values it matches, or what it makes of each of them.      *)
(***************************************************************************)

\* The values of the source labels, which the code joins by a separator.
Source(lset, rule) ==
  [i \in 1 .. Len(rule.SourceLabels) |-> At(lset, rule.SourceLabels[i])]

\* Whether a rule drops the target.
Rejects(lset, rule) ==
  \/ rule.Action = "drop" /\ Source(lset, rule) \in rule.Regex
  \/ rule.Action = "keep" /\ Source(lset, rule) \notin rule.Regex

\* A replacement, of the values in the domain of Expand only: a target label
\* that is no name (here "") and an empty replacement delete TargetLabel.
Replace(lset, rule) ==
  LET val == Source(lset, rule)
      to  == rule.Expand[val]
  IN IF val \notin DOMAIN rule.Expand THEN lset
     ELSE IF to.Target = "" \/ to.Replacement = "" THEN Without(lset, {rule.TargetLabel})
     ELSE FillIn(Label(to.Target, to.Replacement), lset)

\* The labels with the names in the domain of Renamed are copied; of two that
\* get the same name the one that range visits last stays, which may be any.
LabelMap(lset, rule) ==
  LET matching == DOMAIN lset \cap DOMAIN rule.Renamed
      From(n)  == CHOOSE m \in matching : rule.Renamed[m] = n
  IN FillIn([n \in {rule.Renamed[m] : m \in matching} |-> lset[From(n)]], lset)

\* relabel, for a rule that does not drop the target.  Hash has the number that
\* hashmod writes for a value.
Relabel(lset, rule) ==
  CASE rule.Action = "replace"   -> Replace(lset, rule)
    [] rule.Action = "hashmod"   ->
         FillIn(Label(rule.TargetLabel, At(rule.Hash, Source(lset, rule))), lset)
    [] rule.Action = "labelmap"  -> LabelMap(lset, rule)
    [] rule.Action = "labeldrop" -> Without(lset, rule.Regex)
    [] rule.Action = "labelkeep" -> Without(lset, DOMAIN lset \ rule.Regex)
    [] OTHER                     -> lset

\* The labels after each number of rules.
Process(lset, rules) ==
  LET after[n \in 0 .. Len(rules)] ==
        IF n = 0 THEN lset ELSE Relabel(after[n - 1], rules[n])
  IN after

Dropped(lset, rules) ==
  \E n \in 1 .. Len(rules) : Rejects(Process(lset, rules)[n - 1], rules[n])

Relabelled(lset, rules) == Process(lset, rules)[Len(rules)]

-----------------------------------------------------------------------------
\* The labels before relabelling: what discovery said, else what the scrape
\* configuration says; its parameters overwrite what discovery said.
PreRelabelLabels(lset, cfg) ==
  LET scrapeLabels == [__scheme__ |-> cfg.Scheme, __metrics_path__ |-> cfg.MetricsPath,
                       job |-> cfg.JobName]
      params == {k \in DOMAIN cfg.Params : cfg.Params[k] # <<>>}
      asked  == [name \in {ParamLabel(k) : k \in params} |-> cfg.Params[ParamOf[name]][1]]
  IN FillIn(asked, FillIn(lset, scrapeLabels))

AddPort(addr) == addr \notin HostPorts /\ addr \in BareHosts

\* The port that is inferred from the scheme; none for another scheme.
DefaultPort(lset) ==
  CASE At(lset, "__scheme__") \in {"http", ""} -> ":80"
    [] At(lset, "__scheme__") = "https"        -> ":443"
    [] OTHER                                   -> ""

\* The labels a target keeps: the address with its port, no meta labels, and
\* the address as its instance unless it has one.
FinalLabels(lset, addr) ==
  FillIn(Label("__address__", addr), FillIn(Without(lset, MetaLabels), Label("instance", addr)))

\* The errors of populateLabels, for the labels after relabelling.
Erroneous(lset) ==
  \/ ~ Has(lset, "__address__")
  \/ LET addr == lset["__address__"] IN
       (AddPort(addr) /\ DefaultPort(lset) = "") \/ addr \in Slashed
  \/ \E name \in DOMAIN lset \ MetaLabels : lset[name] \in InvalidValues

\* populateLabels: a dropped target, an error, or its labels.
PopulateLabels(orig, cfg) ==
  LET pre  == PreRelabelLabels(orig, cfg)
      lset == Relabelled(pre, cfg.RelabelConfigs)
      addr == lset["__address__"]
  IN IF Dropped(pre, cfg.RelabelConfigs) THEN [result |-> "dropped"]
     ELSE IF Erroneous(lset) THEN [result |-> "error"]
     ELSE [result |-> "target",
           labels |-> FinalLabels(lset, IF AddPort(addr) THEN addr \o DefaultPort(lset)
                                        ELSE addr),
           discoveredLabels |-> pre, params |-> cfg.Params]

\* targetsFromGroup: no target at all when one of them is an error.  The
\* labels of the group are filled in where a target has none of its own.
TargetsFromGroup(tg, cfg) ==
  LET built == [i \in 1 .. Len(tg.Targets) |->
                  PopulateLabels(FillIn(tg.Targets[i], tg.Labels), cfg)]
  IN IF \E i \in DOMAIN built : built[i].result = "error" THEN <<>>
     ELSE Picked(built, {i \in DOMAIN built : built[i].result = "target"})

-----------------------------------------------------------------------------
\* Target.Labels
Labels(target) == Without(target.labels, Reserved)

\* Mutant: the value of the label is added to those of the configuration.
UrlParamsAppend(target) ==
  LET lset  == target.labels
      names == DOMAIN ParamOf \cap DOMAIN lset
  IN [k \in DOMAIN target.params \cup {ParamOf[n] : n \in names} |->
        LET vs == IF k \in DOMAIN target.params THEN target.params[k] ELSE <<>>
        IN IF ParamLabel(k) \in names THEN vs \o <<lset[ParamLabel(k)]>> ELSE vs]

\* The parameters of Target.URL: a __param_ label is the first value.
UrlParams(target) ==
  LET lset  == target.labels
      names == DOMAIN ParamOf \cap DOMAIN lset
  IN [k \in DOMAIN target.params \cup {ParamOf[n] : n \in names} |->
        LET vs == IF k \in DOMAIN target.params THEN target.params[k] ELSE <<>>
        IN IF ParamLabel(k) \in names THEN <<lset[ParamLabel(k)]>> \o SubSeq(vs, 2, Len(vs))
           ELSE vs]

\* Target.URL
URL(target) ==
  [Scheme |-> At(target.labels, "__scheme__"), Host |-> At(target.labels, "__address__"),
   Path |-> At(target.labels, "__metrics_path__"), Params |-> UrlParams(target)]

\* getPromTargets: where the API's proxy sends its requests.
PromTargets(targets) ==
  LET proms == Picked(targets, {i \in DOMAIN targets :
                                   At(Labels(targets[i]), "job") = "allprometheus"})
  IN [i \in DOMAIN proms |-> At(Labels(proms[i]), "instance")]
=============================================================================
