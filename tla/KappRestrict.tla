---------------------------- MODULE KappRestrict ----------------------------
(***************************************************************************)
(* The restricted command surface of the deploy stage: the kapp flag       *)
(* allow-lists of pkg/deploy/kapp_restrict.go and the gate of spec 4.3     *)
(* that checks the raw options of an App's spec.deploy.kapp (rawOptions,   *)
(* delete.rawOptions) against the list of the operation.  The gate itself *)
(* (exec.NewFlagSet and the check) is not in this repository's code and    *)
(* follows the spec: every option is checked by its flag name, the part    *)
(* before "="; the first one not allowed rejects the whole invocation and  *)
(* is named in the error; otherwise the options pass unchanged.            *)
(*                                                                         *)
(* A raw option "--name=value" or "--name" is the record [name, value],    *)
(* value NoValue for the bare form; the split at "=" is FlagName.          *)
(***************************************************************************)
EXTENDS Naturals, Sequences, SequencesExt

CONSTANTS SampleNames,  \* flag names users put in rawOptions
          Values,       \* values after "="
          NoValue,      \* model value: no "=value" part
          MaxOptions    \* bound on the number of raw options

ASSUME MaxOptions \in Nat /\ NoValue \notin Values

kappAllowedSharedOpts == {
    "--column", "--debug", "--json", "--tty",
    "--dangerous-ignore-failing-api-services",
    "--dangerous-scope-to-fallback-allowed-namespaces",
    "--filter", "--filter-age", "--filter-kind", "--filter-kind-name",
    "--filter-kind-ns", "--filter-kind-ns-name", "--filter-name", "--filter-ns",
    "--kube-api-qps", "--kube-api-burst"}

kappAllowedChangeOpts == {
    "--diff-changes", "--diff-against-last-applied", "--diff-context",
    "--diff-line-numbers", "--diff-mask", "--diff-run", "--diff-summary",
    "--apply-check-interval", "--apply-concurrency",
    "--apply-default-update-strategy", "--apply-ignored", "--apply-timeout",
    "--wait", "--wait-check-interval", "--wait-concurrency", "--wait-ignored",
    "--wait-timeout"}

\* The options valid only for deploy, and only for inspect.
kappDeployOnlyOpts == {
    "--dangerous-allow-empty-list-of-resources",
    "--dangerous-override-ownership-of-existing-resources",
    "--into-ns", "--map-ns", "--logs", "--logs-all",
    "--app-changes-max-to-keep", "--labels", "--patch"}
kappInspectOnlyOpts == {"--raw", "--status", "--tree"}

\* exec.NewFlagSet: the union of the lists it is given.
NewFlagSet(lists) == UNION Range(lists)

kappAllowedDeployFlagSet ==
    NewFlagSet(<<kappAllowedSharedOpts, kappAllowedChangeOpts, kappDeployOnlyOpts>>)
kappAllowedInspectFlagSet ==
    NewFlagSet(<<kappAllowedSharedOpts, kappInspectOnlyOpts>>)
kappAllowedDeleteFlagSet ==
    NewFlagSet(<<kappAllowedSharedOpts, kappAllowedChangeOpts>>)

Operations == {"deploy", "inspect", "delete"}

FlagSetOf(op) ==
    CASE op = "deploy"  -> kappAllowedDeployFlagSet
      [] op = "inspect" -> kappAllowedInspectFlagSet
      [] op = "delete"  -> kappAllowedDeleteFlagSet

RawOption == [name: SampleNames, value: Values \cup {NoValue}]

\* The raw option as written in the App spec.
OptionText(opt) ==
    IF opt.value = NoValue THEN opt.name ELSE opt.name \o "=" \o opt.value

\* Mutant: the option is looked up whole, "=value" and all.
FlagNameUnsplit(opt) == OptionText(opt)

\* The flag name of a raw option: the part before "=".
FlagName(opt) == opt.name

(***************************************************************************)
(* The gate: walk the options in order; the first one whose name is not    *)
(* allowed ends the walk with an error naming it.                          *)
(***************************************************************************)
RECURSIVE CheckOpts(_, _, _)
CheckOpts(opts, allowed, i) ==
    IF i > Len(opts) THEN [ok |-> TRUE, args |-> opts, rejected |-> NoValue]
    ELSE IF FlagName(opts[i]) \notin allowed
         THEN [ok |-> FALSE, args |-> <<>>, rejected |-> FlagName(opts[i])]
         ELSE CheckOpts(opts, allowed, i + 1)

BuildInvocation(op, opts) == CheckOpts(opts, FlagSetOf(op), 1)

-----------------------------------------------------------------------------
VARIABLES op, opts, result

vars == <<op, opts, result>>

\* Any operation, with any raw options an App may carry.
Init ==
    /\ op \in Operations
    /\ opts \in BoundedSeq(RawOption, MaxOptions)
    /\ result = NoValue

Build ==
    /\ result = NoValue
    /\ result' = BuildInvocation(op, opts)
    /\ UNCHANGED <<op, opts>>

Spec == Init /\ [][Build]_vars

TypeOK ==
    /\ op \in Operations
    /\ opts \in BoundedSeq(RawOption, MaxOptions)
    /\ result \in {NoValue} \cup [ok: BOOLEAN, args: BoundedSeq(RawOption, MaxOptions),
                                  rejected: SampleNames \cup {NoValue}]
====
