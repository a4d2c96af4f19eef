---------------------------- MODULE RunPlanArgs ----------------------------
(***************************************************************************)
(* The command line of a container: the pure part of                       *)
(* internal/server/runplan (resolver.go, template.go, lint.go, compat.go,  *)
(* detection.go).  An argument is a token with the flag it names and the   *)
(* value it carries:                                                       *)
(*    Bare(f)   "--f", and any value that begins with a dash, as "-1"      *)
(*    Eq(f, v)  "--f=v"                                                    *)
(*    Val(v)    a token that does not begin with a dash                    *)
(* so strings.HasPrefix(arg, "-") is "flag # None".  A parameter value is  *)
(* [s, list]: s is what fmt.Sprintf("%v") prints of it, "" for nil and the *)
(* empty string, and list its elements when it is a slice.                 *)
(***************************************************************************)
EXTENDS Integers, Sequences, FiniteSets, SequencesExt

CONSTANTS
  None,
  Dashed,      \* the strings of the model that begin with a dash
  EqForms,     \* the flag and the value of each string "--f=v"
  Templates,   \* the strings of the model that are a {{VARIABLE}}
  Words        \* strings.Fields of each string that has several words

Bare(f) == [flag |-> f, val |-> None]
Eq(f, v) == [flag |-> f, val |-> v]
Val(v) == [flag |-> None, val |-> v]
Token(s) ==
  CASE s \in DOMAIN EqForms -> Eq(EqForms[s][1], Val(EqForms[s][2]))
    [] s \in Dashed -> Bare(s)
    [] OTHER -> Val(s)
IsDash(t) == t.flag # None
Scalar(v) == [s |-> v, list |-> <<>>]

\* a flag with a value behind it, the test every loop over args makes
PairAt(args, i) == IsDash(args[i]) /\ i < Len(args) /\ ~IsDash(args[i + 1])

collectExistingFlags(args) == {args[i].flag : i \in DOMAIN args} \ {None}

(***************************************************************************)
(* substituteVars: an unknown variable is an error.                        *)
(***************************************************************************)
Known(s, vars) == s \notin Templates \/ s \in DOMAIN vars
Substituted(s, vars) == IF s \in Templates /\ s \in DOMAIN vars THEN vars[s] ELSE s

Fields(s) == IF s \in DOMAIN Words THEN Words[s] ELSE <<s>>

\* the tokens one parameter value is rendered to
renderParameterValueArgs(pv, cli, vars) ==
  LET one == Token(Substituted(pv.value.s, vars))
      each(f(_)) == FlattenSeq([i \in DOMAIN pv.value.list |-> f(Substituted(pv.value.list[i], vars))])
      lines(s) == LET w == Fields(s) IN [i \in DOMAIN w |-> Token(w[i])]
  IN  CASE pv.style = "flag_equals_value" -> <<Eq(cli, one)>>
        [] pv.style = "flag_if_true" -> IF pv.value.s = "true" THEN <<Token(cli)>> ELSE <<>>
        [] pv.style = "repeat_flag" -> each(LAMBDA s : <<Token(cli), Token(s)>>)
        [] pv.style = "positional" -> <<one>>
        [] pv.style \in {"raw_lines", "raw_list"} ->
             IF pv.value.list = <<>> THEN lines(Substituted(pv.value.s, vars)) ELSE each(lines)
        [] OTHER -> <<Token(cli), one>>

Renderable(pv, vars) ==
  \/ pv.style = "flag_if_true"
  \/ IF pv.value.list = <<>> THEN pv.style = "repeat_flag" \/ Known(pv.value.s, vars)
     ELSE \A i \in DOMAIN pv.value.list : Known(pv.value.list[i], vars)

cliName(pv) == IF pv.cli = "" THEN pv.key ELSE pv.cli

(***************************************************************************)
(* One parameter of layer 2 or 3: what the earlier layers already hold     *)
(* ("existing", collected once before the layer) is left as it is, a       *)
(* protected flag, an empty value and an unknown variable are errors.      *)
(***************************************************************************)
AddParameter(existing, protected, vars, acc, pv) ==
  LET cli == cliName(pv)
      failed(why) == [acc EXCEPT !.errs = @ \cup {<<why, cli>>}]
  IN  CASE ~pv.enabled \/ pv.target = "env" -> acc
        [] cli \in protected -> failed("protected")
        [] cli \notin protected /\ cli \in existing -> acc
        [] cli \notin existing /\ pv.value.s = "" -> failed("empty")
        [] pv.value.s # "" /\ ~Renderable(pv, vars) -> failed("undefined")
        [] OTHER -> [acc EXCEPT !.args = @ \o renderParameterValueArgs(pv, cli, vars),
                                !.repeat = IF pv.style = "repeat_flag" THEN @ \cup {cli} ELSE @]

\* layer 1: the launcher command, frozen in the snapshot
CommandLayer(command, vars) ==
  LET good == SelectSeq(command, LAMBDA s : Known(s, vars))
  IN  [args |-> [i \in DOMAIN good |-> Token(Substituted(good[i], vars))],
       errs |-> {<<"undefined", command[i]>> : i \in {j \in DOMAIN command : ~Known(command[j], vars)}},
       repeat |-> {}]

ParameterLayer(acc, protected, values, vars) ==
  LET existing == collectExistingFlags(acc.args)
  IN  FoldLeft(LAMBDA a, pv : AddParameter(existing, protected, vars, a, pv), acc, values)

RequiredErrors(args, defs) ==
  {<<"required", def.name>> : def \in {x \in defs : x.required
      /\ {x.name, x.cli} \cap collectExistingFlags(args) = {}}}

(***************************************************************************)
(* deduplicateArgs: of several "flag value" pairs the first place and the  *)
(* last value stay.  "at" is the place of a flag in the result.            *)
(***************************************************************************)
deduplicateArgs(args, repeatable) ==
  LET step(acc, i) ==
        LET a == args[i]
            n == Len(acc.out)
        IN  CASE acc.skip -> [acc EXCEPT !.skip = FALSE]
              [] ~acc.skip /\ ~PairAt(args, i) -> [acc EXCEPT !.out = Append(@, a)]
              [] ~acc.skip /\ PairAt(args, i) /\ (a.flag \in repeatable /\ a.val = None) ->
                   [acc EXCEPT !.out = @ \o <<a, args[i + 1]>>, !.skip = TRUE]
              [] ~acc.skip /\ PairAt(args, i) /\ ~(a.flag \in repeatable /\ a.val = None) ->
                   LET old == {p \in acc.at : p[1] = a}
                   IN  IF old = {}
                       THEN [out |-> acc.out \o <<a, args[i + 1]>>, skip |-> TRUE,
                             at |-> acc.at \cup {<<a, n + 1>>}]
                       ELSE [acc EXCEPT !.out[(CHOOSE p \in old : TRUE)[2] + 1] = args[i + 1],
                                        !.skip = TRUE]
  IN  FoldLeft(step, [out |-> <<>>, skip |-> FALSE, at |-> {}],
               [i \in DOMAIN args |-> i]).out

\* a disabled flag goes, with its value
ApplyTombstones(args, disabled) ==
  LET gone(i) == \/ args[i].flag \in disabled /\ args[i].val = None
                 \/ i > 1 /\ args[i - 1].flag \in disabled /\ args[i - 1].val = None /\ PairAt(args, i - 1)
      keep == SelectSeq([i \in DOMAIN args |-> i], LAMBDA i : ~gone(i))
  IN  [i \in DOMAIN keep |-> args[keep[i]]]

setLastFlagValue(args, flag, value) ==
  LET at == {i \in DOMAIN args : args[i] = Bare(flag) /\ i < Len(args)}
      last == CHOOSE i \in at : \A j \in at : j <= i
  IN  IF at = {} THEN args \o <<Bare(flag), value>> ELSE [args EXCEPT ![last + 1] = value]

\* service settings replace what the layers gave
applyServiceArgs(args, svc) ==
  LET a == IF svc.app > 0 THEN setLastFlagValue(args, "--port", Val(ToString(svc.app))) ELSE args
  IN  IF svc.listen # "" THEN setLastFlagValue(a, "--host", Val(svc.listen)) ELSE a

\* what a deployment may not set
ProtectedFlags == {"--host", "-h", "--port"}


\* the service settings are forgotten
BuildArgsWithoutService(in, vars) ==
  LET l1 == CommandLayer(in.snapshot.command, vars)
      l2 == ParameterLayer(l1, {}, in.snapshot.values, vars)
  IN  [raw |-> l2.args, errs |-> l2.errs, args |-> deduplicateArgs(l2.args, l2.repeat)]

(***************************************************************************)
(* buildArgs.  "raw" are the arguments before deduplication.               *)
(***************************************************************************)
buildArgs(in, vars) ==
  LET l1 == CommandLayer(in.snapshot.command, vars)
      l2 == ParameterLayer(l1, {}, in.snapshot.values, vars)
      l3 == ParameterLayer(l2, ProtectedFlags, in.values, vars)
      deduped == deduplicateArgs(l3.args, l3.repeat)
  IN  [raw |-> l3.args,
       errs |-> l3.errs \cup RequiredErrors(l3.args, in.snapshot.defs),
       args |-> applyServiceArgs(ApplyTombstones(deduped, in.disabled), in.service)]

(***************************************************************************)
(* What the backend reads: its argument parser takes the last occurrence.  *)
(***************************************************************************)
ValuesOf(args, flag) ==
  LET at == {i \in DOMAIN args : args[i].flag = flag}
      last == CHOOSE i \in at : \A j \in at : j <= i
  IN  IF at = {} THEN <<>>
      ELSE IF args[last].val # None THEN <<args[last].val>>
      ELSE IF last < Len(args) THEN <<args[last + 1]>> ELSE <<>>

-----------------------------------------------------------------------------
(***************************************************************************)
(* lint.go: the findings, as the pairs of a rule and a severity.           *)
(***************************************************************************)
LogicalParams == {[flag |-> "--host", env |-> {"LLAMA_ARG_HOST"}],
                  [flag |-> "--port", env |-> {"LLAMA_ARG_PORT"}],
                  [flag |-> "--model", env |-> {}],
                  [flag |-> "--served-model-name", env |-> {}],
                  [flag |-> "--model-path", env |-> {}]}

Occurrences(args, flag) == {i \in DOMAIN args : args[i] = Bare(flag)}

lintPreNormalization(args) ==
  {<<"arg.duplicate", "error">> : f \in {x \in collectExistingFlags(args) :
                                           Cardinality(Occurrences(args, x)) > 1}}
    \cup {<<"arg.platform_overridden", "error">> : p \in {x \in LogicalParams :
                                           Cardinality(Occurrences(args, x.flag)) > 1}}

NvidiaOnly == {"--gpu-memory-utilization", "--tensor-parallel-size",
               "--pipeline-parallel-size", "--kv-cache-dtype"}

lintParamRules(args, vendor, schema) ==
  LET flags == collectExistingFlags(args)
  IN  {<<"param.vendor_incompatible", "error">> :
         f \in IF vendor \in {"", "nvidia", "cpu"} THEN {} ELSE flags \cap NvidiaOnly}
        \cup {<<"param.unsupported", "warning">> :
         f \in IF schema = {} THEN {}
               ELSE flags \ (schema \cup {"--model", "--host", "--port", "--model-path", "-m"})}

\* a user's own variable is an error, one the platform set a warning
lintFinal(args, env, source) ==
  {<<"arg.env_cli_conflict", IF source[c[2]] = "user_env" THEN "error" ELSE "warning">> :
     c \in {x \in UNION {{p} \X p.env : p \in LogicalParams} :
              x[2] \in DOMAIN env /\ \E i \in Occurrences(args, x[1].flag) : PairAt(args, i)}}

LintRunPlan(raw, args, env, vendor, schema, source) ==
  lintPreNormalization(raw) \cup lintParamRules(args, vendor, schema) \cup lintFinal(args, env, source)

-----------------------------------------------------------------------------
(***************************************************************************)
(* compat.go: the code a model is refused with on a backend, or "ok".      *)
(***************************************************************************)
CheckCompatibility(model, backend) ==
  CASE backend.formats = {} -> "backend_capability_missing"
    [] backend.formats # {} /\ ~model.deployable -> "not_deployable"
    [] model.deployable /\ backend.formats # {} /\ model.format \notin backend.formats -> "format_mismatch"
    [] model.deployable /\ model.format \in backend.formats /\ model.path \notin backend.paths -> "path_mode_mismatch"
    [] model.deployable /\ model.format \in backend.formats /\ model.path \in backend.paths ->
         CASE model.arch \in backend.blocked -> "architecture_blocked"
           [] model.arch \notin backend.blocked /\ model.task \notin backend.tasks -> "task_mismatch"
           [] OTHER -> "ok"

(***************************************************************************)
(* detection.go and profiles.go: the profile a backend family starts with, *)
(* by the shape of the image's ENTRYPOINT; "starts": one of its words      *)
(* names a server.  The first of the best scores is taken.                 *)
(***************************************************************************)
DefaultProcessStartProfiles(family) ==
  LET plain == [mode |-> "image_default", prefix |-> <<>>, priority |-> 100,
                kinds |-> {"server_binary", "empty", "unknown"}, avoid |-> FALSE]
      launcher == <<"python3", "-m", "sglang.launch_server">>
  IN  CASE family \in {"vllm", "llamacpp"} -> <<plain>>
        [] family = "sglang" ->
             <<[mode |-> "image_default", prefix |-> launcher, priority |-> 100,
                kinds |-> {"wrapper_script", "empty", "unknown"}, avoid |-> TRUE],
               [mode |-> "custom", prefix |-> <<>>, priority |-> 40,
                kinds |-> {"server_binary", "empty", "unknown"}, avoid |-> FALSE]>>
        [] OTHER -> <<>>

scoreProfile(p, image) ==
  p.priority + (CASE image.shape \in p.kinds -> 20
                  [] image.shape \notin p.kinds /\ image.shape = "unknown" -> -10
                  [] OTHER -> -20)
             - (IF p.avoid /\ image.shape = "server_binary" /\ image.starts THEN 30 ELSE 0)

DetectProcessStart(family, image) ==
  LET ps == DefaultProcessStartProfiles(family)
      best == CHOOSE i \in DOMAIN ps : \A j \in DOMAIN ps :
                \/ scoreProfile(ps[i], image) > scoreProfile(ps[j], image)
                \/ scoreProfile(ps[i], image) = scoreProfile(ps[j], image) /\ i <= j
  IN  IF ps = <<>> THEN None ELSE [mode |-> ps[best].mode, prefix |-> ps[best].prefix]
=============================================================================
