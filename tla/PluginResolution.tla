-------------------------- MODULE PluginResolution --------------------------
(* Planning and importing a server's missing dependencies                     *)
(* (servers/application/plugin_resolution.py, plugin_validation.py and        *)
(* catalog_deps.py), by the version ranges of mod manifests (version_range.py). *)
(*                                                                            *)
(* A project of the catalog is known by two names, its slug, which is also    *)
(* the identifier its jar declares, and its project id.  What the projects    *)
(* require and refuse is fixed when the model starts; the catalog may fail to *)
(* answer, an install may fail, and other requests may install projects while *)
(* a plan is drawn up and applied.                                            *)
EXTENDS Integers, Sequences, FiniteSets

CONSTANTS
  Projects,             \* the catalog's projects
  Root,                 \* the plugin installed at first
  None,                 \* no project, no plan
  X,                    \* the wildcard component of an x-range
  MAX_RESOLUTION_DEPTH,
  MaxNeeds,             \* bound: the catalog's requirements
  MaxUpsets             \* bound: catalog and install failures, and installs by other requests

VARIABLES
  catalog,   \* the catalog's edges: needs and clash, sets of pairs of projects
  plugins,   \* the installed plugins
  plan,      \* the request's plan, or None
  upsets,
  history    \* the projects that came to the server since the plan was drawn up

vars == <<catalog, plugins, plan, upsets, history>>

-----------------------------------------------------------------------------
(* Version ordering and range predicates (version_range.py).  A version is    *)
(* the sequence of its components: numbers, and perhaps one qualifier at the  *)
(* end ("1.20-rc1"), written as a negative number.  The text around them      *)
(* (separators, build metadata, blanks) is left out, and so is the leniency   *)
(* towards text that cannot be parsed, which satisfies any range.             *)

component(v, i) == IF i <= Len(v) THEN v[i] ELSE 0
Longer(a, b) == IF Len(a) >= Len(b) THEN Len(a) ELSE Len(b)

\* _compare: a missing component counts as 0, and any number is above a qualifier.
compare(a, b) ==
  LET Differ == {i \in 1..Longer(a, b): component(a, i) # component(b, i)}
  IN IF Differ = {} THEN 0
     ELSE LET i == CHOOSE i \in Differ: \A j \in Differ: i <= j
          IN IF component(a, i) < component(b, i) THEN -1 ELSE 1

compare_op(op, c) ==
  CASE op = ">=" -> c >= 0 [] op = "<=" -> c <= 0 [] op = ">" -> c > 0 [] op = "<" -> c < 0

\* _x_range: dotted parts compare as text, and a qualifier is part of the text of
\* the number it follows.
Qualified(v, i) == i + 1 <= Len(v) /\ v[i + 1] < 0
x_range(v, t) == \A i \in 1..Len(t): t[i] = X \/ (i <= Len(v) /\ v[i] = t[i] /\ ~Qualified(v, i))

tilde_upper(t) == IF Len(t) >= 2 THEN <<t[1], t[2] + 1>> ELSE <<t[1] + 1>>
tilde(v, t) == compare(v, t) >= 0 /\ compare(v, tilde_upper(t)) < 0

\* Defect: always the first component.
FirstComponent(t) == 1
\* _caret fixes everything up to the first component that is not zero, or the last.
caret_index(t) ==
  CHOOSE i \in 1..Len(t): (t[i] # 0 \/ i = Len(t)) /\ \A j \in 1..(i - 1): t[j] = 0
caret(v, t) ==
  LET i == caret_index(t)
  IN compare(v, t) >= 0 /\ compare(v, [SubSeq(t, 1, i) EXCEPT ![i] = @ + 1]) < 0

semver_predicate(v, p) ==
  CASE p.op = "any" -> TRUE
    [] p.op = "~" -> tilde(v, p.target)
    [] p.op = "^" -> caret(v, p.target)
    [] p.op = "=" -> IF X \in {p.target[i]: i \in 1..Len(p.target)} THEN x_range(v, p.target)
                     ELSE compare(v, p.target) = 0
    [] OTHER -> compare_op(p.op, compare(v, p.target))

\* A range is a set of alternatives, each a set of predicates.
semver_satisfies(v, spec) == \E alternative \in spec: \A p \in alternative: semver_predicate(v, p)

\* _paper_satisfies: a floor on the first two numbers.
Number(v, i) == IF component(v, i) < 0 THEN 0 ELSE component(v, i)
paper_satisfies(v, t) ==
  \/ Number(v, 1) > Number(t, 1)
  \/ Number(v, 1) = Number(t, 1) /\ Number(v, 2) >= Number(t, 2)

\* _maven_interval: bounds that may be missing (<<>>) and may be included.
maven_interval(v, low, high, lower_inclusive, upper_inclusive) ==
  /\ low # <<>> => compare(v, low) > 0 \/ (lower_inclusive /\ compare(v, low) = 0)
  /\ high # <<>> => compare(v, high) < 0 \/ (upper_inclusive /\ compare(v, high) = 0)

-----------------------------------------------------------------------------
(* Plugins and the catalog *)

Slug(p) == <<"slug", p>>
Id(p) == <<"id", p>>
Any == {{[op |-> "any"]}}
AtLeast(v) == {{[op |-> ">=", target |-> v]}}
Offers == {<<1>>, <<2>>}   \* every project has these versions

\* One plugin: its manifest's dependencies, and its catalog dependencies if it came
\* from there.
Plugin(p, source, v, deps, needs, clash) ==
  [mod_identifier |-> p, source_project_id |-> source, version |-> v,
   dependencies |-> deps, needs |-> needs, clash |-> clash]
Manifest(p, range, conflict, hint) == [on |-> p, range |-> range, conflict |-> conflict, hint |-> hint]

required_catalog_deps(x) == IF x.source_project_id = None THEN {} ELSE x.needs
incompatible_catalog_deps(x) == IF x.source_project_id = None THEN {} ELSE x.clash
installed_project_ids(xs) == {x.source_project_id: x \in xs} \ {None}
required_deps(x) == {d \in x.dependencies: ~d.conflict}

-----------------------------------------------------------------------------
(* The walk *)

\* _provided_versions
Provides(xs, p, range) == \E x \in xs: x.mod_identifier = p /\ semver_satisfies(x.version, range)

\* validate_plugin_set: what the plugins lack, and which of them refuse which.
required_dep_findings(xs) == {<<x.mod_identifier, d.on>>: <<x, d>> \in {y \in xs \X UNION {x.dependencies: x \in xs}:
                                 y[2] \in required_deps(y[1]) /\ ~Provides(xs, y[2].on, y[2].range)}}
missing_catalog_deps(xs) == UNION {required_catalog_deps(x): x \in xs} \ installed_project_ids(xs)
conflicts(xs) ==
  {<<x.mod_identifier, y.mod_identifier>>: <<x, y>> \in {z \in xs \X xs:
     \/ \E d \in z[1].dependencies: d.conflict /\ d.on = z[2].mod_identifier /\ Provides(xs, d.on, d.range)
     \/ z[2].source_project_id # None /\ z[2].source_project_id \in incompatible_catalog_deps(z[1])}}

frontier_from_plugin(x) ==
  {[key |-> Slug(d.on), on |-> d.on, range |-> d.range, depth |-> 0, by |-> None, hint |-> d.hint]: d \in required_deps(x)}

ByProject(p, depth, by) == [key |-> Id(p), on |-> p, range |-> Any, depth |-> depth, by |-> by, hint |-> TRUE]

\* _catalog_frontier leaves out what is installed and what a manifest dependency
\* that names its project has queued.
catalog_frontier(xs, queued) ==
  {ByProject(p, 0, None):
     p \in (UNION {required_catalog_deps(x): x \in xs})
             \ (installed_project_ids(xs) \cup {d.on: d \in {q \in queued: q.hint}})}

Frontier(xs) ==
  LET manifest == UNION {frontier_from_plugin(x): x \in xs}
  IN manifest \cup catalog_frontier(xs, manifest)

\* ResolvePluginDependencies and ApplyPluginResolution read the plugins once.
load_resolution_inputs(goal) ==
  [goal |-> goal, stage |-> "walk", base |-> plugins, frontier |-> Frontier(plugins), next |-> {},
   entries |-> <<>>, requirers |-> {}, edges |-> {}, blocked |-> {}, installed |-> {}, failed |-> {}, unread |-> {}]

resolve(goal) ==
  /\ plan = None
  /\ plan' = load_resolution_inputs(goal)
  /\ history' = {} /\ UNCHANGED <<catalog, plugins, upsets>>

already_satisfied(d) ==
  \/ d.key = Slug(d.on) /\ Provides(plan.base, d.on, d.range)
  \/ d.key = Id(d.on) /\ d.on \in installed_project_ids(plan.base)

Entry(d, status, pick) ==
  [status |-> status, depth |-> d.depth, range |-> d.range, by |-> d.by,
   will_import |-> pick]
WillImport(p, v) == [project |-> p, version |-> v]

\* _select_import_version: the highest version in range.
select_import_version(range) ==
  LET candidates == {v \in Offers: semver_satisfies(v, range)}
  IN IF candidates = {} THEN None
     ELSE CHOOSE v \in candidates: \A w \in candidates: compare(v, w) >= 0

Record(d, entry, more, refused, unread) ==
  plan' = [plan EXCEPT !.frontier = @ \ {d},
                       !.requirers = @ \cup {<<d.key, d.by>>},
                       !.entries = IF d.key \in DOMAIN @ THEN @ ELSE [k \in DOMAIN @ \cup {d.key} |-> IF k = d.key THEN entry ELSE @[k]],
                       !.next = @ \cup more, !.edges = @ \cup refused, !.unread = @ \cup unread]

\* _frontier_from_will_import
Children(p, depth) == {ByProject(e[2], depth, p): e \in {f \in catalog.needs: f[1] = p}}
Refusals(p) == {e \in catalog.clash: e[1] = p}

Classified(d) ==
  CASE already_satisfied(d) -> Entry(d, "already_satisfied", None)
    [] ~already_satisfied(d) /\ d.depth >= MAX_RESOLUTION_DEPTH -> Entry(d, "depth_exceeded", None)
    [] OTHER -> IF select_import_version(d.range) = None THEN Entry(d, "unresolvable", None)
                ELSE Entry(d, "needs_import", WillImport(d.on, select_import_version(d.range)))
Expands(d) == d.key \notin DOMAIN plan.entries /\ Classified(d).status = "needs_import"
Expansion(d) == IF Expands(d) THEN Children(d.on, d.depth + 1) ELSE {}
Refused(d) == IF Expands(d) THEN Refusals(d.on) ELSE {}

\* resolve_closure, one dependency of the frontier: the first time its name comes up
\* it is classified and expanded, every time its requirer is noted.
Classify(d) == Record(d, Classified(d), Expansion(d), Refused(d), {})

\* The frontier is a list; what comes of a level does not depend on its order.
First(ds) == CHOOSE d \in ds: TRUE

Walk(d) ==
  /\ plan # None /\ plan.stage = "walk" /\ d \in plan.frontier
  /\ UNCHANGED <<catalog, plugins, upsets, history>> /\ Classify(d)

Upset == upsets < MaxUpsets /\ upsets' = upsets + 1

\* The catalog fails to answer: the dependency is unresolvable, or is imported
\* without its own dependencies being known.
WalkFails(d) ==
  /\ plan # None /\ plan.stage = "walk" /\ d \in plan.frontier
  /\ d.key \notin DOMAIN plan.entries /\ ~already_satisfied(d) /\ d.depth < MAX_RESOLUTION_DEPTH
  /\ Upset /\ UNCHANGED <<catalog, plugins, history>>
  /\ \/ Record(d, Entry(d, "unresolvable", None), {}, {}, {})
     \/ select_import_version(d.range) # None
        /\ Record(d, Entry(d, "needs_import", WillImport(d.on, select_import_version(d.range))), {}, {}, {d.on})

NextLevel ==
  /\ plan # None /\ plan.stage = "walk" /\ plan.frontier = {}
  /\ plan' = IF plan.next = {} THEN [plan EXCEPT !.stage = "block"]
             ELSE [plan EXCEPT !.frontier = plan.next, !.next = {}]
  /\ UNCHANGED <<catalog, plugins, upsets, history>>

-----------------------------------------------------------------------------
(* Blocking and pruning, one round a step *)

Open == DOMAIN plan.entries \ plan.blocked
Adds(k) == plan.entries[k].will_import # None
Added == {plan.entries[k].will_import.project: k \in {j \in Open: Adds(j)}}

\* _present_ids and _present_project_ids: an entry's own name counts, too.
present_ids ==
  {Slug(x.mod_identifier): x \in plan.base} \cup {Slug(p): p \in Added} \cup {k \in Open: Adds(k)}
present_project_ids == installed_project_ids(plan.base) \cup Added

conflict_edges == {<<x.mod_identifier, d.on>>: <<x, d>> \in {y \in plan.base \X UNION {x.dependencies: x \in plan.base}:
                                                                y[2] \in y[1].dependencies /\ y[2].conflict}}
conflict_ids == UNION {{e[1], e[2]}: e \in {f \in conflict_edges: Slug(f[2]) \in present_ids}}

incompatible_edges ==
  plan.edges \cup UNION {{<<x.source_project_id, p>>: p \in incompatible_catalog_deps(x)}: x \in plan.base}
incompatible_project_ids ==
  UNION {{e[1], e[2]}: e \in {f \in incompatible_edges: f[1] \in present_project_ids /\ f[2] \in present_project_ids}}

Conflicting(k) == Adds(k) /\ plan.entries[k].will_import.project \in conflict_ids \cup incompatible_project_ids
Wanted(k) ==
  \E by \in {q[2]: q \in {r \in plan.requirers: r[1] = k}}:
     by = None \/ by \in {x.mod_identifier: x \in plan.base} \/ by \in Added

block_and_prune ==
  /\ plan # None /\ plan.stage = "block"
  /\ LET new == {k \in Open: Conflicting(k) \/ ~Wanted(k)}
     IN plan' = IF new = {} THEN [plan EXCEPT !.stage = IF plan.goal = "apply" THEN "install" ELSE "done"]
                ELSE [plan EXCEPT !.blocked = @ \cup new]
  /\ UNCHANGED <<catalog, plugins, upsets, history>>

-----------------------------------------------------------------------------
(* Applying it *)

\* The jar of a project installed from the catalog.
FromCatalog(p, v) ==
  Plugin(p, p, v, {}, {e[2]: e \in {f \in catalog.needs: f[1] = p}}, {e[2]: e \in {f \in catalog.clash: f[1] = p}})

\* InstallFromCatalog refuses a second version of a project; a failure is noted and
\* the rest goes on.
Pending == {plan.entries[k].will_import: k \in {j \in Open: Adds(j)}} \ (plan.installed \cup plan.failed)
install(w) ==
  /\ plan # None /\ plan.stage = "install" /\ w \in Pending
  /\ w.project \notin installed_project_ids(plugins)
  /\ plugins' = plugins \cup {FromCatalog(w.project, w.version)}
  /\ plan' = [plan EXCEPT !.installed = @ \cup {w}]
  /\ UNCHANGED <<catalog, upsets, history>>
install_fails(w) ==
  /\ plan # None /\ plan.stage = "install" /\ w \in Pending
  /\ IF w.project \in installed_project_ids(plugins) THEN UNCHANGED upsets ELSE Upset
  /\ plan' = [plan EXCEPT !.failed = @ \cup {w}]
  /\ UNCHANGED <<catalog, plugins, history>>

\* The gate's refusal ends the whole apply.
Aborts == plan # None /\ plan.stage = "install" /\ Upset /\ plan' = None /\ UNCHANGED <<catalog, plugins, history>>

\* Everything was tried: the answer is a new plan.
replan ==
  /\ plan # None /\ plan.stage = "install" /\ Pending = {}
  /\ plan' = [load_resolution_inputs("resolve") EXCEPT !.installed = plan.installed, !.failed = plan.failed, !.unread = plan.unread]
  /\ UNCHANGED <<catalog, plugins, upsets, history>>

\* Another request installs a project.  A plan in the making does not look at the
\* plugins again, so an install any earlier has the same effect.
InstallByHand(p, v) ==
  /\ Upset /\ p \notin installed_project_ids(plugins)
  /\ plugins' = plugins \cup {FromCatalog(p, v)}
  /\ history' = history \cup {p}
  /\ UNCHANGED <<catalog, plan>>

-----------------------------------------------------------------------------
Pairs == {e \in Projects \X Projects: e[1] # e[2]}
\* At most one quarrel, of a manifest or of the catalog.
Quarrels == {e \in (Projects \cup {Root}) \X (Projects \cup {Root}): e[1] # e[2]}
AtMost(S, n) == {s \in SUBSET S: Cardinality(s) <= n}
AtMostOne(S) == {{}} \cup {{x}: x \in S}

Init ==
  /\ \E needs \in AtMost(Pairs, MaxNeeds), q \in AtMostOne(Quarrels), manifest \in {{}, {CHOOSE p \in Projects: TRUE}},
        cneeds, breaks \in AtMostOne(Projects),
        range \in {Any, AtLeast(<<2>>)}, hint \in BOOLEAN, source \in {Root, None}:
       /\ q = {} \/ breaks = {}
       /\ source = None => cneeds = {}
       /\ hint => manifest # {} /\ cneeds = manifest   \* a hint matters only there
       /\ catalog = [needs |-> needs, clash |-> {e \in q: e[1] \in Projects}]
       /\ plugins = {Plugin(Root, source, <<1>>,
                            {Manifest(p, range, FALSE, hint): p \in manifest} \cup {Manifest(p, Any, TRUE, FALSE): p \in breaks},
                            cneeds, {e[2]: e \in {f \in q: f[1] = Root}})}
  /\ plan = None /\ upsets = 0 /\ history = {}

Next ==
  \/ \E goal \in {"resolve", "apply"}: resolve(goal)
  \/ plan # None /\ plan.frontier # {} /\ LET d == First(plan.frontier) IN Walk(d) \/ WalkFails(d)
  \/ NextLevel \/ block_and_prune
  \/ plan # None /\ plan.stage = "install" /\ \E w \in Pending: install(w) \/ install_fails(w)
  \/ Aborts \/ replan
  \/ plan # None /\ plan.stage = "install" /\ \E p \in Projects, v \in Offers: InstallByHand(p, v)

Spec == Init /\ [][Next]_vars

-----------------------------------------------------------------------------
\* What an apply has installed does not sit beside a plugin that it refuses or that
\* refuses it, unless that plugin came from another request after the plan was read,
\* or the catalog hid the refusal (plugin_resolution.py: a blocked import is never
\* installed).
ByPlan == IF plan = None THEN {} ELSE {w.project: w \in plan.installed}
AppliesNoClash ==
  ByPlan # {} =>
    \A e \in conflicts(plugins): {e[1], e[2]} \cap ByPlan = {} \/ {e[1], e[2]} \cap (history \cup plan.unread) # {}

\* A finished plan covers exactly what the plugins transitively require, each
\* dependency at its distance from them: every entry not blocked was required by a
\* plugin, or by an import not blocked, one level up or (on a cycle) further down; and
\* what such an import requires is in the plan (resolve_closure).  It has nothing to
\* import for the plugins themselves exactly if validation finds nothing missing.
Requirers(k) == {q[2]: q \in {r \in plan.requirers: r[1] = k}}
Imported(p) == \E k \in Open: Adds(k) /\ plan.entries[k].will_import.project = p
PlanCloses ==
  (plan # None /\ plan.stage \in {"install", "done"}) =>
    /\ \A d \in Frontier(plan.base): d.key \in Open => plan.entries[d.key].depth = 0
    /\ \A d \in Frontier(plan.base): d.key \in DOMAIN plan.entries
    /\ (\A d \in Frontier(plan.base): already_satisfied(d))
         <=> required_dep_findings(plan.base) = {} /\ missing_catalog_deps(plan.base) = {}
    /\ \A k \in Open: IF plan.entries[k].depth = 0 THEN None \in Requirers(k)
                      ELSE \E p \in Requirers(k) \ {None}: Imported(p) \/ \E x \in plan.base: x.mod_identifier = p
    /\ \A k \in Open: Adds(k) /\ plan.entries[k].will_import.project \notin plan.unread =>
       \A d \in Children(plan.entries[k].will_import.project, 0):
         /\ d.key \in DOMAIN plan.entries /\ <<d.key, plan.entries[k].will_import.project>> \in plan.requirers
         /\ plan.entries[d.key].depth <= plan.entries[k].depth + 1

\* The first n components are the target's, missing ones counting as 0.
Shares(v, t, n) == \A i \in 1..n: component(v, i) = component(t, i)
Fixed(t) == IF \A i \in 1..Len(t): t[i] = 0 THEN Len(t)
            ELSE CHOOSE i \in 1..Len(t): t[i] # 0 /\ Shares(<<>>, t, i - 1)
Wildcard(t) == Append(t, X)
Release(v) == \A i \in 1..Len(v): v[i] >= 0
Bare(v) == SelectSeq(v, LAMBDA c: c >= 0)

\* A release satisfies a tilde or caret range exactly if it is not below the target and
\* shares the components the range fixes, and an x-range if it shares those before the
\* x; the same range written in the three dialects gets the same answer; and a
\* qualified version is below its release and above every release below that
\* (version_range.py, _tilde, _caret, _x_range, _maven_interval, _paper_satisfies).
RangesAgree(version, target) ==
  /\ compare(version, target) = -compare(target, version)
  /\ Release(version) =>
       /\ tilde(version, target) <=>
            compare(version, target) >= 0 /\ Shares(version, target, IF Len(target) > 1 THEN 2 ELSE 1)
       /\ caret(version, target) <=>
            compare(version, target) >= 0 /\ Shares(version, target, Fixed(target))
       /\ Len(version) >= Len(target) =>
            (semver_predicate(version, [op |-> "=", target |-> Wildcard(target)])
               <=> Shares(version, target, Len(target)))
       /\ tilde(version, target) <=>
            maven_interval(version, target, tilde_upper(target), TRUE, FALSE)
       /\ paper_satisfies(version, target) <=>
            semver_predicate(version, [op |-> ">=", target |-> SubSeq(target \o <<0>>, 1, 2)])
  /\ ~Release(version) =>
       /\ compare(version, Bare(version)) < 0
       /\ Len(target) <= Len(Bare(version)) /\ compare(target, Bare(version)) < 0
            => compare(version, target) > 0
=============================================================================
