# Verification of noe-gate

Noe decides whether a robot may act. A *chain* (a sentence of a small logic
language) is judged against a *context* (what the system knows); only a chain
that passes every check yields an action, and the decision is bound by hashes to
what it was made from. This directory holds TLA+ models of that process, the
configurations TLC checks them with, and proofs that TLAPS checks.

    tlc  -workers 2 -config MCNoeRuntime.cfg MCNoeRuntime.tla
    tlapm NoeRuntime_proofs.tla

## The system

| part | source | state | operations |
|---|---|---|---|
| Context manager | `noe/context_manager.py` | three layers (root, domain, local), cached digests of two of them, time of the last local write, one re-entrant lock | `snapshot`, `update_local`, `replace_local`, `update_domain`, `replace_domain`, `unsafe_replace_root`, `assert_fresh`, `compare_hashes` |
| Runtime | `noe/noe_runtime.py`, `noe/provenance.py` | configuration, a parser | `evaluate` (snapshot, gates, parse, validate, check tree, evaluate, bind), `evaluate_with_provenance`, safety handler |
| Safety projection | `noe/context_projection.py`, `build_safe_context` in `noe/noe_validator.py` | none (functions) | evidence to trusted literals, strict-mode refusal, `C_safe` and its hash |
| Validator | `noe/noe_validator.py` | none | `validate_chain` |
| Evaluator | `noe/noe_parser.py` | tree cache, parser and its lock | three-valued evaluation, guards, lookups, actions, cycle checks |
| Actions | `noe/provenance.py`, `_finalize_action_static` in `noe/noe_parser.py` | the graph of one evaluation | action hash, event hash, lineage |
| Agents | `noe/agent.py`, `noe/agent_auth.py` | registry of public keys, sessions | `negotiate`, `authenticated_negotiate`, a session's `validate_temporal` and `terminate`, `validate_chain_for_session`, `register` |
| Hysteresis adapter | `noe/hysteresis_adapter.py` | one entry per key | `apply_hysteresis_adapter` |
| ROS2 gate node | `ros2_adapter/` | lifecycle state, last reading, log | lifecycle callbacks, two subscriptions |
| Rust core | `rust/noe_core/` | none | a second validator and evaluator, called by the gate node |

How they meet: an adapter writes readings into the local layer
(`update_local`) while other threads call `evaluate`. `evaluate` takes one
snapshot and from then on looks at nothing else: domain pack and staleness are
judged on it, `validate_chain` projects its layers to `C_safe`, the evaluator
sees `C_safe` only, and the hashes in the result are those of the snapshot and
of `C_safe`. `run_noe_logic` goes to the parser through the tree cache;
`evaluate` has a parser of its own. Actions that were evaluated come back as
values of literals and become targets of further actions. Agents negotiate
before they exchange chains; a session then says which chains and which
evidence may pass. The gate node is a separate process: it builds a context from
one sensor reading and calls the Rust core.

What is hard in it: threads that write layers while others copy and hash them;
a wall clock read outside the lock, which may be set back; evidence that ages
between two builds; two locks around the cache and a parser object that must not
be used twice at once; a decision published before its record is written;
queues that lose and reorder; deltas that tell of changes only; two agents that
must come to the same frame while the clock moves; a registry of keys that is
read and written without a lock; hashes that are carried from one evaluation
into another; tables that are incomplete, and become less so while chains are
judged by them; undefined values, errors and lists that reach a guard through
every operator of the language, in two modes and two implementations.
`PROJECT.json` lists these as hazards, each at its line with the properties that
watch it.

## Modules

| module | models | run by |
|---|---|---|
| `ContextLayers` | layers, merge, digests, size limit | (used by the next two and by `NoeRuntime`) |
| `ContextManager` | the manager, step by step | `MCContextManager` |
| `ContextStore` | what the manager promises: atomic calls | as the property `Linearizable`; used by `NoeRuntime` |
| `Kleene` | the three truth values and their connectives | (used by the next four and by `Lookups`) |
| `ChainValues`, `Evaluator` | the values of `NoeEvaluator` and what its visitors make of them | `MCChainEvaluation` |
| `CoreEvaluator` | the same operators in `eval.rs` | `MCChainEvaluation` |
| `ChainEvaluation` | `run_noe_logic` of both: parse tree, validators, evaluation in many contexts | `MCChainEvaluation` |
| `Lookups` | the operators that ask the context: demonstratives, space, time, values, relations, comparisons | `MCLookups` |
| `LookupWorld` | the context they ask, as it changes between evaluations | `MCLookups` |
| `Actions` | verbs, the hashes of actions, and what is reported, kept and aimed at | `MCActions` |
| `NoeRuntime` | `evaluate` over a `ContextStore` that others write, and its provenance record | `MCNoeRuntime` |
| `PiSafe`, `SafeContext` | the projection; builds of the safe context while readings arrive and age | `MCSafeContext` |
| `AstCache` | tree cache, parser, both locks | `MCAstCache` |
| `Handshake` | declarations, match, frame, signatures and challenges | (used by the next) |
| `Agents` | calls of `authenticated_negotiate` over one registry and one clock, and the sessions they leave | `MCAgents` |
| `GateNode` | the ROS2 lifecycle node and its queues | `MCGateNode` |
| `Hysteresis` | the input filter and the context it feeds | `MCHysteresis` |
| `*_proofs` | theorems about the module they are named after; those about `LookupWorld` are in `SafeContext_proofs` | TLAPS |

The definitions named *variant* are small changes of the definition after them.
Nothing uses them: put in its place, each makes a property fail, which shows that
the property depends on that line of the code.

### ContextManager

`root`, `domain`, `local` are `_root_dict_cached`, `_domain_dict_cached`,
`_local`; the frozen copies next to them are never read and are left out. A call
is cut at each access to shared state: `SnapshotCall` reads the clock,
`SnapshotEnter` takes the lock, judges the age and copies root, `CopyDomain`,
`SnapshotSeal` copies local, hashes it, takes the two cached digests and leaves.
A mutator computes and checks the new layer in `Prepare`, then assigns layer and
digest (or layer and time) in two steps. The lock therefore matters in the model:
without it `SnapshotIntegrity` fails.

A layer is a function from leaf paths to values, and SHA-256 of its canonical
form is a tag around it, so equal hashes mean equal layers and an outdated hash
can be seen. Two paths, two values and a size limit of one path let a merge add a
path, replace one, or become too large; the constructor may be given a local
layer over the limit, which the code accepts.

`Linearizable` states that the manager implements `ContextStore`: its refinement
mapping reads root and domain off their digests (a write takes effect when the
digest is in place) and shows the old local layer until its time stamp is set.
The abstract store does not promise a current verdict on the age, because the
code does not give one: `snapshot()` reads the clock before it waits for the lock,
and a layer that goes over age while it waits is sealed as fresh.

### ChainEvaluation

The visitors of `NoeEvaluator` run from the leaves of the parse tree to its root,
and so do the actions: each puts one node on a stack of finished subtrees, with
the node's value in every context at once. `Run` is `run_noe_logic`: what the
strict validator says of the chain, then the value of its root. Building chains
and evaluating them is thereby one state space, and a property can compare two
contexts (before and after learning, strict and partial) or the two
implementations on one chain.

A value holds what the code asks of one, such as its domain and what `_to_trit`
makes of it. Two things are less simple than the language suggests and are
modelled as the code has them. First, a child that is a list is spliced into its
parent's operands, and the operators then take members of it for operands. Second,
errors are values: a strict evaluation goes on after a failed check, and each
operator passes the error on, absorbs it or skips it. The properties of
actions use a second, independent evaluation that is only Kleene's tables
(`meaning`, and `may` for the actions whose guards are all true by it).

`CoresAgree` is limited to facts (known facts, constants, `nai`, `an`, `ur`) and
single guarded clauses, because elsewhere the two implementations plainly differ:
Rust yields the action of a clause and not a list of it, looks for beliefs in the
belief shard only, lets `sha` pass over compound operands, evaluates `kra` to
undefined always and quantifiers to their operand, does not unwrap literals in
connectives, asks for the audit shard for `mek` and not for `khi`, accepts literals
that stand in a modal shard only, and acts without spatial shard and on undefined
targets. `rated` says that a literal has an entry in the certainty shard, which is
all its validator asks (`rust/noe_core/src/validator.rs:290`), however low the value.
A literal has one key in each modal shard: the Rust core also looks for it without
its `@` (`rust/noe_core/src/eval.rs:252`), and contexts that hold both forms are left out.

`StrictOnlyRefuses` and `LearningNeverFlips` leave the quantifiers out, which skip
what is undefined: a set of which more becomes known may count differently, as may
one in strict mode, where an error drops out of it. That a verdict stays once it is
there, and that strict mode only refuses, is said of chains that do not have both `kra`
and `khi` (`Monotonic`): such a chain can take a verdict back when more becomes known,
as described below under the deviations.

### Lookups and LookupWorld

These operators are functions of the context, so `Lookups` has no state: every
definition takes the context `c` as an argument, and `RunNoeLogic(chain, mode, c)`
is the strict validator's verdict or the value. Chains are one operator over two
operands (literals or demonstratives); the connectives above them are the business
of `ChainEvaluation`. `LookupWorld` has one variable, the context. Since the context
manager merges or replaces whole layers in one step, `Write` may change anything at
once: the reports of all entities, the events, the bindings and the slow layers; it
sets the time of the reports if the layer is the local one and keeps it otherwise. An
entity may also move by the velocity it was reported with (`Move`), and the clock
advance. The properties compare the answers before and after a step. That is what
the operators are for and no test of a single evaluation can see: whether a report
turns an answer round, when `dia` passes from one entity to another, whether towards
means closer.

`DemonstrativeHolds` says what a demonstrative may do in one such write. One that is
bound stays with its entity or becomes undefined. One that is singled out by distance
can pass to another entity without being undefined in between, when one write takes
the first entity out of reach (or withdraws its report) and brings the second one in;
it cannot pass otherwise: both entities must have got new distances, or one of them
and the demonstrative a new reach.

Two things are modelled because the code has them although nobody would write
them: a literal stands for the entity of its own key without `@`, while entities
that demonstratives reach have ids with `@`, so the two never meet; and the
operators want positions in two forms, lists and maps, so a report serves one
group of operators or the other.

Abstracted: coordinates are small integers and the bearings between any two places
are multiples of 45° (`EightBearings`, checked on every run), so that `atan2` is a
table; the cone of `tra` and `fra` is fixed at its default of 45°; the older keys
`pos` and `vel`, thresholds in millimetres, `event_id`, the frames that may stand
above positions, and `shi` in front of a demonstrative are left out.

### Actions

`Meaning` applies verbs from the literal outwards, each of which ends in
`FinalizeAction`, the one place that hashes. A digest is the record that was
hashed. The state is the world between evaluations: which shards there are, what
was reported of deliveries and audits, and which literals hold an action, kept as
the evaluator returned it, as the runtime enriched it (`Enrich`,
`compute_action_lineage_hashes`), or written by hand without any hash. `wording`
is a history of the words that such an action came from; with it `HashIsProposal`
can say what the hash should be without using the code's way to it.

The name `action_hash` stands for two things in the repository: the hash of the
proposal that `compute_action_hash` makes, which is the one meant here and in
`HashIsProposal`, and the hash of a whole execution request in the runtime's record.

Left out: numbers within actions, lists as targets, and the lookup of reports by
`id` or `tracking` instead of the key. With injective digests `ERR_ACTION_CYCLE`
cannot come up, as an action would have to contain its own hash; the check is
modelled and not reached.

### NoeRuntime

`Evaluate` calls `snapshot()`, and each gate that can refuse is an action. What
the validator accepts, what the projection is and what a tree means are constant
operators of the snapshot's layers (`Accepts`, `Project`, `Meaning`), since in the
code they are functions without state; the properties must hold for any of them.
The store is the abstract one, which the run `context_manager` justifies. Each
thread has a runtime of its own; a runtime shared by threads would share an
unguarded parser (listed as a hazard).

`WithProvenance` puts the record of `evaluate_with_provenance` into the result:
the hash of what was decided, from which tree, in which context, under which
parent action. Explained literals are left out.

`DecisionReplays` rebuilds the whole decision, its record included, from the layers
its provenance commits to. `DecisionOfOneState` demands that these layers were in
the store together at one moment of the call. `since`, the states seen by a call,
is a history variable.

### SafeContext

Readings carry source, value, time and confidence (`enough`, `low`, `missing`).
`PiSafe` follows `pi_safe`: candidates, the leading edge within `TauWindow` of the
newest, groups, conflicts. A list of readings is a set here: the order only
chooses between equal values. `SafeContext` merges the layers first, as the code
does, so a list in a higher layer replaces one below.

### AstCache

Blocks under the cache's lock are single steps. A parse is two steps, because
`parse_chain` uses the parser without its lock; `met` holds the parses that have
met on the object, and a parse that met another may yield the tree of any text
among them, or fail. `used` is a history of the cacheable chains by their last use.

### Handshake and Agents

`Handshake` holds the functions: `match` with its gates in order, `bind`, and what
agents prove to one another. A signature is the key it was made with and what was
signed, so a check can only pass with the right key; a nonce belongs to one end of
one call; a frame is its own id, as the id is the digest of everything in the frame.

`Agents` runs `authenticated_negotiate` in steps, twice each for the two ends:
`Sign` and `Verify` read the clock, `Identify` and `Trust` read and write the
registry, with no lock between them, `Match` includes the mutual challenge, `Start`
reads the clock once for both ends, `Bind` computes a frame for each, `Compare`
compares them. The plain `negotiate` is `Match`, `Start`, `Bind` and `Compare`
alone. A call that succeeds leaves two `Session` objects, whose checks are
operators (`ChainAllowed`, `EvidenceAllowed`) and whose end is `Terminate`. The
clock may be set to any time at any moment, and an operator may register another key.

A chain is a set of tokens, that is, of what stands between its blanks: a word, a
literal of that name, or a word that is glued to a parenthesis. The grammar reads the
first and the third as operators (`OperatorsIn`), the check of a session takes the
first and the second for operators (`ExtractOperators`). `PassesHonourBoth` therefore
does not say that a chain which passes has no operator unknown to one of the agents;
it says so of operators that stand somewhere between blanks.

`SessionsShareTheKey` is what trust on first use gives here, and no more: if two
calls both found no key and stored one, the later wins and the earlier session
rests on a key that is not registered. The code has no text that excludes it.

### GateNode

All callbacks are in the node's one mutually exclusive group, so a callback is a
step, except that the process can die between publishing and recording. Queue
depth is one in the run instead of ten, so that overflow happens at once.
A failed configuration changes nothing a later one does not set again and has no
action. The core is a function of the sensor's value; that the chain permits
nothing without a clear zone is the assumption `GateAssumption`. `reading` is a
history of the last reading since the configuration, with the node's clock when it
was handled; `PermitIsGrounded` measures age by that clock, which may be set back,
as the code does.

### Hysteresis

One `Apply` is one tick of the caller's loop: the filter, then `update_local` with
the delta, which may be refused. Tick numbers and the state's debugging copy are
left out. `outside` (the side of the band a key was last seen on) and `told`
(whether the delta of the last change was accepted, and whether its policy keeps
confidences) are histories. `ContextFollowsState` asks for the confidence to be
gone with the value only if the policy at the time of the change kept confidences:
under one that does not, the filter says nothing of the confidence, and what an
earlier policy left in the context stays there.

## Runs

| run | shows | bounds |
|---|---|---|
| `context_manager` | snapshots whole and consistent, limits, atomicity, lock released | 2 threads (one reads and writes, one writes), clock 0..2 both ways, age limit 1 |
| `evaluator` | actions are guarded and grounded, strict mode only refuses, learning never flips a verdict, implementations agree | 1 literal, 18 contexts, chains of 6 nodes over 2 constants, 7 unary and 5 binary operators |
| `lookups` | a report never turns a strict answer round, defaults change no strict answer, demonstratives pass only in a write that moves both entities, towards means closer | 2 entities with 4 and 3 reports, any of them in one write, 1 event, 4 places, 2 bindings, 6 settings of the slow layers, clock 0..1; every chain of one operator in every state |
| `actions` | the action hash names the proposal and no other, the event hash adds what was observed, strict mode proposes nothing partial mode would not | 1 parcel, 1 literal that may hold an action, 2 reports, 2 findings, chains of 2 verbs, kept proposals of 3 words |
| `runtime` | decisions replay and belong to one state | 1 evaluating and 1 writing thread, 4 chains, strict and partial runtimes |
| `runtime_validation` | *fails*: validation failure comes back as undefined | same |
| `safe_context` | strict admission, ageing | 1 predicate with evidence of 2 sources, 6 reports, `now` up to 4 |
| `ast_cache` | recency, own trees, one object per chain, lock released | 2 threads, 5 chains, cache of 2 |
| `ast_direct` | *fails*: `parse_chain` takes no lock | 1 worker and 1 direct caller |
| `agents` | ends agree, sessions honour both agents, sessions share the key | 2 threads, 3 declarations of 2 agents, 2 operators, every chain of tokens, 3 keys, clock 0..2 both ways |
| `gate_node` | grounded permits, complete records, proposals answered | 2 proposals, queues of 1, clock 0..2 both ways, 1 crash |
| `hysteresis` | context follows state, latch follows readings | 1 key, 3 confidences, 7 policies, 6 ticks |

The bounds are enough for what each property is about: two threads are needed and
suffice to interleave a snapshot with each half of a write, or two first contacts
with one agent; a clock of three values with a limit of one gives fresh, border and
over age; one more chain than the cache holds forces eviction; six nodes are two
operators around a guarded clause, and the contexts are those in which one literal
is unknown, believed, sure or known, true or false, in both modes, one in which it is
rated and not sure, and those that lack one shard each; two entities are what a relation in space needs, one that
moves past another; the settings go from knowing little to knowing more, so that
`LearningNeverReverses` has pairs to compare; two verbs nest one action in another,
and a kept action nests a third; keys of the filter and predicates of the
projection do not influence one another, so one with the interesting behaviour
stands for all. The symmetry of `agents` permutes model values only, and the run
checks no liveness.

The failing runs are the findings in `PROJECT.json`, each with the text of the
repository that says otherwise.

## Fairness

Weak fairness is assumed of steps *inside* a call only (`Continue`, `Step`) and of
the node's callbacks: a thread that can run is not suspended for ever, and
`spin()` serves every ready callback in turn. Nobody has to call anything, and
nothing is assumed about who gets a lock; so no run claims that a thread gets the
lock under contention, only that whoever has it gives it back. Of the runtime only the failing run needs fairness, so that a call which
comes to nothing cannot count as a counterexample; the others state safety.
`Agents`, `Actions`, `LookupWorld`, `Hysteresis` and `SafeContext` state no fairness:
a negotiation has no wait in it, and in the others every action is somebody's choice.

## Proofs

The theorems hold for all values of the constants that satisfy the named
assumptions of the module: any finite or infinite set of threads, any chains, keys,
limits and clocks. Those about `ChainEvaluation` and `Actions` hold for chains of any
length, as `MaxSize`, `MaxVerbs` and `MaxNested` are any natural numbers, the former in
any set of contexts.

| module | theorems |
|---|---|
| `ContextManager_proofs` | `TypeCorrect`, `SnapshotsHaveIntegrity`, `SizeLimitAlwaysHolds`, `CallsAreLinearizable` |
| `NoeRuntime_proofs` | `TypeCorrect`, `DecisionsAlwaysReplay`, `DecisionsOfOneState` |
| `Agents_proofs` | of `Agents`: `EndsAlwaysAgree`, `PassesAlwaysHonourBoth`, `SessionsAlwaysShareTheKey`; of `Actions`: `HashesNameProposals`, `HashesTellProposalsApart`, `EventsNameObservations`, `StrictProposalsArePartial` |
| `GateNode_proofs` | `TypeCorrect`, `PermitsAreGrounded`, `RecordsAlwaysComplete` |
| `Hysteresis_proofs` | `TypeCorrect`, `ContextAlwaysFollows`, `LatchAlwaysFollows` |
| `SafeContext_proofs` | of `SafeContext`: `TypeCorrect`, `StrictAlwaysAdmits`, `AgeingIsAlwaysSafe`; of `LookupWorld`: `StrictLookupsOnlyRefuse`, `DemonstrativesAlwaysHold`, `TowardsAlwaysApproaches`, `LearningNeverReversesAnswers` |
| `AstCache_proofs` | `TypeCorrect`, `CacheAlwaysRecent`, `OneTreeAlways`, `TreesAlwaysOwn` |
| `ChainEvaluation_proofs` | `EvaluationTypeCorrect`, `ActionsAreAlwaysGuarded`, `StrictActionsAreAlwaysGrounded`, `CoresAlwaysAgree`, `StrictAlwaysOnlyRefuses`, `LearningAlwaysNeverFlips` |

All but `SafeContext` also have the invariant the others follow from, named
`Inductive`, or, where there are several, after what they are for. What it adds to the
property, and why the property needs it:

- **Context manager.** That a sealed snapshot is consistent depends on the copies
  taken in earlier steps still being the layers in place and on the cached digests
  belonging to them. `IInv` adds: who is in a critical section holds the lock;
  outside the half-done writes each digest is that of its layer; the copies a
  snapshot in progress has taken equal the layers; a layer about to be assigned
  fits the limit. For `CallsAreLinearizable`, the refinement of `ContextStore`,
  `RInv` adds what a call still knows of the state it began in: the layer a write has
  prepared is one the layer in place can turn into, a verdict on the age stays true
  while the lock is held, and a comparison still holds its thread's last snapshot. A
  lemma per step then names the step of the store it maps to (`SnapshotSeal` takes
  the snapshot, `StampLocal` writes the local layer, `AssignDomainDigest` the domain
  layer) or shows that the mapped state stutters.
- **Runtime.** `WayInv`: a call past its snapshot has one whose hashes are those of
  its layers, and a call past the gates has passed each of them by *that* snapshot
  with the tree of its own chain. `SinceInv` adds that the snapshot is one of the
  states since the call, which gives `DecisionsOfOneState`. Writers are steps that
  leave all this alone, whatever they write.
- **Agents.** `CallInv`: from `Start` on the match is without error, and each end
  that has bound has bound the frame of the one clock reading. The rest is the
  handshake as a function: a frame does not depend on which agent comes first
  (`BindSymmetric`), and the merged limits are below both (`LesserIsBelow`).
  For `PassesAlwaysHonourBoth`: the limits and operators of a frame are those of the
  stricter of its agents (`ActiveIsStrictest`), and the check of a chain finds each
  operator that stands between blanks (`SpacedIsFound`).
  `KeyInv`, for the keys: unless an operator registered one, the key in the registry
  and the key of every end past its identification are keys that some end took up, so
  that one taking-up leaves no choice.
- **Gate node.** `SensorInv`: what the node keeps of the sensor is the last reading
  it handled since it was configured, or nothing. Every transition that could part
  the two resets the sensor. `OwesInv`, for the records: a callback that has published
  and not yet recorded owes exactly the record of the last decision, to a log that is
  open, and the records in the log belong, in order, to decisions before it. A crash
  cancels the debt, which is why `RecordsComplete` allows one record less for each.
- **Hysteresis.** `NothingOutside` ties the history to the state (a key without
  value has no last reading), `CountsBounded` bounds the missing counter by the ticks.
- **Safe context.** Types suffice. The lemmas are about the projection:
  two values promoted for one predicate are one (`ProjectionIsFunction`), a promoted
  value is said at the leading edge and disputed by none there (`PromotedIsSaid`),
  and when time passes the leading edge only shrinks (`EdgeOnlyShrinks`), so that
  whatever is still promoted was among what agreed before.
- **Tree cache.** The cache is the end of the sequence of last uses and no chain is
  in that sequence twice: lemmas about sequences say what a move to the end, an
  insertion and an eviction do to both at once. `OneTreeAlways` is about steps and
  follows from it. `TreesAlwaysOwn` holds for `Direct = {}`, that is without callers
  of `parse_chain`: then whoever parses holds the lock and is alone on the object.
  The run `ast_direct` shows that the assumption is needed.

- **Chain evaluation.** Since a chain grows by one node per action, what holds of all
  chains is an invariant of the stack, and its proof has one case per visitor
  (`Made` says what a node is, given its children). Values nest, so their properties
  would be recursive; they are stated by sets instead: `Proper(v)` says that some set
  with `v` in it has only atoms and lists of its own members, and likewise for the
  other predicates below. Three invariants build on `ValuesInv`, that all values are
  proper and outcomes those of the chain:
  - `ActionsInv` relates each value to the second evaluation. `Reads(v, m)`: whatever
    an operator can make of `v` by unwrapping it is the meaning `m` or undefined, so a
    guard that passes is true; without `kra` the actions of a value are among `may`;
    in strict mode none aims at `"undefined"` or was made without its shards. This gives
    `ActionsAreAlwaysGuarded` and `StrictActionsAreAlwaysGrounded`.
  - `AgreementInv` adds, for each form of subtree, what both implementations make of it,
    and that the operators of a guarded clause stand where the validator wants them. It
    gives `CoresAlwaysAgree`.
  - `GrowthInv` relates two contexts, one of which says more or is the partial twin of
    the other. `Beneath(v, w)`: `v` is undefined or an error (and then `w` counts as one
    operand), or both are the same atom, or lists whose first members are so related and
    whose other actions are included; and `w` has no error in it. That both have the
    same first member is what the operators need, which take it out of the list; it
    fails where `kra` meets `khi`. For verdicts alone, where that pair is allowed, the
    meanings grow (`Means`), the core's values stay compatible (`Keeps`), and `Reads` ties
    verdicts to meanings. It gives `StrictAlwaysOnlyRefuses` and
    `LearningAlwaysNeverFlips`.

- **Lookups.** The theorems about `LookupWorld` are the second half of
  `SafeContext_proofs`, which is about what goes into a context and what is read from
  it, and extends both modules. They rest on what `LookupWorld` assumes of its
  parameters (`WorldAssumption`, evaluated on every run of `lookups`): coordinates are
  integers, reports, shards and literals have the shape the evaluator reads, and a
  table of relations is a map. That bearings are multiples of 45° is not used: the
  theorems hold whatever `Bearing` is. `ContextOK` is the inductive invariant: a write
  may bring anything, but what it brings has the right shape (`StepGives`).
  `StrictLookupsOnlyRefuse` needs no more than one context: where the strict validator
  finds nothing wrong the shards are there, so no default is read (`SameMeaning`, by
  the forms of chains). `DemonstrativesAlwaysHold`: what is bound depends on its
  own entity only. What is singled out was the only candidate of its reach, before and
  after. If neither distance changed, a reach that lets the first go cannot take the
  second in; if the reach did not change, one goes out and the other comes in by its own
  distance only, so both must be new (`CandidatesCut`, `DemonstrativeStep`).
  `TowardsAlwaysApproaches` is the law of cosines and `StepGains`: a step within 45°
  of the way and no longer than it has more than half its length along it. Without the
  condition on the length the claim is false, as the step can pass the goal; an
  earlier form of the property left the condition out, and it held on the places of
  the run only. `LearningNeverReversesAnswers` goes operator by operator
  (`LocatedStays`, `TimedStays`, `AllowedStays`, `RelatedStays`): what was found
  stays, so an answer stays or becomes undefined. Relations need that the table is a
  map, values that what is accepted is not rejected.

- **Actions.** These theorems are the second half of `Agents_proofs`, next to those
  about who may propose what. The verbs of a chain and the words of a proposal are
  recursive functions over sequences, and what is said of all chains needs induction.
  The library's theorems of induction take the formula as an operator, which the
  provers cannot instantiate; `LeastElement` takes a set instead (from the
  well-foundedness of the order of the naturals), and `SetInduction` and `FromTheRight`
  follow. `MeaningsGive` and `NamesGive` show by it that the recursions have a solution,
  without which nothing could be said of them. `KeptIsNamed` is the inductive
  invariant: an action in a literal is aimed at by the hash that its words give it
  (`NamesTarget`), whether it was evaluated, enriched, or written without any hash. From
  it, `VerbIsNamed` says for each verb that it stops the chain or makes an action with
  the name of verb and target, which observed only what that verb looked up; by
  induction from the literal outwards the same holds of every chain
  (`ProposalIsNamed`). `PhrasesApart` goes the other way, from the first word to the
  last: the hash of a proposal determines its verb and the hash of what it aims at. That
  is `HashesTellProposalsApart`, for all pairs of chains; it rests on digests without
  collisions, as they are modelled.
  `StrictAgreesWithPartial` needs no invariant: a verb that strict mode lets through
  does the same in partial mode (`VerbsAgree`).

Only model-checked:

- `LockReleased`, `ParserLockReleased` and `ProposalsAnswered`:
  liveness under fairness is out of the prover's reach.
  Every other property of the runs is stated by a theorem, except those of the two
  failing runs.

## Deviations read off the code

What the models have because the code has it, although its text or one's
expectation is otherwise. The two failing runs are not repeated here.

- `kra` in front of a scope guards its first member only, as the list is spliced
  into the operands (`noe/noe_parser.py:2436`; the comment at 1995 says *return right
  unchanged*). `ActionsAreGuarded` leaves `kra` out.
- A quantifier skips members that are no truth value, and with them a failed
  epistemic check of strict mode (`noe/noe_parser.py:1469`;
  `examples/auditor_demo/README.md:123` wants such a gate to refuse).
- The raw literal of a suppressed predicate survives in partial mode
  (`noe/noe_validator.py:558`), though the docstring at 289 has projected literals
  only.
- `nau` over a literal with a truth value returns that value, whatever the event is
  (docstring at `noe/noe_parser.py:1513`).
- Operators of space look a literal up under its bare key and never find an entity
  that is keyed with `@`; `tests/test_spatial_operators.py` passes the keys in itself.
  `kos`, `til` and `rel` look up the *values* of literals, a truth as its text.
- `tra` and `fra` divide by zero for a thing that stands still or stands on the other,
  unless a threshold excludes it: the chain ends as `ERR_PARSE_FAILED`, where the
  comment at `noe/noe_parser.py:2104` has undefined directionality. Positions are
  lists for `nel` and its kin, maps for `lef` and its kin.
- The defaults of partial mode apply to demonstratives, but `check_grounding`
  reads the context without them.
- A comparison sign is found only with a word character right behind it.
- `session_start_ms or _now_ms()` takes a start of 0 for none (`noe/agent.py:578`),
  and a literal named like an operator counts as one (`noe/agent.py:644`).
- An operator beside a parenthesis, as in `(vek @door)`, is read by the grammar and not
  seen by `extract_operators_from_chain` (`noe/agent.py:640`), so such a chain passes
  `validate_chain_for_session`, whose docstring (line 654) has the chain *only
  reference operators in the NCF shared set*.
- The mode of a provenance record is neither in its hash nor read back from its JSON
  form, which then says strict.
- The lineage step overwrites the pointer to the child with null
  (`noe/provenance.py:218`): an enriched action without an action for its target loses
  the target when it is hashed again. An action whose target is the internal
  sentinel for undefined cannot be hashed at all and ends as `ERR_PARSE_FAILED`.
- The two implementations differ on `ur` and `an` beyond what `CoresAgree` allows for:
  `k3_or` and `k3_and` return an absorbing left side without looking at the right one
  (`rust/noe_core/src/eval.rs:431`), `_apply_binary_op` looks for errors on both sides
  first. In strict mode, with nothing known of `@p`, the guard of
  `true ur shi @p khi sek mek @p sek` is an error for Python and true for the core, which
  acts. `CoresAgree` therefore speaks of contexts in which all facts are known when it
  says that both act; `rust/noe_core/src/lib.rs:15` says *EXACT MATCH REQUIREMENT*.
- A verdict may be withdrawn when more becomes known, where `kra` and `khi` meet. What
  `khi` guards is a list when the guard is true and one undefined value when not; `kra`
  takes the list for its own, and an operator around it sees one operand where the guard
  is undefined and two where it is true. In partial mode
  `(true kra ((shi @p) khi sek (true true) sek)) ur true` is true without knowledge of
  `@p` and undefined with it, and `false an (true kra ((shi @p) khi sek (true true) sek))`
  goes from false to undefined; the visitors do the same. The chains are longer than
  those the run makes: the attempt to prove `LearningNeverFlips` found them, and `Monotonic`
  leaves them out.
- A filter policy without confidences leaves the confidence an earlier policy gave.

## Not modelled

Formatting and canonical JSON, quantization of numbers, the language tools,
explanations, examples and benchmarks. `noe.persistence` and the threshold
validator are imported but not part of the sources. The cross-agent example
(`examples/auditor_demo/yellow_alert_nip019.py`) builds its provenance record with
arguments that `build_provenance_record` does not take, so what it would record is
not modelled; nor is `build_cross_agent_provenance` (`noe/agent.py:604`), which copies
a record and adds the ids of the frame and of the other agent. Of the evaluator: questions, morphology, fusion, inversion and
intensity, floating-point numbers, `ur` between lists of more than three members,
and lookups, verbs and connectives in one chain (each of the three has a module of
its own). Of the validator: the shape of the context. `NoeRuntime` takes the
validator and the evaluator as constants. Of the Rust core: its hashing and its C
interface. What each module abstracts of its own part is said above.

## Plan

Done: the core (context manager, runtime, projection, tree cache, gate node,
hysteresis), both evaluators side by side, lookups, actions and their hashes,
negotiation and sessions; theorems for all modules with state, for both
evaluators and for the lookups, and the refinement of the atomic store.

Left, in this order:

1. The evaluator in place of `Accepts` and `Meaning` of `NoeRuntime`.
2. Lists as targets of actions; the induction of the proofs about `Actions` extends to
   them.
