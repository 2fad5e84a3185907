# ALEX_ext in TLA+

A TLA+ verification project for the ALEX index of this repository
(`src/src/core/`): an updatable learned index, here extended with saving to
disk and lazy loading. File names below are relative to `src/src/core/`.

The program is single-threaded. What makes it hard is not interleaving but
*protocol sequences*: the layout of an array, or the shape of a tree, is the
product of every call made so far, and the code that reads it relies on
conditions that no one call establishes.

## The system

| Part | State | Operations | Talks to |
| --- | --- | --- | --- |
| **Data node** (`AlexDataNode`, `alex_nodes.h`) | a gapped array of keys and payloads, a bitmap of filled slots, `num_keys_`, two size thresholds, `min_key_`/`max_key_`, a linear model, statistics | `bulk_load`, `bulk_load_from_existing`, `insert`, `erase_one`, `erase_one_at`, `erase`, `erase_range`, `resize`, lookups | called by the tree; tells it through fail codes 1-3 that it wants to be split or retrained |
| **Searches** in it | loop variables | `exponential_search_*`, `binary_search_*` | start where the model predicts |
| **Placement** in it | loop variables | the loop of both bulk loads and `resize` | the unclamped model |
| **Bitmap** of it | 64-bit words | `set_bit`, `unset_bit`, `get_next_filled_position`, `closest_gap`, `num_keys_in_range` | every operation of the node |
| **Model node** (`AlexModelNode`) | children, each repeated 2^`duplication_factor_` times | `expand`, `get_child_node` | the tree |
| **Tree** (`Alex`, `alex.h`) | superroot, model nodes, data nodes, the chain of leaves, statistics | bulk load, lookups, inserts with splits sideways, downwards and upwards, erasures with merges, iterators | nodes; the fanout tree; pagers |
| **Key domain** (in `Alex`) | `key_domain_min_/max_`, counters of keys outside it | `should_expand_left/right`, `expand_root` | inserts and erasures |
| **Fanout tree** (`alex_fanout_tree.h`) | levels of candidate partitions, with costs | `find_best_fanout_*`, `merge_nodes_upwards` | bulk loads and splits |
| **Serialization** (`chunk.h`, `pager.h`, `LazyAlexNode`) | chunks of nodes, lazy nodes that are loaded or not | save, load, `get` | the tree, the file system |
| **Models and costs** (`alex_base.h`) | slope and intercept, cost accumulators | least squares over doubles | every node |
| **Wrappers** (`alex_map.h`, `alex_multimap.h`) | none | forwarding | the tree |

What makes each part correct, and what is hard about it:

* *Data node.* The array stays sorted, gaps included; each gap repeats the key
  of the next filled slot; counts, bitmap, thresholds and cached extremes agree
  with the array; there is a gap when an insert needs one; the whole behaves as
  an ordered multimap. Each operation maintains part of this by hand, relying on
  what all earlier operations left.
* *Searches, placement, bitmap.* Boundary arithmetic: doubled bounds, halved
  ranges, predictions outside the array, words that are full, partial or absent.
* *Tree.* Each key routes to the leaf that holds it; repeated pointers agree
  with duplication factors; the chain of leaves is the tree's order; splitting
  ends. Splits and merges rewrite tree and chain separately, and paths are
  corrected after the fact.
* *Key domain.* Counters of out-of-domain keys survive expansions, rejected
  duplicates and erasures; the widened domain is computed in the key type.
* *Iterators.* They keep the rest of a word of the bitmap and go from leaf to
  leaf over empty words and empty leaves; they pass over no key and stop at
  nothing else.
* *Fanout tree.* The nodes in use take up the buckets and the keys from end to
  end, none twice, none left out, whatever the costs decide; and a child gets the
  keys that lookups will look for in it.
* *Serialization.* What is loaded is what was saved; shared children stay shared
  or are told apart in time; no array is read that was never written, none is
  freed that was mapped, no leaf link dangles. Much of this the code does *not*
  keep; the properties say under what circumstances it does.

`PROJECT.json` lists the hazards of all the parts by source line, each with the
properties that cover it or the reason why none does.

## Modules

| Module | What it is |
| --- | --- |
| `GappedArray` | The record of a data node, its well-formedness, and the effect of each helper: searches, `find_insert_position`, layouts, `resize`, shifting, gap filling |
| `DataNode` | The component: one node, one action per call, composed of the operators of `GappedArray` |
| `OrderedMultimap` | The abstract specification: a sorted sequence of pairs |
| `Ranks` | Ranks in a finite set of integers, which both levels count by |
| `ExponentialSearch` | The search loops, iteration by iteration |
| `ModelBasedPlacement` | The placement loop, key by key |
| `BitmapScan` | The bitmap as words, and the scans over them |
| `LeafIterators` | The iterators over a chain of such leaves; extends `BitmapScan` |
| `ArrayLoops` | The composition of the loops: a placement, then a search in what it laid out; or scans and iterators |
| `Rmi` | The tree at rest: model nodes, leaves, predictions, lookups with their traversal paths |
| `RmiUpdates` | What changes it, each as a function from tree to tree: splits downwards, sideways and upwards, merges, root expansion |
| `Alex` | The component: inserts with the loop that splits and tries again, erasures |
| `KeySet` | The abstract specification of the index: a set of keys |
| `KeyDomain` | The component: the range of keys the root divides, the counters of the keys outside it, and the arithmetic of `expand_root` in the key type |
| `FanoutTree` | How the keys of a node are divided among children |
| `SavedIndex` | A bulk load with `FanoutTree`, updates, `serialize`, lazy loading, copies, and updates after them |
| `DataNodeProofs` | Lemmas about the operators of `GappedArray`; the theorems about data nodes; their refinement of `OrderedMultimap`, with the lemmas about arrays as sequences of pairs it rests on |
| `LeafIteratorsProofs` | The scans and the iterators by themselves: their theorems, and the lemmas that the loops in sequence rest on |
| `ArrayLoopsProofs` | The searches, the placement, and all loops in sequence |
| `KeyDomainProofs` | The theorems about the key domain |
| `SavedIndexProofs` | The theorems about fanout trees and saved indexes |
| `RmiProofs` | Well-formed trees: what they are, where lookups end in them, and the two changes that splits are made of |
| `RmiUpdatesProofs` | Splits downwards and sideways, changes of keys, merges: they keep a tree well-formed |
| `AlexProofs` | Expansion of the root; the theorems about the index, and its refinement of `KeySet` |
| `MC...` | Constants for TLC |

`GappedArray` states the *result* of the loops (a search is a number of slots,
a layout any admissible set of slots, a closest gap a gap at least distance);
the three loop modules show that the loops have these results. So `DataNode`
can have a whole call as one action, and it is about calls that its properties
speak.

`Alex` takes a leaf to be the set of its keys, which is what `DataNode` shows
of it: the tree's modules say which leaf a key goes to, the node's modules
where in it. In the same way `KeyDomain` keeps of the tree its keys and whether
its root is a leaf, `Alex` keeps of the domain whether enough keys are outside
it, and `SavedIndex` has one level of leaves and leaves the splits below it to
`Alex`.

### How state and actions correspond to the code

* `node` is a record with the names of the members. `bitmap_` is a set of
  slots; `payload_slots_` is defined on filled slots only, as the payload left
  in a gap is never read; thresholds are in tenths of a key, since every
  density is a number of tenths and TLA+ has no doubles. `ret` is what the last
  call returned (fail code and slot, or number of keys erased).
* `Init` is a bulk load of up to `MaxLoad` sorted pairs at either density the
  tree uses. `Insert` is `insert()` that goes on: expansion, the duplicate
  test, the position, the closest gap, shifting, filling the gaps before the
  key, count, `min_key_`, `max_key_`. A duplicate turned away may have expanded
  the node, in the model as in the code. `DeclineInsert` is `insert()` that
  returns 1, 2 or 3, `ExpandAndRetrain` the one answer of `Alex::insert` that
  stays inside the node. `EraseOneAt`, `EraseOne`, `Erase`, `EraseRange` include
  the contraction they end with.
* *Predictions.* The model of a node is an arbitrary choice of slot, made anew
  for each call. That is more than any linear model can do; what is shown holds
  for all of them. Where a model is used unclamped and must be nondecreasing
  (placement), it is an arbitrary nondecreasing function reaching beyond the
  array.
* *Costs.* Statistics and costs decide only whether an insert is declined;
  both outcomes are always allowed.
* *Past-the-end scans.* `DataNode` takes `data_capacity_` as the answer of a
  scan that starts there. What the code reads then is the subject of
  `BitmapScan` and of a finding.
* `closest_gap` is modelled in the version built with bit-counting
  instructions; the slow version under the other `#if` scans slot by slot.
* `W`, the width of a word, is 64 in the code and a parameter here. A read of
  the word after the last may give any word.

For the tree:

* `tree.nodes` maps addresses to nodes with the members of the code; a deleted
  node is one that is no longer in it, so that a pointer left to it would be
  invalid and `TypeOK` false. A new node gets the next address (`fresh`). For
  TLC trees that differ in addresses only are one state: `MCView` numbers the
  nodes in key order, and the runs have it as their view. A linear model `a_ * key + b_` is a `start`
  and a `width` (`a_ = 1/width`, `b_ = -start/width`).
* A call that its leaf takes is one step (`Insert`, `Erase`). An insert that the
  leaf declines is `DeclinedInsert`, then one step for each turn of the loop in
  `Alex::insert`: `Retrain`, `SplitDownwards`, `SplitSideways` or `SplitUpwards`,
  each with the new attempt that ends the turn, which is accepted or declined
  again. `op` holds the loop's variables: key, fail code, leaf, parent,
  traversal path. The calls of `find_best_fanout_existing_node` and the costs in
  the leaf are choices; `best_split_propagation` counts pointers only, and is
  computed.
* `policy` is `experimental_params_`, which a caller may change between calls:
  each declined insert has one of `Policies`.
* An expansion of the root is part of the insert that causes it. Whether
  enough keys are outside the domain is a choice: the counters are
  `KeyDomain`'s.
* `correct_traversal_path` keeps what the code does: `tn` is a reference to the
  last element, `tn = traversal_path.back()` after `pop_back()` writes to the
  removed element, and the ancestor at which the path turns keeps its bucket.
* *Rounding.* A prediction is exact, except for keys in `Misrounded` that lie on
  the boundary of two buckets of a model: for these a new model may predict the
  bucket below, or slightly above, and may compute a boundary value greater than
  the key. Keys off the boundaries are far from it compared with the error of a
  double.
* Data of the leaves, statistics and costs are left out. So is `clear()`: it
  does not compile when it is used (`alex.h:2226` passes the comparison where
  the constructor of `AlexDataNode` takes the pager). `KeyDomain`, which asks
  what a cleared index does with the domain it had, has it as it is written.

For the iterators:

* `it` has the members of `Iterator` and `ReverseIterator`, the word and what is
  left of it among them; `nullptr` is the leaf number 0. The chain is one leaf
  with an arbitrary bitmap between neighbours of four kinds. An iterator is asked
  for at any slot, and behind the last one, by any of the calls that make one.
* `++` on an iterator at the end is undefined and not modelled.
  `find_last_no_greater_than` returns the first key, which is greater, when none
  is less or equal; the property says so.

For the key domain:

* `istats_` is the record of the code. Arithmetic in the key type wraps
  (`Wrapped`); halving rounds towards zero; the `int` made of a quotient is
  undefined beyond `kMaxFactor`, the greatest power of two that is one.
* Only an unsigned type is modelled (`TypeIsUnsigned`). In a signed one the
  differences `alex.h:1371` and `1383` overflow for keys far apart, which is
  undefined and which the comment at 1370 takes note of.
* `Insert` counts the key first, as the code does, then expands, then takes the
  key or turns it away. A root leaf may decline the key, and the domain is then
  renewed without it.
* A root leaf that is emptied and then declines a key renews the domain with 0
  keys, and the next expansion would divide by 0: the model has the fault, and
  the property says when it cannot happen.
* A bulk load into an index that was used before violates the assertion
  `alex.h:716` if it builds a model node as root, so `BulkLoad` builds a leaf.

For fanout trees and saved indexes:

* Keys are cells of a space of `Span` cells, a prediction is a division. A
  boundary in `low` is one whose double came out smaller than the key before it.
  The bottom-up search and the fallback to a whole level move on over such keys;
  the top-down search (`alex_fanout_tree.h:240`) does not, and is modelled without
  rounded boundaries. Costs choose the level, each merge and each split freely.
* `index.run` is the duplication factor, `index.lazy` the `LazyAlexNode` of a
  bucket, `index.leaf` the object that `get()` gives. They differ: `expand`, a
  split and a copy make a lazy node for each pointer, to one child.
* `arrays` says where the arrays of a leaf are, `chunk` whether its cached chunk
  still points to them (`"fresh"`), to arrays that a resize has freed (`"stale"`), or is
  itself deleted (`"freed"`), `links` where its neighbours are; `root_chunk` is the
  chunk of a root with children. `fault` is what the program would die of; nothing
  happens after.
* `CopyIndex` is the copy constructor, after which the original is destroyed: what the
  copy has from it is then gone. The constructors that the compiler makes and the one of
  the leaf copy the pointer `chunk_`, which each `~AlexNode` deletes
  (`alex_nodes.h:89-93`), and the links. `copied` counts copies up to two: the first copy
  of an index loaded with a pager is of what `superroot_` leads to, which is never
  deleted, since the destructor follows `root_node_`.
* `closed` is that the `WritePager` was closed before the reader opens its file.
  `kv_build.cpp:134` opens the reader before: reading then may fail, or not.

## What TLC checks

| Run | Instance | Shows |
| --- | --- | --- |
| `data_node_multimap` | 3 keys, 2 payloads, duplicates, loads of up to 2 pairs, 6 slots | The type invariant and the parts of well-formedness; exact lookups for every key; the density after erasures; refinement of `OrderedMultimap` |
| `data_node_map` | 5 keys, 1 payload, no duplicates, loads of up to 3, 6 slots | Room for every insert; expansions bounded by `max_slots_`; refinement, rejected duplicates included |
| `array_loops` | arrays of 1 to 9 slots, 3 keys and the sentinel, up to 4 keys to lay out, densities 0.6 and 0.8, predictions up to 2 slots outside the array; words of 2 and 4 bits, 1 to 6 of them, the last one partial or not; chains of up to 5 leaves | Placement: the rest always fits, and the loop ends in one of `Layouts` with the keys of `LaidOutKeys`. Searches: from each predicted slot, in what was laid out and in any sorted array, they stay in the array, keep the answer bracketed, are exact, and return. Scans: they agree with their slot-wise definitions on every bitmap. Iterators: they pass over the keys in order, both ways |
| `key_domain` | a type of 4 bits, 5 keys with up to 2 copies each, multimap and map | The counters follow the keys outside; expansions come in time and take in all of them; the domain never shrinks by a wrapped sum; no undefined operation in a multimap whose domain is a proper part of the type |
| `saved_index` | 16 cells, fanouts up to 8, loads of up to 5 keys, 3 slots in a leaf, boundaries rounded or not | The nodes in use partition keys and buckets; every key is where lookups look for it, through inserts, splits, copies, saving and loading; what a program can die of, and when it cannot |
| `alex_tree` | 3 keys, one of them outside the domain of the load; `max_fanout` 4; fanout trees of depth 1 and 2; splits by a fanout tree and splits upwards; levels -1 to 3; exact predictions | Pointers, chain, models and levels stay consistent; every key is found where it is, and where its insert is tried; refinement of `KeySet` |
| `data_node_max_key` | the sentinel is among the keys | Violation: finding 1 |
| `data_node_max_slots` | 4 slots at most | Violation: finding 2 |
| `bitmap_scan_end` | words of 4 bits, capacities 3 and 8 | Violation: finding 3 |
| `alex_stale_path` | 6 keys, `max_fanout` 8, splits upwards, no erasures | Violation: finding 4 |
| `alex_rounding` | 3 keys, the middle one on the boundary and misrounded, default policy | Violation: finding 5 |
| `alex_corrected_path` | 4 keys, the second one misrounded, `max_fanout` 2 | Violation: finding 6 |

### Bounds, and why they are enough

* `max_slots_` is a parameter of the code; `MaxLoad` bounds a bulk load and
  `MaxRetrained` the capacity up to which a node is retrained. No other bound is
  needed: a node of `max_slots_` slots stops expanding, so the state space is
  finite. With 6 slots a node expands more than once and contracts again, there
  are several gaps in a row, on both sides of an insert and at both ends, and
  (with two payloads and three keys) runs of equal keys whose order can be told.
  The map instance has more keys for deeper expansion, the multimap instance
  fewer keys for runs of equal ones.
* 9 slots allow three doublings to either side and then three halvings; the
  other capacities have the boundary cases: one slot, a doubling that ends
  exactly at an end, or beyond it.
* 4 keys at density 0.6 get 6 slots: placement at the prediction, after the
  previous key and packed at the end all happen, alone and one after another.
* `closest_gap` treats the word of the position, equally distant words, one
  word further, and one-sided rests; six words of two bits reach them all. It
  compares a bit position with half a word, so a width of four bits is
  the least where both answers occur on both sides.
* In the tree, `MinLevel` and `MaxLevel` bound how often the root is expanded and
  leaves are split, and a leaf is split only if it has two keys and the buckets
  on its path have a width that is a multiple of four, so that all arithmetic
  stays in the integers. `LoadsAreSetsOfKeys` asks the same of the keys
  loaded: two or more, the greatest and the least a multiple of four apart. With keys 0, 32 and 128, `max_fanout` 4 and levels -1
  to 3, TLC reaches: root expansions to both sides, in place and by a new root;
  sideways splits with enough pointers and with too few; splits upwards through
  one node and through several, with the other half pulled up or not; a second
  decline after a split upwards; merges that remove two model nodes or more in
  one erasure; trees of five model nodes. Three keys are enough because each
  property is about one key, or two neighbouring leaves; empty leaves around
  them take the part of the rest. At these bounds no path goes stale, so the run
  has no deadlock; `alex_stale_path` needs six keys to have one, and a
  constraint keeps it to inserts after a load.
* A chain has an arbitrary leaf of two words between none, an empty leaf, a
  full one, and an empty one next to one with a key in its second word only: an
  iterator then crosses an empty word, an empty leaf, both at once, and either
  end.
* 4 bits are enough for the domain to reach both limits of the type, to be
  clipped there and to be left whole, from an empty domain and one of a single value,
  whose sizes are divided by, up. Two copies make the difference between `erase_one` and `erase`;
  with `kMaxOutOfDomainKeys` 3 and the tolerance 3 both halves of the criterion
  decide. `MaxCounted` bounds the counters where they run away from the keys.
* Loads leave parts of the key space empty, have keys at both ends of a part and
  on a boundary that is rounded; with leaves of 2 keys loaded and 3 slots, every
  choice of a level occurs, and the fallback. Fanouts up to 8 allow a root to
  expand after a load and a child to be split twice; `MaxSaved` is the depth of
  the fanout a bulk load may choose.
* What the loops, the arrays and the domain do for larger sizes is what the
  theorems say.

Deadlock is checked for the data node and the tree, which accept a call, or
continue an insert, in every state. It is not for the loops, which end, nor for
`key_domain` and `saved_index`, which stop at a fault, nor for
`alex_stale_path`, whose model stops where the code would follow a freed
pointer.

### Fairness

Only the loops assume any: `WF_allVars(NextLoop)` in `ArrayLoops` (and
`WF_vars(Next)` in `ExponentialSearch` by itself), because one thread runs
them and nothing in them blocks. Under it `SearchReturns` says that every
search ends. A data node or an index makes steps only
when called, and nothing obliges a caller to call. That the splits of one
insert end is not stated: whether a new leaf declines again hangs on costs that
are left open, and with the outcome left open the loop may go on for ever.

## What is proved

TLAPS checks these for all values of the constants that the assumptions below
admit; those about data nodes, for all key sets of integers, payloads, sizes and
both values of `allow_duplicates`:

* `NodeStaysWellFormed`: `Spec => []IInv`, from which `TypeCorrect`,
  `SlotsStaySorted`, `GapsStayFilled`, `CountStaysExact`, `MinMaxStayBounds`,
  `RoomIsAlwaysLeft` follow, and with it the action properties
  `ExpansionIsBounded` and `ErasureLeavesDenseNodes`.
* `LookupsStayExact`, under the further assumption that the sentinel is not
  a key. The run `data_node_max_key` shows that this assumption is needed.
* `NodeIsOrderedMultimap`: `Spec => IsOrderedMultimap`, the refinement, under the
  same assumption: a duplicate is recognised by the slot before the upper bound,
  which is a gap for the sentinel.
* `AnswersAreNeverLost`, `LoopsSearchExactly`, `LoopsReadInArray` for the search
  loops: arrays of all sizes, those a placement has just laid out and any sorted one.
* `LoopsWriteInArray`, `LoopsHaveRoom`, `LoopsPlaceProperly` for the placement loop:
  all numbers of keys, densities and nondecreasing models, however far they predict
  outside the array. The last one joins `ModelBasedPlacement` to `GappedArray`: the
  loop ends in one of the layouts that `DataNode`'s bulk loads and resizes choose
  from, so the theorems about data nodes rest on the loop and not on what it is
  taken to do.
* `ScannedWordsStayWellFormed`, `ScansFindNextFilled`, `ScansFindClosestGap` and
  `ScansCountRange` for the bitmap: all widths of a word, all capacities, all bitmaps.
* `IteratorsPassOverNoKey`, an action property: chains of any number of leaves, of
  all sizes and bitmaps, and every sequence of `++`, `--` and turns.
* `TypesAreKept`, `CountersFollowAlways`, `KeysOutsideStayFew`, `NoFaultEver`,
  `DomainGrows` and `ExpansionTakesAll` for the key domain: all unsigned types, key
  sets, numbers of copies and parameters of the criterion.
* `FanoutsArePartitions`, `IndexTypesAreKept`, `LoadedIndexHasItsKeys` and
  `DeathsHaveCauses` for fanout trees and saved indexes: all key spaces, loads,
  fanouts and depths, all merges and choices of a level, boundaries rounded or not,
  and every sequence of inserts, splits, saves, loads and copies.
* `TreeStaysSound`: `Spec => []IInv` for the index, from which `TreeIsTyped`,
  `PointersRepeat`, `ChainIsOfTheTree`, `LookupsReachTheirKeys`, `ModelsCover`
  and `InsertsFollowLookups` follow: all invariants of `Alex`. For all sets of
  keys, loads, fanouts, fanout trees and bounds on levels; if predictions are exact
  (`Misrounded = {}`) and no policy splits upwards (`NoneUpwards`).
* `IndexIsKeySet`: `Spec => IsKeySet`, the refinement of a set of keys, under the
  same assumptions.
* What these rest on, for any well-formed tree: `LookupFinds`,
  `SplitDownwardsIsSplit`, `SplitSidewaysIsSplit`, `MergeIsMerged` and
  `ExpandRootIsMerged`.

The theorems about loops are about `SpecLoops`, the specification the runs check.
The parts have the same theorems about their own specifications
(`AnswerIsNeverLost`, `PlacementEndsWithALayout`, `GapFoundIsClosest`,
`KeysOfRangeAreCounted`, `IteratorsMoveInOrder`).

Assumptions: keys lie between the two ends of the key type (`KeysAreInRange`),
a node may have a slot (`MaxSlotsIsPositive`), `allow_duplicates` is a Boolean
(`DuplicatesChoice`), the bounds are natural numbers (`BoundsAreNatural`),
arrays have a slot (`CapacityIsPositive`), the sizes, densities and word widths
are those of arrays (`PlacementBounds`, `ShapesAreSound`, `ShapesAreArrays`), the
leaves in a chain are leaves (`NeighboursAreLeaves`), a type of keys has a value
(`KeysExist`), and for the key domain
that the type is unsigned, holds the keys and has powers of two as factors
(`TypeIsUnsigned`, `KeysAreOfTheType`, `LoadsAreSetsOfKeys`,
`FactorsHavePowersOfTwo`) and that an expansion needs two keys outside at least
(`CriterionNeedsTwoKeys`: 5 and 1000 in the code). For fanout trees the space is
divisible by the fanout of the deepest level, and a load has keys, all of them of
the space (`SpanIsDivisible`); for saved indexes the greatest fanout is a power of two that
divides the space, what a bulk load may choose is within it, and the keys of a load fit the
leaves of the deepest level (`FanoutsAreBounded`), without which the fallback of a
bulk load would look for a level that does not exist. For the tree keys lie
strictly between the limits of the type (`KeysAreWithinTheType`), `max_fanout` is a
power of two (`FanoutIsAPowerOfTwo`), a load has keys whose domain can be halved
(`LoadsAreSetsOfKeys`), a policy that splits upwards does not use the fanout tree
(`ParametersAreValid`, the assertion `alex.h:1227`). TLC evaluates each.

The two further hypotheses of the theorems about the tree are needed. Without exact
predictions the tree is not well-formed: the runs `alex_rounding` and
`alex_corrected_path` show a duplicate taken and a path that leads elsewhere. Splits
upwards are an experiment that is off by default (`allow_splitting_upwards`), and with
them an insert may follow pointers to deleted nodes, as the run `alex_stale_path`
shows. Where no path goes stale they are model-checked, in `alex_tree`.

*The argument.* `IInv` is `WellFormed(node)` with the types. None of its parts
is inductive alone. That the slots are sorted after an insert needs that the
gaps before the position repeat the key after them, or the new key written over
them would be out of order; that gaps repeat the next key after an erasure needs
that the slots are sorted, so that rewriting a run of gaps touches no other
value; that a resize yields a sorted array with all gaps filled needs that the
bitmap has exactly `num_keys_` slots, which in turn must agree with the number
of keys laid out; and that there is a gap, in every node whose insert goes on
(`RoomToInsert` leaves out only full nodes that may not expand), needs both the count and the
thresholds, `num_keys_ < data_capacity_` following from
`num_keys_ < expansion_threshold_ <= data_capacity_` or from the free slot
that every expansion leaves. `DataNodeProofs` has one lemma for each
operator (`resize`, `WithElement`, `WithoutSlot`, `WithoutSlots`, `BulkLoaded`):
it takes a well-formed node to a well-formed node; and then one step
for each action. For the searches the invariant brackets the answer: the
doubling loop has not passed it by more than half its bound, the halving loop
has it in `[l, r]`.

*The refinement.* The abstract sequence has at position r + 1 the contents of the
filled slot with r filled slots before it. A position and a filled slot determine
each other (`PositionFacts`), so an array is determined by its sequence of pairs
and its bitmap (`PairsByPosition`), and each operation needs one fact only: a resize gives
the slot with rank r the contents of the old one with rank r, a deletion leaves the
other slots alone (`EmptiedKeeps`), and in an insert the slots but the new one
take theirs from the old ones in order, those before the new slot from before the
upper bound (`ShiftKeepsOrder`). `CountsAreRanks` joins the searches to the abstract
counts. There is one lemma for each action, on any well-formed
node: that is where `NodeStaysWellFormed` enters.

*Placement.* `PInv` says that the slots up to `last_position` hold the keys placed
so far, as many as the bitmap has bits, with every gap showing the next key
(`Prefix`, `Shown`), that the keys left fit behind `last_position` (`RestFits`),
and that equal keys are side by side (`Together`), for which the next key has to be
predicted no further than the last slot if it is equal. That the rest fits is
inductive only together with the count.

*Bitmap.* `get_next_filled_position`: the slots from the start on are those of its
word and those of later words, by the arithmetic of `pos \div W` and `pos % W`; the
lowest bit of the first word that is not zero is the least of both. `closest_gap`:
without a gap in the word of the position, gaps lie in words to the left or to the
right; the loop over the distance stops at the first distance at which there is
one, all nearer words being full; the gap found there is the nearest on its side,
but the one on the other side may be nearer by up to a word less one, which is
why one word further is looked at, and only if the bit found is more than half
a word away. The tie goes to the left in each comparison. `num_keys_in_range` adds
up the words by a fold. The function that the fold is defined by is exhibited,
so that each step of the sum is known, and the least word at which the sum is
not the number of keys so far gives the contradiction.

*Iterators.* `IteratorInv` says that an iterator is at the end, or on a key with
the bits its word has on its far side and no others (`OnKey`). Keys
are ordered by leaf, word and bit. `AdvanceToFirst` is the lemma everything
rests on: whatever leaf, word and rest of the word it is called with, `advance` goes to
the first key among the rest, the later words and the later leaves, or to the end
if there is none. Empty words and empty leaves are passed because they have no keys.
The backward half is a mirror image, and is proved by itself.

*The loops in sequence.* `LoopInv` has the invariant of each loop at all times,
those of the loops at rest included, and that of the iterators in their stage.
The one thing handed on is that what a placement lays out is sorted with the
sentinel at its end, which the searches start from.

*Key domain.* `IInv` adds to the types that the counters are at least the number of
keys outside, less one (a root leaf that declines a key renews the domain without
it), that they are never ahead in a multimap with children, that no more than
`kMaxOutOfDomainKeys` keys are outside on a side, and `ProperDomain`: the domain of
a root with children is not empty and was made for some keys, or else it was renewed
for none and divides by zero before it can be expanded. None is inductive alone:
that few keys are outside needs that the counter is not behind when it reaches the
limit, and that an expansion may reset the counter to zero needs that the new domain
takes in every key, which is arithmetic: the power of two times the old size reaches
beyond the farthest key, the sum in halves does not wrap around when it is tried, and
otherwise the limit of the type is the bound.

*Fanout trees.* `FanoutInv` says that every cell of the space is in exactly one node
in use (`Tiled`), at each turn of the merge loop and of the top-down search. A merge
replaces two halves by their whole, a growth the other way round. That the nodes
collected from left to right lie side by side, as `UsedNodesPartition` has it, follows
by their number: the node that follows another one starts where that one ends, or the cell
between them would be in no node (`NodesAreAdjacent`). The keys of a node are then those between
two boundaries, wherever rounding puts them, as each boundary is where one node ends
and the next one starts (`TiledIsPartition`). The first bucket of
each child, which `bulk_load` finds by adding up, is a recursive function; that it is where the
node of the child starts is shown with the least child for which it would not be.

*Saved indexes.* `IInv` has `Shaped` for the index and for the one in the file
(a run is an interval of buckets that share a leaf, and its lazy nodes lie in it),
`Routed` (each cell is in the keys of the leaf its bucket leads to exactly if it
should be) and `LeafForRun` (all buckets of a run have one leaf). `Routed` is not inductive without
the other two: an insert would add its key in one bucket of a run only, and a split
that divides a run by its middle would leave keys on the wrong side if the run were not
an interval. Three parts say what holds when. `BuildingInv`: before a save all arrays
are of the heap, and a chunk is cached only of an index that was saved. `ArchiveInv`: the
file has the keys the index had. `ReadingInv`: after a load each run has one
leaf and each key is in it, unless children were saved with several lazy nodes each
and the tree that was loaded is still in use (`apart`, which a copy ends). Then the
index is complete as long as its runs are those of the file; once one of them is
divided (`Divided`) leaves are missing keys, but a division comes with an insert, so that the
keys are no longer those of the file. That is why a copy taken afterwards, which is of
what was loaded, is known to be one that forgets, and the exceptions in
`IndexHasItsKeys` are enough. `SharingInv` is what `FaultsHaveCauses` needs: there
are chunks only with a pager and after a save; a leaf has a deleted chunk or links to
deleted leaves only after a copy, and in a loaded index only after two of them; and after
a copy all arrays are of the heap.

*The tree.* A tree is nodes and pointers; that it is well-formed is said with four
functions that the program does not have. Each node but the superroot has a
`parent`, the number of its `first` pointer there, and an interval of keys, `from`
to `to`. `WellFormed` says that the pointers to a node are those from its first
one on, as many as its duplication factor says and aligned to that number, and those of
no other node (`HasRuns`); that the interval of a child is what its parent's model
gives to those pointers, and that a node's model divides just its interval
(`HasRegions`); that a leaf ends where the next leaf of the chain begins, and no two
leaves overlap (`IsChained`, `AreApart`); and that the keys of a leaf are in its
interval, where the outermost leaves also take the keys outside the domain, as the
clamped prediction does. None of the invariants that the run checks is inductive
alone. That a lookup ends at the right leaf needs that models of all levels above
agree; that a split can divide a run needs alignment; that a link is right after a
merge needs that siblings lie side by side both in the pointers and in the chain.

A lookup descends: levels grow, so it ends, and each step leads to the child whose
interval has the key (`LookupFinds`). Splits are proved as a composition. First a new
model node comes between the leaf and its parent and gets the leaf's run
(`InterposedIsWellFormed`; in a sideways split it is the parent itself, expanded if
it has too few pointers), then new leaves for the nodes of a fanout tree take the
leaf's place (`CreatedFacts`, `LinkedFacts`); the second step is the same for both
splits. `fanout_tree` hands over a list of factors whose runs fill the buckets
from the first on (`FanoutIsRuns`), which is all that is needed to know about costs. A merge
is a recursion whose depth depends on the tree: each turn either joins the leaf with a
sibling or puts an only child in its parent's place, and both keep the tree
well-formed, its keys, and the path above the leaf, along which the merge goes on
(`IsMerging`); induction is by a least number of turns for which it would not be so. Expansion
of the root is a change of the domain: the new domain has `f` slots of the old one's
size, the old root's pointers go to one of them and new leaves to the others, and
the keys that were clamped to an outermost leaf are parted among them.

The ghost functions of the new tree are exhibited in each case, and the lemma
concludes that *some* exist; that they are unique is not needed. The keys of the
tree are followed along: a split and a merge leave them as they were, an expansion too,
and an erasure or an insert changes them in the leaf where the key belongs. `IInv` adds that
while an insert is under way its leaf and parent are where its key belongs
(`IsTried`), which gives `InsertIsTriedWhereLookupsGo` and that the key taken in the end
was not in another leaf: with it each step is one of `KeySet` or leaves its state alone.

## What is only model-checked

* Splits upwards (`split_upwards`, `best_split_propagation`), and what holds of the
  tree with them.
* `SearchReturns`: liveness is out of the prover's reach.

## Findings

1. *The sentinel is a key* (`data_node_max_key`). Gaps at the right end hold
   the greatest value of the key type. A lookup of that value returns such a gap
   as a real key, against the comment at `alex_nodes.h:1637`, and an insert of
   it into an empty map is turned away as a duplicate.
2. *Retraining ignores `max_slots_`* (`data_node_max_slots`). A full node whose
   insert is declined with code 1 may be resized by `Alex::insert`, which does
   not look at `max_slots_`, against the comment at `alex_nodes.h:523`.
3. *Scanning from the end* (`bitmap_scan_end`). Where `data_capacity_` is a
   multiple of 64, `get_next_filled_position(data_capacity_, false)` reads the
   word after the bitmap, and `find_lower`/`find_upper` may return a position
   beyond the range their comments promise (`alex_nodes.h:1648`, `1659`).
4. *A stale path is used* (`alex_stale_path`). With `allow_splitting_upwards`,
   an insert whose leaf declines it again after a split upwards hands its old
   traversal path to `best_split_propagation` and `split_upwards`, though nodes
   on it are deleted. The comment at `alex.h:1918` says that the path is no
   longer used. A new leaf declines when its expected shifts are catastrophic
   (code 2), which is possible in the first insert after it was built.
5. *A duplicate is inserted* (`alex_rounding`). Splits divide keys by a boundary
   value in doubles, `(mid - b_) / a_`, lookups by a prediction. For a key on the
   boundary the two may disagree: with a root leaf over -520251 to 719489 split in
   two, the boundary is 99619.00000000004 and the prediction of 99619 is 1.0, so
   that the key stays left while its prediction leads right. `get_leaf` makes up
   for this by a look at the neighbour; the retry in `insert` does not
   (`alex.h:1252`) and accepts a key that is in the other leaf, against the
   comment at `alex.h:1142`.
6. *A corrected path leads elsewhere* (`alex_corrected_path`).
   `correct_traversal_path` corrects the bucket of the ancestor at which it turns
   in the element it has just removed (`alex.h:503`): `tn` is a reference to it.
   The path that `get_leaf` returns with the neighbour of the predicted leaf then
   leads to another leaf. Doubles get there: a root leaf from -77755 to 196113 is
   split at 59179.000000000007, the prediction of 59179 is 1.0, and after a split
   downwards of the right leaf its prediction in the new node is 0.0. A merge that
   gets such a path redirects pointers of the wrong node and deletes it.

Besides these, what the models show under the properties' premises:

* *Lookups that lose a key.* `get_leaf` looks at the neighbour within a tolerance
  that is proportional to the prediction (`alex.h:437`); a prediction just below 0
  has none. With keys from -608185 to 768349, 80082 predicts -2.8e-17 in a new node,
  and is in the leaf before. `KeysAreRouted` is checked with exact predictions for
  this reason.
* *The counters of a map.* A rejected duplicate outside the domain is counted, an
  erasure takes nothing back, and the counters run ahead of the keys: the domain
  expands with fewer keys outside than `kMinOutOfDomainKeys`, and
  `NoFaultInProperDomain` holds of multimaps only.
* *Without a pager* a saved index has no arrays of its leaves (`FaultsHaveCauses`
  allows `read` then), though `serde_notes.md` has "Disable lazy loading by passing
  nullptr pager". Nor has one whose root is a leaf, pager or not.
* *After a load with a pager*, `root_node_` and the child of `superroot_` are two
  nodes, and a copy is of the one that no update reached; `pager_` of the loaded root
  is null, so that `expand` dies on the first child not loaded; a resize gives mapped
  arrays to the allocator.
* *Copies share chunks.* After a save with a pager and a copy, the chunks of the copy are
  deleted with the original: the end of the copy deletes them again, a split deletes that
  of its leaf again, and another save writes them. After a load the second copy is the
  first to be in this state. `FaultsHaveCauses` allows `chunk` in these circumstances
  and no others.
* *Lazy nodes saved apart.* After an `expand`, a split or a copy each pointer of a run
  has a lazy node of its own, and each loads a copy of the child; inserts through
  one are lost when a later split keeps the other, against the comment at
  `alex_nodes.h:42`. `IndexHasItsKeys` has this as its exception.
* *A second save* writes the arrays the first one saw, which a resize has freed: the
  other cause of `chunk`.

## Not modelled, and why

* *Linear models, cost accumulators* (`alex_base.h`): least squares and cost
  formulas over doubles. Every module allows any prediction (nondecreasing where
  the code relies on it) and any decision.
* *That the splits of one insert end* (`alex.h:1177`), and that a bulk load of more
  equal keys than a node holds ends: both hang on costs.
* *The tree:* bulk loads of several levels, duplicate keys across leaves, cost
  decisions; and the return of `merge` after a failed assertion (`alex.h:2246-2249`), which
  exact routing does not reach.
* *Saved indexes:* trees of several levels, splits downwards and merges after a
  load, assignment. Scans of a loaded index, whose leaves have no links
  (`serde_notes.md`, "Bug: Cousin Pointers"), end with the leaf they start in.
* *Iterators:* the loop that looks for the next word that is not zero (`alex.h:2586-2597`)
  is stated by the word it finds. Iterators over a chain that changes meanwhile, which the code leaves undefined,
  and `NodeIterator`, a stack of nodes.
* `AlexMap` and `AlexMultimap`, which forward to the tree and fix
  `allow_duplicates`; benchmarks and examples, which have no state of their own.

## What could follow

In this order: `KeysAreRouted` under rounding, once the tolerance is
repaired; `split_upwards` keeping a tree well-formed, once paths no longer go stale (a
split upwards is a run divided in two at each level, with the lemmas about pointers
of `RmiProofs`); `SavedIndex` on trees of several levels.
