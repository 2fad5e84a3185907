------------------------------ MODULE SavedIndex ------------------------------
(***************************************************************************)
(* An index that is built by one program and read by another: bulk load,   *)
(* inserts, Alex::serialize with or without a pager, and the loaded index, *)
(* whose children are recovered when they are first needed (LazyAlexNode,  *)
(* DataChunk, WritePager and ReadPager), in which reading and inserting    *)
(* goes on (src/benchmark/kv_build.cpp and kv_benchmark_rw.cpp).           *)
(*                                                                         *)
(* The index is a leaf, or a root with leaves as children.  Lazy nodes and *)
(* leaves are named by the first bucket that points to them: lazy[b] is    *)
(* the LazyAlexNode of bucket b, run[b] the first of the buckets that the  *)
(* duplication factor groups with b, leaf[b] the object that get() gives   *)
(* for b.  Of a leaf there is                                              *)
(*   keys,                                                                 *)
(*   arrays  where its arrays are: on the heap, in the mapped file, not    *)
(*           loaded ("page"), or nowhere ("none"),                         *)
(*   chunk   its cached DataChunk: "none", "fresh", "stale" once the       *)
(*           arrays it points to are gone, or "freed" once it was deleted  *)
(*           with a leaf that had the same one,                            *)
(*   links   where next_leaf_ and prev_leaf_ lead: nowhere, to leaves of   *)
(*           the index, or to those of another one ("foreign").            *)
(* Keys are unique; their positions are those of FanoutTree.               *)
(*                                                                         *)
(* Bounds: fanouts up to MaxFanout, and up to 2^MaxSaved after the bulk    *)
(* load; no leaf is split downwards.                                       *)
(***************************************************************************)
EXTENDS FanoutTree

CONSTANTS
    Key,           \* the keys inserted
    max_slots_,    \* max_data_node_slots
    MaxSaved,
    MaxFanout

ASSUME FanoutsAreBounded ==
    /\ Key \subseteq 0 .. (Span - 1) /\ max_slots_ \in Nat \ {0}
    /\ MaxSaved \in 0 .. MaxLevel /\ 2^MaxSaved <= MaxFanout
    /\ MaxFanout \in {2^n : n \in 0 .. MaxFanout} /\ Span % MaxFanout = 0
    /\ \A load \in Load : Cardinality(load) < 2^MaxLevel * max_slots_

VARIABLES
    process,    \* loading in bulk, building, reading
    has_pager,  \* the index was created with a pager
    index,
    root_chunk, \* the chunk of a root with children, of the same kinds
    archive,    \* the last index saved, and the keys it had
    closed,     \* the WritePager is, and has written all it was given
    keys,       \* the keys the index should have
    copied,     \* how often the index was, since built or loaded: 0, 1, or more
    forgotten,  \* a loaded index was copied after inserts into it
    fault       \* "none", or what the program died of

indexVars == <<process, has_pager, index, root_chunk, archive, closed, keys,
               copied, forgotten, fault>>
allVars == <<fanoutVars, indexVars>>

\* superroot_ leads to another root than root_node_: each was loaded.
apart == process = "reading" /\ has_pager /\ copied = 0

\* kInitDensity_ is 0.7.
FitsDataNode(n) == 10 * n <= 7 * max_slots_

NewLeaf(K, links) ==
    [keys |-> K, arrays |-> "heap", chunk |-> "none", links |-> links]
RootLeaf(K) ==
    [root_is_leaf |-> TRUE, fanout |-> 1, run |-> [b \in {0} |-> 0],
     lazy |-> [b \in {0} |-> 0], leaf |-> [b \in {0} |-> 0],
     data |-> [b \in {0} |-> NewLeaf(K, "none")]]

Saved(x, K) == [index |-> x, keys |-> K]

Init ==
    /\ InitFanout
    /\ method = "top_down" => low = {}
    /\ process = "loading" /\ has_pager \in BOOLEAN
    /\ index = RootLeaf({}) /\ root_chunk = "none"
    /\ archive = Saved(RootLeaf({}), {})
    /\ closed = FALSE /\ keys = {} /\ copied = 0 /\ forgotten = FALSE /\ fault = "none"

-----------------------------------------------------------------------------
(* Bulk load.                                                              *)

\* The depth of a level that the keys of a too large node ought to fit.
FallbackDepth ==
    LET n == Cardinality(values)
    IN  1 + CHOOSE d \in 0 .. MaxLevel :
                /\ d = 0 \/ 2^d * max_slots_ <= n
                /\ n < 2^(d + 1) * max_slots_

\* "slightly hacky": no fanout was better than none, but the keys need one.
ComputeLevel ==
    /\ process = "loading" /\ phase = "collected" /\ depth = 0
    /\ method # "existing"
    /\ depth' = FallbackDepth
    /\ use' = NodesOf(FallbackDepth)
    /\ method' = "whole_level"
    /\ UNCHANGED <<values, low, level, pair, merged, phase, indexVars>>

\* The keys at the positions of a node.
KeysOfNode(n) ==
    {k \in values : Cardinality({j \in values : j < k})
                        \in left_boundary(n) .. (right_boundary(n) - 1)}

Repeats(n) == 2^(depth - n[1])

\* The child for each node in use takes the next buckets, which share one lazy
\* node.
Children ==
    LET nodes == collect_used_nodes(use, depth)
        first[j \in 1 .. Len(nodes)] ==
            IF j = 1 THEN 0 ELSE first[j - 1] + Repeats(nodes[j - 1])
        NodeAt(b) == CHOOSE j \in DOMAIN nodes :
                         first[j] <= b /\ b < first[j] + Repeats(nodes[j])
        start == [b \in 0 .. (2^depth - 1) |-> first[NodeAt(b)]]
    IN  [root_is_leaf |-> FALSE, fanout |-> 2^depth,
         run |-> start, lazy |-> start, leaf |-> start,
         data |-> [b \in {start[c] : c \in DOMAIN start} |->
                      NewLeaf(KeysOfNode(nodes[NodeAt(b)]), "own")]]

\* bulk_load with the fanout tree, which goes out of scope.  A leaf whose keys
\* do not fit would be divided again: it is not followed.
BulkLoad ==
    /\ process = "loading" /\ phase = "collected" /\ method # "existing"
    /\ \/ /\ FitsDataNode(Cardinality(values)) /\ method # "whole_level"
          /\ index' = RootLeaf(values)
       \/ /\ depth \in 1 .. MaxSaved
          /\ \A n \in use : FitsDataNode(num_keys(n))
          /\ index' = Children
    /\ process' = "building"
    /\ keys' = values
    /\ values' = {} /\ low' = {} /\ method' = "existing" /\ use' = {}
    /\ depth' = 0 /\ level' = 0 /\ pair' = 0 /\ merged' = FALSE
    /\ phase' = "over"
    /\ UNCHANGED <<has_pager, root_chunk, archive, closed, copied, forgotten, fault>>

-----------------------------------------------------------------------------
(* Calls of the index, built or loaded.                                    *)

Alive == process \in {"building", "reading"} /\ fault = "none"

Bucket(key) == (key * index.fanout) \div Span
DataOf(key) == index.data[index.leaf[Bucket(key)]]

\* What the calls leave alone.
Rest == <<process, has_pager, root_chunk, closed, copied, forgotten>>

Die(of) == fault' = of /\ UNCHANGED <<index, archive, keys, Rest>>

\* Fault: consume_chunk does not take over the arrays.
ConsumedWithoutArrays(data) == [data EXCEPT !.arrays = "none"]

\* recover(): the node, with its arrays in the mapped file.
Consumed(data) ==
    IF data.arrays = "page" THEN [data EXCEPT !.arrays = "mapped"] ELSE data

\* The index after get() of the child in a bucket.
Got(b) == [index EXCEPT !.data[index.leaf[b]] = Consumed(@)]

\* Reading a node that the pager has not written yet fails, if it has not been
\* written by chance; reading arrays that are not there does.
MayFail(key) == DataOf(key).arrays = "page" /\ ~closed
Fails(key) == Consumed(DataOf(key)).arrays = "none"

Lookup(key) ==
    /\ Alive
    /\ \/ (MayFail(key) \/ Fails(key)) /\ Die("read")
       \/ /\ ~Fails(key)
          /\ index' = Got(Bucket(key))
          /\ UNCHANGED <<archive, keys, fault, Rest>>
    /\ UNCHANGED fanoutVars

\* A node resized: its chunk still points to the arrays it had.
Resized(data, key) ==
    [data EXCEPT !.keys = @ \cup {key}, !.arrays = "heap",
                 !.chunk = IF @ = "fresh" THEN "stale" ELSE @]

\* An insert into the leaf that has room, or after a resize of it, which gives
\* the arrays back to the allocator wherever they are.
Insert(key) ==
    LET b == index.leaf[Bucket(key)]
        got == Got(Bucket(key))
    IN  /\ Alive /\ key \notin DataOf(key).keys
        /\ \/ (MayFail(key) \/ Fails(key)) /\ Die("read")
           \/ got.data[b].arrays = "mapped" /\ Die("resize")
           \/ /\ ~Fails(key)
              /\ \/ index' = [got EXCEPT !.data[b].keys = @ \cup {key}]
                 \/ /\ got.data[b].arrays = "heap"
                    /\ index' = [got EXCEPT !.data[b] = Resized(@, key)]
              /\ keys' = keys \cup {key}
              /\ UNCHANGED <<archive, fault, Rest>>
        /\ UNCHANGED fanoutVars

\* Fault: the runs are not scaled.
expandUnscaled(x) ==
    LET run == [b \in 0 .. (2 * x.fanout - 1) |-> x.run[b \div 2]]
    IN  [root_is_leaf |-> FALSE, fanout |-> 2 * x.fanout,
         run |-> run, lazy |-> [b \in DOMAIN run |-> b], leaf |-> run,
         data |-> [b \in {run[c] : c \in DOMAIN run} |-> x.data[x.leaf[b]]]]

\* AlexModelNode::expand with a factor of two: each pointer of a run becomes a
\* lazy node of its own to the child of the run's first pointer.
expand(x) ==
    LET run == [b \in 0 .. (2 * x.fanout - 1) |-> 2 * x.run[b \div 2]]
    IN  [root_is_leaf |-> FALSE, fanout |-> 2 * x.fanout,
         run |-> run, lazy |-> [b \in DOMAIN run |-> b], leaf |-> run,
         data |-> [b \in {run[c] : c \in DOMAIN run} |-> x.data[x.leaf[b \div 2]]]]

\* The run of bucket b divided in two, with the keys of the leaf in b: each
\* pointer becomes a lazy node of its own.
SplitInTwo(x, b, key) ==
    LET buckets == {c \in DOMAIN x.run : x.run[c] = x.run[b]}
        mid == x.run[b] + Cardinality(buckets) \div 2
        K == x.data[x.leaf[b]].keys \cup {key}
        BucketOf(k) == (k * x.fanout) \div Span
        start == [c \in DOMAIN x.run |->
                     IF c \in buckets /\ c >= mid THEN mid ELSE x.run[c]]
        leaf == [c \in DOMAIN x.run |->
                    IF c \in buckets THEN start[c] ELSE x.leaf[c]]
    IN  [x EXCEPT !.run = start,
                  !.lazy = [c \in DOMAIN x.run |->
                               IF c \in buckets THEN c ELSE x.lazy[c]],
                  !.leaf = leaf,
                  !.data = [c \in {leaf[d] : d \in DOMAIN leaf} |->
                               IF c \notin buckets THEN x.data[c]
                               ELSE NewLeaf({k \in K : BucketOf(k) >= mid <=> c >= mid},
                                            "own")]]

\* The children that expand() cannot recover: a root that was loaded has no
\* pager.
Unreachable(b) ==
    {c \in DOMAIN index.run :
        /\ index.run[c] = c /\ c # index.run[b]
        /\ index.data[index.leaf[c]].arrays = "page"}

\* An insert that the leaf declines and a split sideways makes room for; the
\* new leaves are linked to the neighbours of the old one, which is deleted
\* with its chunk.
SplitSideways(key) ==
    LET b == Bucket(key)
        alone == \A c \in DOMAIN index.run : index.run[c] = index.run[b] => c = b
        got == Got(b)
    IN  /\ Alive /\ key \notin DataOf(key).keys /\ ~index.root_is_leaf
        /\ alone => 2 * index.fanout <= MaxFanout
        /\ \/ (MayFail(key) \/ Fails(key)) /\ Die("read")
           \/ alone /\ Unreachable(b) # {} /\ Die("expand")
           \/ DataOf(key).links = "foreign" /\ Die("links")
           \/ DataOf(key).chunk = "freed" /\ Die("chunk")
           \/ /\ ~Fails(key) /\ ~(alone /\ Unreachable(b) # {})
              /\ DataOf(key).links # "foreign" /\ DataOf(key).chunk # "freed"
              /\ index' = IF alone
                          THEN SplitInTwo(expand(got), 2 * b, key)
                          ELSE SplitInTwo(got, b, key)
              /\ keys' = keys \cup {key}
              /\ UNCHANGED <<archive, fault, Rest>>
        /\ UNCHANGED fanoutVars

-----------------------------------------------------------------------------
(* Saving and loading.                                                     *)

\* The chunk is made once.
to_chunk(data) ==
    IF has_pager THEN [data EXCEPT !.chunk = "fresh"] ELSE data

\* What is written is the chunk, and the arrays that it points to.
WritesFreedArrays(data) == has_pager /\ data.chunk \in {"stale", "freed"}

\* Saving makes the chunk of each leaf, unless it has one, and writes it, and so
\* for the root.  Without a pager it writes no arrays; nor does it, ever, for a
\* root that is a leaf.
SaveIndex ==
    /\ Alive /\ process = "building"
    /\ \/ /\ \/ has_pager /\ root_chunk = "freed"
             \/ \E b \in DOMAIN index.data : WritesFreedArrays(index.data[b])
          /\ Die("chunk")
       \/ /\ ~(has_pager /\ root_chunk = "freed")
          /\ \A b \in DOMAIN index.data : ~WritesFreedArrays(index.data[b])
          /\ index' = [index EXCEPT !.data = [b \in DOMAIN @ |-> to_chunk(@[b])]]
          /\ root_chunk' = IF has_pager /\ ~index.root_is_leaf THEN "fresh" ELSE "none"
          /\ archive' = Saved(index', keys)
          /\ UNCHANGED <<process, has_pager, closed, keys, copied, forgotten, fault>>
    /\ UNCHANGED fanoutVars

\* With a pager, each lazy node recovers a leaf of its own.
LoadedLeaf == IF has_pager THEN archive.index.lazy ELSE archive.index.leaf

\* A leaf as it was saved: if it was by its lazy node, there is the chunk, with
\* the places of the arrays in the pager's file.
LoadedData(data) ==
    LET by_lazy_node == has_pager /\ ~archive.index.root_is_leaf
    IN  [keys |-> data.keys,
         arrays |-> IF by_lazy_node THEN "page" ELSE "none",
         chunk |-> IF by_lazy_node THEN "fresh" ELSE "none",
         links |-> "none"]

\* A reader with its own index, and a ReadPager if the archive has been written
\* with one; the WritePager may be closed by then, or not.
LoadIndex(is_closed) ==
    /\ Alive /\ process = "building" /\ archive.keys # {}
    /\ process' = "reading"
    /\ closed' = is_closed
    /\ index' =
           [archive.index EXCEPT
               !.leaf = LoadedLeaf,
               !.data = [b \in {LoadedLeaf[c] : c \in DOMAIN LoadedLeaf} |->
                            LoadedData(archive.index.data[archive.index.leaf[b]])]]
    /\ keys' = archive.keys
    /\ root_chunk' = "none" /\ copied' = 0
    /\ UNCHANGED <<has_pager, archive, forgotten, fault>>
    /\ UNCHANGED fanoutVars

\* Each pointer gets a lazy node, to a copy of the child of the run's first
\* pointer; the copy has arrays of its own, and the chunk and the links of the
\* child.
copy_tree_recursive(x) ==
    [x EXCEPT !.lazy = [b \in DOMAIN x.run |-> b],
              !.leaf = x.run,
              !.data = [b \in {x.run[c] : c \in DOMAIN x.run} |->
                           [x.data[x.leaf[b]] EXCEPT !.arrays = "heap"]]]

\* What is left of a chunk that a copy has from its original, when that is
\* destroyed: each node deletes its chunk.
AfterDelete(chunk) == IF chunk = "none" THEN "none" ELSE "freed"

\* The same for a leaf: its neighbours are deleted, too.
Orphaned(data) ==
    [data EXCEPT !.chunk = AfterDelete(@),
                 !.links = IF @ = "none" THEN "none" ELSE "foreign"]

\* Links are not saved.
Unlinked(x) == [x EXCEPT !.data = [b \in DOMAIN @ |-> [@[b] EXCEPT !.links = "none"]]]

\* The copy of what superroot_ leads to.  In an index loaded with a pager that is
\* the root it saved, of which nothing is ever deleted.
CopyOfIndex ==
    IF apart THEN copy_tree_recursive(Unlinked(archive.index))
    ELSE LET copy == copy_tree_recursive(index)
         IN  [copy EXCEPT !.data = [b \in DOMAIN @ |-> Orphaned(@[b])]]

\* The original deletes a chunk that has been deleted already.
DeletesChunkAgain ==
    \/ root_chunk = "freed"
    \/ \E b \in DOMAIN index.data : index.data[b].chunk = "freed"

\* The copy constructor, after which the original is destroyed: the nodes that
\* root_node_ leads to are deleted.
CopyIndex ==
    /\ Alive
    /\ \/ /\ IF apart THEN ~closed
             ELSE \E b \in DOMAIN index.data : index.data[b].arrays = "none"
          /\ Die("read")
       \/ DeletesChunkAgain /\ Die("chunk")
       \/ /\ apart \/ \A b \in DOMAIN index.data : index.data[b].arrays # "none"
          /\ ~DeletesChunkAgain
          /\ index' = CopyOfIndex
          /\ root_chunk' = AfterDelete(root_chunk)
          /\ forgotten' = (forgotten \/ (apart /\ keys # archive.keys))
          /\ copied' = IF copied = 2 THEN 2 ELSE copied + 1
          /\ UNCHANGED <<process, has_pager, archive, closed, keys, fault>>
    /\ UNCHANGED fanoutVars

Next ==
    \/ NextFanout /\ UNCHANGED indexVars
    \/ ComputeLevel
    \/ BulkLoad
    \/ \E key \in Key : Lookup(key) \/ Insert(key) \/ SplitSideways(key)
    \/ SaveIndex \/ CopyIndex
    \/ \E is_closed \in BOOLEAN : LoadIndex(is_closed)

Spec == Init /\ [][Next]_allVars

-----------------------------------------------------------------------------
(* Properties.                                                             *)

IsIndex(x) ==
    /\ x.root_is_leaf \in BOOLEAN
    /\ x.fanout \in {2^n : n \in 0 .. MaxFanout} /\ Span % x.fanout = 0
    /\ LET buckets == 0 .. (x.fanout - 1)
       IN  /\ x.run \in [buckets -> buckets] /\ x.lazy \in [buckets -> buckets]
           /\ x.leaf \in [buckets -> buckets]
           /\ \A b \in buckets :
                  /\ x.run[x.lazy[b]] = x.run[b] /\ x.run[x.leaf[b]] = x.run[b]
                  /\ x.leaf[x.lazy[b]] = x.leaf[b]
           /\ DOMAIN x.data = {x.leaf[b] : b \in buckets}
           /\ \A b \in DOMAIN x.data :
                  x.data[b] \in [keys : SUBSET (0 .. (Span - 1)),
                                arrays : {"heap", "mapped", "page", "none"},
                                chunk : {"none", "fresh", "stale", "freed"},
                                links : {"none", "own", "foreign"}]

\* Types, and what lazy nodes are: pointers to one lazy node belong to one run
\* of buckets and lead to one leaf.
TypeOK ==
    /\ process \in {"loading", "building", "reading"}
    /\ has_pager \in BOOLEAN /\ closed \in BOOLEAN
    /\ root_chunk \in {"none", "fresh", "freed"}
    /\ copied \in 0 .. 2 /\ forgotten \in BOOLEAN
    /\ IsIndex(index) /\ IsIndex(archive.index)
    /\ fault \in {"none", "read", "resize", "expand", "chunk", "links"}

\* Copies of a leaf, one for each pointer of a run, that an insert into one of
\* them may have made different; a split of one drops the others.
CopiesWereDropped ==
    /\ process = "reading"
    /\ archive.index.lazy # archive.index.run
    /\ index.run # archive.index.run

\* Built, copied, saved and loaded, the index has the keys it was given, each
\* where a lookup looks for it, and no others; unless lazy nodes of one child
\* were saved apart and then a child was split, or a loaded index was copied
\* after inserts into it.
IndexHasItsKeys ==
    process # "loading" /\ ~CopiesWereDropped /\ ~forgotten =>
        \A k \in Key \cup keys : k \in DataOf(k).keys <=> k \in keys

\* What a program can die of.  Reading the file, freeing mapped arrays and
\* children out of reach: only a loaded index that was not copied, and reading
\* never if there is a pager, closed, and the root has children.  Chunks and
\* links: of two leaves that share one the first is deleted with the original of
\* a copy, so that a loaded index, which shares nothing with the one copied of
\* it first, dies of it as the copy of a copy at the earliest.  While the index
\* is built the copy itself does, and an index saved again after a resize.
FaultsHaveCauses ==
    /\ fault \in {"read", "resize", "expand"} => process = "reading" /\ copied = 0
    /\ fault = "read" => ~has_pager \/ ~closed \/ index.root_is_leaf
    /\ fault = "chunk" => has_pager /\ archive.keys # {}
    /\ fault = "links" => copied >= 1
    /\ fault \in {"chunk", "links"} /\ process = "reading" => copied = 2
=============================================================================
