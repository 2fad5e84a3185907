------------------------------ MODULE KeyDomain ------------------------------
(***************************************************************************)
(* The key domain of an index: the range of keys that the root's model     *)
(* divides, the counters of the keys outside it, the criterion by which an *)
(* insert expands the root, and the arithmetic of the new domain: istats_  *)
(* of class Alex, src/core/alex.h.                                         *)
(*                                                                         *)
(* Of the tree only this is kept: its keys, and whether the root is a      *)
(* leaf.  Equal keys are numbered from 1.  The arithmetic is that of the   *)
(* key type, kLowest .. kMax, and wraps around.                            *)
(*                                                                         *)
(* Bounds: a key has at most Cardinality(Copy) copies; keys are turned     *)
(* away, and the index is cleared, only while the counters are below       *)
(* MaxCounted.                                                             *)
(***************************************************************************)
EXTENDS Integers, FiniteSets

CONSTANTS
    Key,                         \* the keys inserted
    Copy,                        \* numbers that tell equal keys apart
    kLowest, kMax,               \* the limits of the key type
    kMinOutOfDomainKeys,
    kMaxOutOfDomainKeys,
    kOutOfDomainToleranceFactor,
    kMaxFactor,                  \* the greatest power of two that is an int
    Load,                        \* the sets of keys loaded in bulk
    MaxCounted                   \* bound, see above

Type == kLowest .. kMax
Entry == Key \X Copy
PowersOfTwo == {2^n : n \in 0 .. 30}

\* An unsigned type: differences of signed keys overflow, which is undefined.
ASSUME TypeIsUnsigned == kLowest = 0 /\ kMax \in Nat /\ kMax % 2 = 1
ASSUME KeysAreOfTheType == Key \subseteq Type /\ IsFiniteSet(Copy)
ASSUME LoadsAreSetsOfKeys == Load \subseteq SUBSET Key /\ 1 \in Copy
ASSUME CriterionNeedsTwoKeys ==
    /\ kMinOutOfDomainKeys \in Nat /\ kMinOutOfDomainKeys >= 2
    /\ kMaxOutOfDomainKeys \in Nat /\ kMaxOutOfDomainKeys >= kMinOutOfDomainKeys
    /\ kOutOfDomainToleranceFactor \in Nat /\ MaxCounted \in Nat
ASSUME FactorsHavePowersOfTwo ==
    /\ kMaxFactor \in Nat /\ PowersOfTwo \subseteq Nat
    /\ \A x \in 2 .. kMaxFactor :
           \E p \in PowersOfTwo : x <= p /\ p < 2 * x /\ p % 2 = 0

VARIABLES
    allow_duplicates, \* the template argument
    entries,          \* the keys of the index, with their copy numbers
    root_is_leaf_,
    istats_,
    fault             \* "none", or the undefined operation the program died of

vars == <<allow_duplicates, entries, root_is_leaf_, istats_, fault>>

num_keys == Cardinality(entries)
KeysOf(E) == {e[1] : e \in E}
EntriesOf(key) == {e \in entries : e[1] = key}

get_min_key(E) ==
    IF E = {} THEN kMax
    ELSE CHOOSE k \in KeysOf(E) : \A j \in KeysOf(E) : k <= j
get_max_key(E) ==
    IF E = {} THEN kLowest
    ELSE CHOOSE k \in KeysOf(E) : \A j \in KeysOf(E) : j <= k

IsAbove(key) == key > istats_.key_domain_max_
IsBelow(key) == ~IsAbove(key) /\ key < istats_.key_domain_min_

\* Fault: called before stats_.num_keys is set.
RenewedBeforeCounting(E) ==
    [key_domain_min_ |-> get_min_key(E),
     key_domain_max_ |-> get_max_key(E),
     num_keys_above_key_domain |-> 0,
     num_keys_below_key_domain |-> 0,
     num_keys_at_last_right_domain_resize |-> 0,
     num_keys_at_last_left_domain_resize |-> 0]

update_superroot_key_domain(E) ==
    [key_domain_min_ |-> get_min_key(E),
     key_domain_max_ |-> get_max_key(E),
     num_keys_above_key_domain |-> 0,
     num_keys_below_key_domain |-> 0,
     num_keys_at_last_right_domain_resize |-> Cardinality(E),
     num_keys_at_last_left_domain_resize |-> Cardinality(E)]

\* The constructor's index, and a bulk load of it.  A root with children needs
\* two keys.
Init ==
    /\ allow_duplicates \in BOOLEAN
    /\ fault = "none"
    /\ \/ /\ entries = {}
          /\ root_is_leaf_ = TRUE
          /\ istats_ = [key_domain_min_ |-> kMax, key_domain_max_ |-> kLowest,
                        num_keys_above_key_domain |-> 0,
                        num_keys_below_key_domain |-> 0,
                        num_keys_at_last_right_domain_resize |-> 0,
                        num_keys_at_last_left_domain_resize |-> 0]
       \/ \E load \in Load :
              /\ load # {}
              /\ entries = load \X {1}
              /\ root_is_leaf_ \in BOOLEAN
              /\ ~root_is_leaf_ => \E j, k \in load : j # k
              /\ istats_ = update_superroot_key_domain(entries)

-----------------------------------------------------------------------------
(* When an insert expands the root.                                        *)

\* Fault: keys on both sides are counted as above.
CountedAbove(key) ==
    IF IsAbove(key) \/ IsBelow(key)
    THEN [istats_ EXCEPT !.num_keys_above_key_domain = @ + 1] ELSE istats_

\* An insert is counted before it is known whether the key is turned away.
Counted(key) ==
    IF IsAbove(key) THEN [istats_ EXCEPT !.num_keys_above_key_domain = @ + 1]
    ELSE IF IsBelow(key) THEN [istats_ EXCEPT !.num_keys_below_key_domain = @ + 1]
    ELSE istats_

\* Fault: no limit to the keys outside.
ExceedsExpectation(count, at_last_resize) ==
    /\ count >= kMinOutOfDomainKeys
    /\ count >= kOutOfDomainToleranceFactor * ((num_keys \div at_last_resize) - 1)

Exceeds(count, at_last_resize) ==
    \/ /\ count >= kMinOutOfDomainKeys
       /\ count >= kOutOfDomainToleranceFactor * ((num_keys \div at_last_resize) - 1)
    \/ count >= kMaxOutOfDomainKeys

should_expand_right(s) ==
    ~root_is_leaf_ /\ Exceeds(s.num_keys_above_key_domain,
                              s.num_keys_at_last_right_domain_resize)
should_expand_left(s) ==
    ~root_is_leaf_ /\ Exceeds(s.num_keys_below_key_domain,
                              s.num_keys_at_last_left_domain_resize)

\* The criterion divides by the size at the last expansion, if it gets there.
DividesByZero(key) ==
    /\ ~root_is_leaf_
    /\ \/ /\ IsAbove(key)
          /\ Counted(key).num_keys_above_key_domain >= kMinOutOfDomainKeys
          /\ istats_.num_keys_at_last_right_domain_resize = 0
       \/ /\ IsBelow(key)
          /\ Counted(key).num_keys_below_key_domain >= kMinOutOfDomainKeys
          /\ istats_.num_keys_at_last_left_domain_resize = 0

-----------------------------------------------------------------------------
(* The new domain.                                                         *)

Wrapped(x) == kLowest + ((x - kLowest) % (kMax - kLowest + 1))
Half(x) == IF x >= 0 THEN x \div 2 ELSE -((-x) \div 2) \* towards zero
Larger(a, b) == IF a > b THEN a ELSE b
Smaller(a, b) == IF a < b THEN a ELSE b
CeilDiv(a, b) == (a + b - 1) \div b
pow_2_round_up(x) == CHOOSE p \in PowersOfTwo : x <= p /\ p < 2 * x /\ p % 2 = 0

domain_size == Wrapped(istats_.key_domain_max_ - istats_.key_domain_min_)

\* Fault: the domain is to reach the new key only.
DifferenceToKey(key, expand_left) ==
    IF expand_left THEN Wrapped(istats_.key_domain_min_ - key)
    ELSE Wrapped(key - istats_.key_domain_max_)

key_difference(key, expand_left) ==
    IF expand_left
    THEN Wrapped(istats_.key_domain_min_ - Smaller(key, get_min_key(entries)))
    ELSE Wrapped(Larger(key, get_max_key(entries)) - istats_.key_domain_max_)

\* How many domains make up the new one, before it is a power of two: a double
\* that has to become an int.
Quotient(key, expand_left) ==
    CeilDiv(key_difference(key, expand_left) + domain_size, domain_size)

FactorIsUndefined(key, expand_left) ==
    domain_size > 0 => Quotient(key, expand_left) > kMaxFactor

half_expanded_domain_size(key, expand_left) ==
    Wrapped((pow_2_round_up(Quotient(key, expand_left)) \div 2) * domain_size)

\* Fault: does not look whether the new bound is in the type.
RightBoundUnchecked(key) ==
    Wrapped(Wrapped(istats_.key_domain_min_ + half_expanded_domain_size(key, FALSE))
                + half_expanded_domain_size(key, FALSE))

\* The sum is computed in halves, and not at all if it would not be in the type.
RightBound(key) ==
    LET half == half_expanded_domain_size(key, FALSE)
    IN  IF Wrapped(Half(kMax) - Half(istats_.key_domain_min_)) < half THEN kMax
        ELSE Wrapped(Wrapped(istats_.key_domain_min_ + half) + half)

LeftBound(key) ==
    LET half == half_expanded_domain_size(key, TRUE)
    IN  IF Wrapped(Half(istats_.key_domain_max_) - Half(kLowest)) < half THEN kLowest
        ELSE Wrapped(Wrapped(istats_.key_domain_max_ - half) - half)

expand_root(s, key, expand_left) ==
    IF expand_left
    THEN [s EXCEPT !.key_domain_min_ = LeftBound(key),
                   !.num_keys_at_last_left_domain_resize = num_keys,
                   !.num_keys_below_key_domain = 0]
    ELSE [s EXCEPT !.key_domain_max_ = RightBound(key),
                   !.num_keys_at_last_right_domain_resize = num_keys,
                   !.num_keys_above_key_domain = 0]

-----------------------------------------------------------------------------
(* Calls.                                                                  *)

ExpandsRight(key) == IsAbove(key) /\ should_expand_right(Counted(key))
ExpandsLeft(key) == IsBelow(key) /\ should_expand_left(Counted(key))

\* istats_ after the beginning of an insert.
Expanded(key) ==
    IF ExpandsRight(key) THEN expand_root(Counted(key), key, FALSE)
    ELSE IF ExpandsLeft(key) THEN expand_root(Counted(key), key, TRUE)
    ELSE Counted(key)

TurnedAway(key) == ~allow_duplicates /\ EntriesOf(key) # {}

\* The tree takes the key, or turns it away.  When a root leaf declines it
\* first, the domain is renewed, without the key, and the leaf retrained (not
\* when it is empty) or split.
Taken(key) ==
    /\ IF TurnedAway(key)
       THEN /\ Larger(istats_.num_keys_above_key_domain,
                      istats_.num_keys_below_key_domain) < MaxCounted
            /\ UNCHANGED entries
       ELSE \E copy \in Copy :
                /\ <<key, copy>> \notin entries
                /\ \A c \in Copy : c < copy => <<key, c>> \in entries
                /\ entries' = entries \cup {<<key, copy>>}
    /\ \/ /\ istats_' = Expanded(key)
          /\ UNCHANGED root_is_leaf_
       \/ /\ root_is_leaf_
          /\ istats_' = update_superroot_key_domain(entries)
          /\ root_is_leaf_' \in BOOLEAN
          /\ root_is_leaf_' => entries # {}

Insert(key) ==
    /\ fault = "none"
    /\ \/ /\ DividesByZero(key)
          /\ fault' = "division"
          /\ UNCHANGED <<entries, root_is_leaf_, istats_>>
       \/ /\ ~DividesByZero(key)
          /\ \/ ExpandsRight(key) /\ FactorIsUndefined(key, FALSE)
             \/ ExpandsLeft(key) /\ FactorIsUndefined(key, TRUE)
          /\ fault' = "expansion"
          /\ UNCHANGED <<entries, root_is_leaf_, istats_>>
       \/ /\ ~DividesByZero(key)
          /\ ExpandsRight(key) => ~FactorIsUndefined(key, FALSE)
          /\ ExpandsLeft(key) => ~FactorIsUndefined(key, TRUE)
          /\ Taken(key)
          /\ UNCHANGED fault
    /\ UNCHANGED allow_duplicates

\* Fault: one is subtracted, whether a key was erased or not.
DiscountedByOne(key, num_erased) ==
    IF IsAbove(key) THEN [istats_ EXCEPT !.num_keys_above_key_domain = @ - 1]
    ELSE IF IsBelow(key) THEN [istats_ EXCEPT !.num_keys_below_key_domain = @ - 1]
    ELSE istats_

Discounted(key, num_erased) ==
    IF IsAbove(key)
    THEN [istats_ EXCEPT !.num_keys_above_key_domain = @ - num_erased]
    ELSE IF IsBelow(key)
    THEN [istats_ EXCEPT !.num_keys_below_key_domain = @ - num_erased]
    ELSE istats_

\* A merge of an empty leaf may end with a root that is a leaf.
Erased(key, gone) ==
    /\ fault = "none"
    /\ entries' = entries \ gone
    /\ istats_' = Discounted(key, Cardinality(gone))
    /\ root_is_leaf_' \in {root_is_leaf_, TRUE}
    /\ UNCHANGED <<allow_duplicates, fault>>

\* erase_one of a key, and erase(Iterator).
EraseOne(key) ==
    IF EntriesOf(key) = {} THEN Erased(key, {})
    ELSE \E e \in EntriesOf(key) :
             /\ \A d \in EntriesOf(key) : d[2] <= e[2]
             /\ Erased(key, {e})

Erase(key) == Erased(key, EntriesOf(key))

\* An index that is empty again.  Its new root is a leaf: by the assertion in
\* update_superroot_key_domain, none but the first load builds more.
BulkLoad(load) ==
    /\ fault = "none"
    /\ entries = {} /\ load # {}
    /\ entries' = load \X {1}
    /\ root_is_leaf_' = TRUE
    /\ istats_' = update_superroot_key_domain(load \X {1})
    /\ UNCHANGED <<allow_duplicates, fault>>

\* clear(), as it is written (the constructor it calls has another signature):
\* the new root is a leaf; the domain and the counters stay as they are.
Clear ==
    /\ fault = "none"
    /\ istats_.num_keys_above_key_domain < MaxCounted
    /\ istats_.num_keys_below_key_domain < MaxCounted
    /\ entries' = {} /\ root_is_leaf_' = TRUE
    /\ UNCHANGED <<allow_duplicates, istats_, fault>>

Next ==
    \/ \E key \in Key : Insert(key) \/ EraseOne(key) \/ Erase(key)
    \/ Clear
    \/ \E load \in Load : BulkLoad(load)

Spec == Init /\ [][Next]_vars

-----------------------------------------------------------------------------
(* Properties.                                                             *)

Above == {e \in entries : IsAbove(e[1])}
Below == {e \in entries : IsBelow(e[1])}

\* Types; a counter may be one too low, no more.
TypeOK ==
    /\ allow_duplicates \in BOOLEAN
    /\ entries \in SUBSET Entry
    /\ root_is_leaf_ \in BOOLEAN
    /\ istats_ \in [key_domain_min_ : Type, key_domain_max_ : Type,
                    num_keys_above_key_domain : Nat \cup {-1},
                    num_keys_below_key_domain : Nat \cup {-1},
                    num_keys_at_last_right_domain_resize : Nat,
                    num_keys_at_last_left_domain_resize : Nat]
    /\ fault \in {"none", "division", "expansion"}

\* The counters never fall behind the keys outside the domain by more than the
\* one key that was inserted by the call that renewed the domain; and without
\* keys that are turned away they are never ahead in a root with children: a
\* cleared index has counters ahead, but renews its domain before it needs them.
CountersFollowKeysOutside ==
    /\ Cardinality(Above) <= istats_.num_keys_above_key_domain + 1
    /\ Cardinality(Below) <= istats_.num_keys_below_key_domain + 1
    /\ allow_duplicates /\ ~root_is_leaf_ =>
           /\ istats_.num_keys_above_key_domain <= Cardinality(Above)
           /\ istats_.num_keys_below_key_domain <= Cardinality(Below)

\* "After this many keys are outside the domain, a domain expansion must be
\* triggered" (kMaxOutOfDomainKeys): a root with children never has more on a
\* side.
KeysOutsideAreFew ==
    ~root_is_leaf_ /\ fault = "none" =>
        /\ Cardinality(Above) <= kMaxOutOfDomainKeys
        /\ Cardinality(Below) <= kMaxOutOfDomainKeys

\* In a multimap, no insert divides by zero or expands by more than an int can
\* say, unless the domain has no more than one key, or is too small a part of
\* the type.
NoFaultInProperDomain ==
    /\ allow_duplicates
    /\ (istats_.key_domain_max_ - istats_.key_domain_min_) * kMaxFactor > kMax - kLowest
    => fault = "none"

\* As long as the root has children, the domain never shrinks: the new bound
\* does not wrap around.
DomainOnlyGrows ==
    [][~root_is_leaf_ /\ ~root_is_leaf_' =>
           /\ istats_'.key_domain_min_ <= istats_.key_domain_min_
           /\ istats_.key_domain_max_ <= istats_'.key_domain_max_]_vars

\* An expansion takes in the keys that were outside on its side, and the new one.
ExpansionTakesAllIn ==
    [][~root_is_leaf_ /\ ~root_is_leaf_' =>
           /\ istats_'.key_domain_max_ # istats_.key_domain_max_ => Above' = {}
           /\ istats_'.key_domain_min_ # istats_.key_domain_min_ => Below' = {}]_vars
=============================================================================
