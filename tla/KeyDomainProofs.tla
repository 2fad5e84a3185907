-------------------------- MODULE KeyDomainProofs --------------------------
(***************************************************************************)
(* Theorems about KeyDomain, for every set of keys, every unsigned type    *)
(* and all parameters of the criterion: the counters follow the keys       *)
(* outside the domain, an expansion takes all keys in, and what undefined  *)
(* operations need.                                                        *)
(***************************************************************************)
EXTENDS KeyDomain, FiniteSetTheorems, TLAPS

\* An unsigned type is a range of natural numbers.
LEMMA TypeFacts == kLowest = 0 /\ kMax \in Nat /\ Type = 0 .. kMax /\ Type \subseteq Nat
BY TypeIsUnsigned DEF Type

\* There are finitely many keys, and so every index is finite.
LEMMA EntriesAreFinite ==
    ASSUME NEW E, E \in SUBSET Entry
    PROVE  IsFiniteSet(E) /\ Cardinality(E) \in Nat
<1>1. IsFiniteSet(0 .. kMax)
  BY TypeFacts, FS_Interval
<1>2. IsFiniteSet(Key)
  BY <1>1, TypeFacts, KeysAreOfTheType, FS_Subset
<1>3. IsFiniteSet(Entry)
  BY <1>2, KeysAreOfTheType, FS_Product DEF Entry
<1> QED
  BY <1>3, FS_Subset, FS_CardinalityType

\* The key of an entry is a key.
LEMMA EntryFacts ==
    ASSUME NEW e \in Entry
    PROVE  e[1] \in Key /\ e[1] \in Nat /\ e[1] <= kMax
<1>1. e[1] \in Key
  BY DEF Entry
<1>2. e[1] \in 0 .. kMax
  BY <1>1, TypeFacts, KeysAreOfTheType
<1> QED
  BY <1>1, <1>2, TypeFacts

\* Arithmetic modulo the size of the type.
LEMMA WrappedFacts ==
    ASSUME NEW x \in Int
    PROVE  Wrapped(x) \in Type /\ (x \in Type => Wrapped(x) = x)
<1>1. /\ kLowest = 0 /\ kMax \in Nat
  BY TypeFacts
<1>2. x % (kMax + 1) \in 0 .. kMax
  BY <1>1
<1>3. x \in 0 .. kMax => x % (kMax + 1) = x
  BY <1>1
<1> QED
  BY <1>1, <1>2, <1>3 DEF Wrapped, Type

\* The quotient rounded up.
LEMMA CeilDivFacts ==
    ASSUME NEW a \in Nat, NEW b \in Nat, b > 0
    PROVE  /\ CeilDiv(a, b) \in Nat
           /\ a <= CeilDiv(a, b) * b
           /\ (CeilDiv(a, b) - 1) * b < a
<1> DEFINE x == a + b - 1
           q == x \div b
<1>1. x \in Nat /\ b \in Nat \ {0}
  OBVIOUS
<1>2. q \in Nat /\ q * b <= x /\ x < q * b + b
  BY <1>1
<1>3. (q - 1) * b = q * b - b
  BY <1>2
<1> QED
  BY <1>2, <1>3 DEF CeilDiv

\* The least and the greatest key.
LEMMA LeastOfNaturals ==
    ASSUME NEW S \in SUBSET Nat, S # {}
    PROVE  \E m \in S : \A i \in S : m <= i
<1>1. PICK m \in S : \A i \in S : ~(<<i, m>> \in OpToRel(<, Nat))
  BY NatLessThanWellFounded, WFMin
<1>2. \A i \in S : m <= i
  <2> SUFFICES ASSUME NEW i \in S, i < m PROVE FALSE
    OBVIOUS
  <2>1. i \in Nat /\ m \in Nat
    OBVIOUS
  <2>2. <<i, m>> \in OpToRel(<, Nat)
    BY <2>1 DEF OpToRel
  <2> QED
    BY <1>1, <2>2
<1> QED
  BY <1>2

\* They bound the keys; without keys they are the ends of the type, swapped.
LEMMA LeastAndGreatestKey ==
    ASSUME NEW E, E \in SUBSET Entry
    PROVE  /\ get_min_key(E) \in Type /\ get_max_key(E) \in Type
           /\ \A e \in E : get_min_key(E) <= e[1] /\ e[1] <= get_max_key(E)
           /\ E # {} => get_min_key(E) <= get_max_key(E)
           /\ E = {} => get_min_key(E) = kMax /\ get_max_key(E) = 0
<1>1. CASE E = {}
  BY <1>1, TypeFacts DEF get_min_key, get_max_key
<1>2. CASE E # {}
  <2> DEFINE K == KeysOf(E)
             R == {kMax - k : k \in K}
  <2>1. K # {} /\ (\A k \in K : k \in Nat /\ k <= kMax) /\ \A e \in E : e[1] \in K
    BY <1>2, EntryFacts DEF KeysOf
  <2>2. \E m \in K : \A i \in K : m <= i
    <3>1. K \in SUBSET Nat
      BY <2>1
    <3> QED
      BY <2>1, <3>1, LeastOfNaturals
  <2>3. \E m \in K : \A i \in K : i <= m
    <3>1. R \in SUBSET Nat /\ R # {}
      BY <2>1, TypeFacts
    <3>2. PICK r \in R : \A i \in R : r <= i
      BY <3>1, LeastOfNaturals
    <3>3. PICK m \in K : r = kMax - m
      BY <3>2
    <3>4. \A i \in K : kMax - m <= kMax - i
      BY <3>2, <3>3
    <3> QED
      BY <2>1, <3>4, TypeFacts
  <2>4. get_min_key(E) \in K /\ \A i \in K : get_min_key(E) <= i
    BY <1>2, <2>2 DEF get_min_key
  <2>5. get_max_key(E) \in K /\ \A i \in K : i <= get_max_key(E)
    BY <1>2, <2>3 DEF get_max_key
  <2> QED
    BY <1>2, <2>1, <2>4, <2>5, TypeFacts
<1> QED
  BY <1>1, <1>2
-----------------------------------------------------------------------------
(* The new domain.                                                         *)

\* What the fields of istats_ are, in words of their own.
StatsTypeOK(s) ==
    s \in [key_domain_min_ : Type, key_domain_max_ : Type,
           num_keys_above_key_domain : Nat \cup {-1},
           num_keys_below_key_domain : Nat \cup {-1},
           num_keys_at_last_right_domain_resize : Nat,
           num_keys_at_last_left_domain_resize : Nat]

\* The factor is a power of two that is even and enough for the difference, and
\* half of the new domain is less than the whole difference and the old domain.
LEMMA FactorFacts ==
    ASSUME NEW D \in Nat, D > 0, NEW d \in Nat, d > 0,
           CeilDiv(d + D, D) <= kMaxFactor
    PROVE  \E half \in Nat :
               /\ half = (pow_2_round_up(CeilDiv(d + D, D)) \div 2) * D
               /\ half < d + D /\ d + D <= 2 * half /\ D <= half
<1> DEFINE q == CeilDiv(d + D, D)
           p == pow_2_round_up(q)
           h == p \div 2
<1>1. q \in Nat /\ d + D <= q * D /\ (q - 1) * D < d + D
  <2>1. d + D \in Nat
    OBVIOUS
  <2> QED
    BY <2>1, CeilDivFacts
<1>2. q >= 2
  <2> SUFFICES ASSUME q < 2 PROVE FALSE
    BY <1>1
  <2>1. q = 0 \/ q = 1
    BY <1>1
  <2>2. q * D = 0 \/ q * D = D
    BY <2>1
  <2> QED
    BY <1>1, <2>2
<1>3. p \in Nat /\ q <= p /\ p < 2 * q /\ p % 2 = 0
  <2>1. q \in 2 .. kMaxFactor
    BY <1>1, <1>2, FactorsHavePowersOfTwo
  <2>2. \E x \in PowersOfTwo : q <= x /\ x < 2 * q /\ x % 2 = 0
    BY <2>1, FactorsHavePowersOfTwo
  <2>3. p \in PowersOfTwo /\ q <= p /\ p < 2 * q /\ p % 2 = 0
    BY <2>2 DEF pow_2_round_up
  <2> QED
    BY <2>3, FactorsHavePowersOfTwo
<1>4. h \in Nat /\ p = 2 * h /\ h <= q - 1 /\ h >= 1
  BY <1>1, <1>2, <1>3
<1> HIDE DEF q, p, h
<1>5. q * D <= 2 * (h * D)
  <2>1. q <= 2 * h
    BY <1>3, <1>4
  <2>2. q * D <= (2 * h) * D
    BY <1>1, <1>4, <2>1
  <2>3. (2 * h) * D = 2 * (h * D)
    BY <1>4
  <2> QED
    BY <2>2, <2>3
<1>6. h * D <= (q - 1) * D
  BY <1>1, <1>4
<1>7. D <= h * D
  BY <1>4
<1>8. h * D \in Nat /\ q * D \in Nat /\ (q - 1) * D \in Int
  BY <1>1, <1>4
<1>9. h * D < d + D /\ d + D <= 2 * (h * D) /\ D <= h * D
  BY <1>1, <1>4, <1>5, <1>6, <1>7, <1>8
<1> QED
  BY <1>8, <1>9 DEF q, p, h

\* How large the new domain has to be, for what it is compared with.
LEMMA RightExpansion ==
    ASSUME entries \in SUBSET Entry, StatsTypeOK(istats_), NEW key \in Key,
           key > istats_.key_domain_max_,
           istats_.key_domain_min_ <= istats_.key_domain_max_,
           ~FactorIsUndefined(key, FALSE)
    PROVE  /\ RightBound(key) \in Type
           /\ key <= RightBound(key)
           /\ istats_.key_domain_max_ <= RightBound(key)
           /\ \A e \in entries : e[1] <= RightBound(key)
<1> DEFINE lo == istats_.key_domain_min_
           hi == istats_.key_domain_max_
           top == Larger(key, get_max_key(entries))
           d == top - hi
           D == hi - lo
           half == half_expanded_domain_size(key, FALSE)
<1>1. lo \in Nat /\ hi \in Nat /\ hi <= kMax /\ kMax \in Nat
  BY TypeFacts DEF StatsTypeOK
<1>2. top \in Nat /\ top <= kMax /\ key <= top /\ hi < top
  <2>1. key \in Nat /\ key <= kMax
    BY TypeFacts, KeysAreOfTheType
  <2>2. get_max_key(entries) \in Nat /\ get_max_key(entries) <= kMax
    BY LeastAndGreatestKey, TypeFacts
  <2> QED
    BY <1>1, <2>1, <2>2 DEF Larger
<1>3. \A e \in entries : e[1] <= top
  <2> SUFFICES ASSUME NEW e \in entries PROVE e[1] <= top
    OBVIOUS
  <2>1. e[1] \in Nat /\ key \in Nat
    BY EntryFacts, TypeFacts, KeysAreOfTheType
  <2>2. e[1] <= get_max_key(entries) /\ get_max_key(entries) \in Nat
    BY LeastAndGreatestKey, TypeFacts
  <2> QED
    BY <2>1, <2>2 DEF Larger
<1> HIDE DEF top
<1>4. domain_size = D /\ key_difference(key, FALSE) = d
  <2>1. D \in Type /\ d \in Type
    BY <1>1, <1>2, TypeFacts
  <2> QED
    BY <1>1, <1>2, <2>1, WrappedFacts DEF domain_size, key_difference, top
<1>5. D > 0 /\ D \in Nat /\ d > 0 /\ d \in Nat /\ CeilDiv(d + D, D) <= kMaxFactor
  <2>1. D \in Nat /\ d \in Nat /\ d > 0
    BY <1>1, <1>2
  <2>2. D > 0 /\ ~(Quotient(key, FALSE) > kMaxFactor)
    BY <1>4 DEF FactorIsUndefined
  <2>3. D > 0 /\ ~(CeilDiv(d + D, D) > kMaxFactor)
    BY <1>4, <2>2 DEF Quotient
  <2>4. CeilDiv(d + D, D) \in Nat
    <3>1. d + D \in Nat
      BY <2>1
    <3> QED
      BY <2>1, <2>2, <3>1, CeilDivFacts
  <2> QED
    BY <2>1, <2>3, <2>4, FactorsHavePowersOfTwo
<1> HIDE DEF d, D
<1>6. /\ half \in Nat
      /\ half < d + D /\ d + D <= 2 * half /\ D <= half
  <2>1. PICK h \in Nat :
            /\ h = (pow_2_round_up(CeilDiv(d + D, D)) \div 2) * D
            /\ h < d + D /\ d + D <= 2 * h /\ D <= h
    BY <1>5, FactorFacts
  <2>2. d + D <= kMax
    BY <1>1, <1>2 DEF d, D
  <2>3. h \in Type
    BY <1>5, <2>1, <2>2, TypeFacts
  <2>4. half = Wrapped(h)
    BY <1>4, <2>1 DEF half_expanded_domain_size, Quotient
  <2>5. Wrapped(h) = h
    BY <2>3, WrappedFacts
  <2> QED
    BY <2>1, <2>4, <2>5
<1> HIDE DEF half
<1>7. Wrapped(Half(kMax) - Half(lo)) = kMax \div 2 - lo \div 2
  <2>1. Half(kMax) = kMax \div 2 /\ Half(lo) = lo \div 2
    BY <1>1 DEF Half
  <2>2. kMax \div 2 - lo \div 2 \in Type
    BY <1>1, TypeFacts
  <2>3. Wrapped(kMax \div 2 - lo \div 2) = kMax \div 2 - lo \div 2
    <3>1. kMax \div 2 - lo \div 2 \in Int
      BY <1>1
    <3> QED
      BY <2>2, <3>1, WrappedFacts
  <2> QED
    BY <2>1, <2>3
<1>8. CASE kMax \div 2 - lo \div 2 < half
  <2>1. RightBound(key) = kMax
    BY <1>7, <1>8 DEF RightBound, half
  <2>2. \A e \in entries : e[1] <= kMax
    BY EntryFacts
  <2>3. key <= kMax
    BY TypeFacts, KeysAreOfTheType
  <2> QED
    BY <1>1, <2>1, <2>2, <2>3, TypeFacts
<1>9. CASE ~(kMax \div 2 - lo \div 2 < half)
  <2>1. lo + half + half <= kMax
    BY <1>1, <1>6, <1>9, TypeIsUnsigned
  <2>2. RightBound(key) = lo + half + half
    <3>1. RightBound(key) = Wrapped(Wrapped(lo + half) + half)
      BY <1>7, <1>9 DEF RightBound, half
    <3>2. lo + half \in Type /\ lo + half + half \in Type
      BY <1>1, <1>6, <2>1, TypeFacts
    <3>3. Wrapped(lo + half) = lo + half /\ Wrapped(lo + half + half) = lo + half + half
      BY <3>2, <1>1, <1>6, WrappedFacts
    <3> QED
      BY <3>1, <3>3
  <2>3. top <= lo + half + half
    BY <1>1, <1>2, <1>6 DEF d, D
  <2>4. RightBound(key) \in Type
    BY <1>1, <1>6, <2>1, <2>2, TypeFacts
  <2>5. key \in Nat /\ \A e \in entries : e[1] \in Nat
    BY EntryFacts, TypeFacts, KeysAreOfTheType
  <2> QED
    BY <1>1, <1>2, <1>3, <1>6, <2>2, <2>3, <2>4, <2>5
<1> QED
  BY <1>8, <1>9

\* The same to the left.
LEMMA LeftExpansion ==
    ASSUME entries \in SUBSET Entry, StatsTypeOK(istats_), NEW key \in Key,
           key < istats_.key_domain_min_,
           istats_.key_domain_min_ <= istats_.key_domain_max_,
           ~FactorIsUndefined(key, TRUE)
    PROVE  /\ LeftBound(key) \in Type
           /\ LeftBound(key) <= key
           /\ LeftBound(key) <= istats_.key_domain_min_
           /\ \A e \in entries : LeftBound(key) <= e[1]
<1> DEFINE lo == istats_.key_domain_min_
           hi == istats_.key_domain_max_
           bot == Smaller(key, get_min_key(entries))
           d == lo - bot
           D == hi - lo
           half == half_expanded_domain_size(key, TRUE)
<1>1. lo \in Nat /\ hi \in Nat /\ hi <= kMax /\ kMax \in Nat
  BY TypeFacts DEF StatsTypeOK
<1>2. bot \in Nat /\ bot <= key /\ bot < lo
  <2>1. key \in Nat /\ key <= kMax
    BY TypeFacts, KeysAreOfTheType
  <2>2. get_min_key(entries) \in Nat
    BY LeastAndGreatestKey, TypeFacts
  <2> QED
    BY <1>1, <2>1, <2>2 DEF Smaller
<1>3. \A e \in entries : bot <= e[1]
  <2> SUFFICES ASSUME NEW e \in entries PROVE bot <= e[1]
    OBVIOUS
  <2>1. e[1] \in Nat /\ key \in Nat
    BY EntryFacts, TypeFacts, KeysAreOfTheType
  <2>2. get_min_key(entries) <= e[1] /\ get_min_key(entries) \in Nat
    BY LeastAndGreatestKey, TypeFacts
  <2> QED
    BY <2>1, <2>2 DEF Smaller
<1> HIDE DEF bot
<1>4. domain_size = D /\ key_difference(key, TRUE) = d
  <2>1. D \in Type /\ d \in Type
    BY <1>1, <1>2, TypeFacts
  <2> QED
    BY <1>1, <1>2, <2>1, WrappedFacts DEF domain_size, key_difference, bot
<1>5. D > 0 /\ D \in Nat /\ d > 0 /\ d \in Nat /\ CeilDiv(d + D, D) <= kMaxFactor
  <2>1. D \in Nat /\ d \in Nat /\ d > 0
    BY <1>1, <1>2
  <2>2. D > 0 /\ ~(Quotient(key, TRUE) > kMaxFactor)
    BY <1>4 DEF FactorIsUndefined
  <2>3. D > 0 /\ ~(CeilDiv(d + D, D) > kMaxFactor)
    BY <1>4, <2>2 DEF Quotient
  <2>4. CeilDiv(d + D, D) \in Nat
    <3>1. d + D \in Nat
      BY <2>1
    <3> QED
      BY <2>1, <2>2, <3>1, CeilDivFacts
  <2> QED
    BY <2>1, <2>3, <2>4, FactorsHavePowersOfTwo
<1> HIDE DEF d, D
<1>6. /\ half \in Nat
      /\ half < d + D /\ d + D <= 2 * half /\ D <= half
  <2>1. PICK h \in Nat :
            /\ h = (pow_2_round_up(CeilDiv(d + D, D)) \div 2) * D
            /\ h < d + D /\ d + D <= 2 * h /\ D <= h
    BY <1>5, FactorFacts
  <2>2. d + D <= kMax
    BY <1>1, <1>2 DEF d, D
  <2>3. h \in Type
    BY <1>5, <2>1, <2>2, TypeFacts
  <2>4. half = Wrapped(h)
    BY <1>4, <2>1 DEF half_expanded_domain_size, Quotient
  <2>5. Wrapped(h) = h
    BY <2>3, WrappedFacts
  <2> QED
    BY <2>1, <2>4, <2>5
<1> HIDE DEF half
<1>7. Wrapped(Half(hi) - Half(kLowest)) = hi \div 2
  <2>1. Half(hi) = hi \div 2 /\ Half(kLowest) = 0
    BY <1>1, TypeFacts DEF Half
  <2>2. hi \div 2 \in Type
    BY <1>1, TypeFacts
  <2>3. Wrapped(hi \div 2) = hi \div 2
    <3>1. hi \div 2 \in Int
      BY <1>1
    <3> QED
      BY <2>2, <3>1, WrappedFacts
  <2> QED
    BY <1>1, <2>1, <2>3
<1>8. CASE hi \div 2 < half
  <2>1. LeftBound(key) = 0
    BY <1>7, <1>8, TypeFacts DEF LeftBound, half
  <2>2. \A e \in entries : 0 <= e[1]
    BY EntryFacts
  <2>3. 0 <= key
    BY TypeFacts, KeysAreOfTheType
  <2> QED
    BY <1>1, <2>1, <2>2, <2>3, TypeFacts
<1>9. CASE ~(hi \div 2 < half)
  <2>1. 0 <= hi - half - half
    BY <1>1, <1>6, <1>9
  <2>2. LeftBound(key) = hi - half - half
    <3>1. LeftBound(key) = Wrapped(Wrapped(hi - half) - half)
      BY <1>7, <1>9 DEF LeftBound, half
    <3>2. hi - half \in Type /\ hi - half - half \in Type
      BY <1>1, <1>6, <2>1, TypeFacts
    <3>3. Wrapped(hi - half) = hi - half /\ Wrapped(hi - half - half) = hi - half - half
      BY <3>2, <1>1, <1>6, WrappedFacts
    <3> QED
      BY <3>1, <3>3
  <2>3. hi - half - half <= bot
    BY <1>1, <1>2, <1>6 DEF d, D
  <2>4. LeftBound(key) \in Type
    BY <1>1, <1>6, <2>1, <2>2, TypeFacts
  <2>5. key \in Nat /\ \A e \in entries : e[1] \in Nat
    BY EntryFacts, TypeFacts, KeysAreOfTheType
  <2> QED
    BY <1>1, <1>2, <1>3, <1>6, <2>2, <2>3, <2>4, <2>5
<1> QED
  BY <1>8, <1>9

\* In a domain that is no less than one kMaxFactor-th of the type, the factor
\* is an int.
LEMMA FactorIsDefined ==
    ASSUME entries \in SUBSET Entry, StatsTypeOK(istats_), NEW key \in Key,
           (istats_.key_domain_max_ - istats_.key_domain_min_) * kMaxFactor
               > kMax - kLowest,
           istats_.key_domain_min_ <= istats_.key_domain_max_
    PROVE  /\ key > istats_.key_domain_max_ => ~FactorIsUndefined(key, FALSE)
           /\ key < istats_.key_domain_min_ => ~FactorIsUndefined(key, TRUE)
<1> DEFINE lo == istats_.key_domain_min_
           hi == istats_.key_domain_max_
           D == hi - lo
<1>1. lo \in Nat /\ hi \in Nat /\ hi <= kMax /\ kMax \in Nat /\ kMaxFactor \in Nat
  BY TypeFacts, FactorsHavePowersOfTwo DEF StatsTypeOK
<1>2. D \in Nat /\ D * kMaxFactor > kMax
  BY <1>1, TypeFacts
<1>3. D > 0
  <2> SUFFICES ASSUME D = 0 PROVE FALSE
    BY <1>2
  <2>1. D * kMaxFactor = 0
    BY <1>1
  <2> QED
    BY <1>1, <1>2, <2>1
<1>4. domain_size = D
  <2>1. D \in Type
    BY <1>1, <1>2, TypeFacts
  <2> QED
    BY <1>2, <2>1, WrappedFacts DEF domain_size
<1>5. ASSUME NEW d \in Nat, d + D <= kMax PROVE CeilDiv(d + D, D) <= kMaxFactor
  <2> DEFINE q == CeilDiv(d + D, D)
  <2>1. q \in Nat /\ (q - 1) * D < d + D
    <3>1. d + D \in Nat
      BY <1>2
    <3> QED
      BY <1>2, <1>3, <3>1, CeilDivFacts
  <2> HIDE DEF q
  <2> SUFFICES ASSUME q - 1 >= kMaxFactor PROVE FALSE
    BY <1>1, <2>1 DEF q
  <2>2. (q - 1) * D >= kMaxFactor * D
    BY <1>1, <1>2, <2>1
  <2>3. kMaxFactor * D = D * kMaxFactor
    BY <1>1, <1>2
  <2>4. (q - 1) * D \in Int /\ D * kMaxFactor \in Nat
    BY <1>1, <1>2, <2>1
  <2> QED
    BY <1>1, <1>2, <1>5, <2>1, <2>2, <2>3, <2>4
<1>6. key \in Nat /\ key <= kMax
  BY TypeFacts, KeysAreOfTheType
<1>7. ASSUME key > hi PROVE ~FactorIsUndefined(key, FALSE)
  <2> DEFINE top == Larger(key, get_max_key(entries))
  <2>1. top \in Nat /\ top <= kMax /\ hi < top
    BY <1>1, <1>6, <1>7, LeastAndGreatestKey, TypeFacts DEF Larger
  <2>2. key_difference(key, FALSE) = top - hi
    <3>1. top - hi \in Type
      BY <1>1, <2>1, TypeFacts
    <3> QED
      BY <1>1, <2>1, <3>1, WrappedFacts DEF key_difference
  <2> HIDE DEF top
  <2>3. CeilDiv((top - hi) + D, D) <= kMaxFactor
    <3>1. top - hi \in Nat /\ (top - hi) + D <= kMax
      BY <1>1, <2>1
    <3> QED
      BY <1>5, <3>1
  <2> HIDE DEF D
  <2>4. ~(CeilDiv((top - hi) + D, D) > kMaxFactor)
    <3>1. (top - hi) + D \in Nat
      BY <1>1, <1>2, <2>1
    <3>2. CeilDiv((top - hi) + D, D) \in Nat
      BY <1>2, <1>3, <3>1, CeilDivFacts
    <3> QED
      BY <1>1, <2>3, <3>2
  <2>5. Quotient(key, FALSE) = CeilDiv((top - hi) + D, D)
    BY <1>4, <2>2 DEF Quotient
  <2>6. domain_size > 0
    BY <1>2, <1>3, <1>4
  <2> QED
    BY <2>4, <2>5, <2>6, Zenon DEF FactorIsUndefined
<1>8. ASSUME key < lo PROVE ~FactorIsUndefined(key, TRUE)
  <2> DEFINE bot == Smaller(key, get_min_key(entries))
  <2>1. bot \in Nat /\ bot < lo
    BY <1>1, <1>6, <1>8, LeastAndGreatestKey, TypeFacts DEF Smaller
  <2>2. key_difference(key, TRUE) = lo - bot
    <3>1. lo - bot \in Type
      BY <1>1, <2>1, TypeFacts
    <3> QED
      BY <1>1, <2>1, <3>1, WrappedFacts DEF key_difference
  <2> HIDE DEF bot
  <2>3. CeilDiv((lo - bot) + D, D) <= kMaxFactor
    <3>1. lo - bot \in Nat /\ (lo - bot) + D <= kMax
      BY <1>1, <2>1
    <3> QED
      BY <1>5, <3>1
  <2> HIDE DEF D
  <2>4. ~(CeilDiv((lo - bot) + D, D) > kMaxFactor)
    <3>1. (lo - bot) + D \in Nat
      BY <1>1, <1>2, <2>1
    <3>2. CeilDiv((lo - bot) + D, D) \in Nat
      BY <1>2, <1>3, <3>1, CeilDivFacts
    <3> QED
      BY <1>1, <2>3, <3>2
  <2>5. Quotient(key, TRUE) = CeilDiv((lo - bot) + D, D)
    BY <1>4, <2>2 DEF Quotient
  <2>6. domain_size > 0
    BY <1>2, <1>3, <1>4
  <2> QED
    BY <2>4, <2>5, <2>6, Zenon DEF FactorIsUndefined
<1> QED
  BY <1>7, <1>8

-----------------------------------------------------------------------------
(* The keys outside the domain, and the counters.                          *)

AboveIn(E, s) == {e \in E : e[1] > s.key_domain_max_}
BelowIn(E, s) == {e \in E : ~(e[1] > s.key_domain_max_) /\ e[1] < s.key_domain_min_}

\* The counters of an index of the keys E, whose root is a leaf or not.
CountersFollow(E, s, leaf) ==
    /\ Cardinality(AboveIn(E, s)) <= s.num_keys_above_key_domain + 1
    /\ Cardinality(BelowIn(E, s)) <= s.num_keys_below_key_domain + 1
    /\ allow_duplicates /\ ~leaf =>
           /\ s.num_keys_above_key_domain <= Cardinality(AboveIn(E, s))
           /\ s.num_keys_below_key_domain <= Cardinality(BelowIn(E, s))

FewOutside(E, s, leaf) ==
    ~leaf => /\ Cardinality(AboveIn(E, s)) <= kMaxOutOfDomainKeys
             /\ Cardinality(BelowIn(E, s)) <= kMaxOutOfDomainKeys

\* A domain that has been renewed without keys divides by zero before it can be
\* expanded.
ProperDomain(s, leaf) ==
    ~leaf =>
        \/ /\ s.key_domain_min_ <= s.key_domain_max_
           /\ allow_duplicates =>
                  /\ s.num_keys_at_last_right_domain_resize > 0
                  /\ s.num_keys_at_last_left_domain_resize > 0
        \/ /\ s.key_domain_max_ < s.key_domain_min_
           /\ s.num_keys_at_last_right_domain_resize = 0
           /\ s.num_keys_at_last_left_domain_resize = 0

Sound(E, s, leaf) ==
    /\ E \in SUBSET Entry /\ leaf \in BOOLEAN /\ StatsTypeOK(s)
    /\ CountersFollow(E, s, leaf) /\ FewOutside(E, s, leaf) /\ ProperDomain(s, leaf)

\* A set of keys with one more, and without some that have the same key.
LEMMA OutsideSets ==
    ASSUME NEW E, E \in SUBSET Entry, NEW s, StatsTypeOK(s)
    PROVE  /\ IsFiniteSet(AboveIn(E, s)) /\ IsFiniteSet(BelowIn(E, s))
           /\ Cardinality(AboveIn(E, s)) \in Nat
           /\ Cardinality(BelowIn(E, s)) \in Nat
<1>1. AboveIn(E, s) \in SUBSET Entry /\ BelowIn(E, s) \in SUBSET Entry
  BY DEF AboveIn, BelowIn
<1> QED
  BY <1>1, EntriesAreFinite

\* One more entry adds one to the count on its side.
LEMMA OneMore ==
    ASSUME NEW E, E \in SUBSET Entry, NEW s, StatsTypeOK(s), NEW x \in Entry, x \notin E
    PROVE  /\ x[1] > s.key_domain_max_ =>
                  /\ Cardinality(AboveIn(E \cup {x}, s)) = Cardinality(AboveIn(E, s)) + 1
                  /\ Cardinality(BelowIn(E \cup {x}, s)) = Cardinality(BelowIn(E, s))
           /\ ~(x[1] > s.key_domain_max_) /\ x[1] < s.key_domain_min_ =>
                  /\ Cardinality(AboveIn(E \cup {x}, s)) = Cardinality(AboveIn(E, s))
                  /\ Cardinality(BelowIn(E \cup {x}, s)) = Cardinality(BelowIn(E, s)) + 1
           /\ ~(x[1] > s.key_domain_max_) /\ ~(x[1] < s.key_domain_min_) =>
                  /\ Cardinality(AboveIn(E \cup {x}, s)) = Cardinality(AboveIn(E, s))
                  /\ Cardinality(BelowIn(E \cup {x}, s)) = Cardinality(BelowIn(E, s))
<1>0. Cardinality(AboveIn(E, s)) \in Nat /\ Cardinality(BelowIn(E, s)) \in Nat
  BY OutsideSets
<1>1. CASE x[1] > s.key_domain_max_
  <2>1. /\ AboveIn(E \cup {x}, s) = AboveIn(E, s) \cup {x}
        /\ BelowIn(E \cup {x}, s) = BelowIn(E, s) /\ x \notin AboveIn(E, s)
    BY <1>1 DEF AboveIn, BelowIn
  <2>2. Cardinality(AboveIn(E, s) \cup {x}) = Cardinality(AboveIn(E, s)) + 1
    BY <2>1, OutsideSets, FS_AddElement
  <2> QED
    BY <1>0, <1>1, <2>1, <2>2
<1>2. CASE ~(x[1] > s.key_domain_max_) /\ x[1] < s.key_domain_min_
  <2>1. /\ BelowIn(E \cup {x}, s) = BelowIn(E, s) \cup {x}
        /\ AboveIn(E \cup {x}, s) = AboveIn(E, s) /\ x \notin BelowIn(E, s)
    BY <1>2 DEF AboveIn, BelowIn
  <2>2. Cardinality(BelowIn(E, s) \cup {x}) = Cardinality(BelowIn(E, s)) + 1
    BY <2>1, OutsideSets, FS_AddElement
  <2> QED
    BY <1>0, <1>2, <2>1, <2>2
<1>3. CASE ~(x[1] > s.key_domain_max_) /\ ~(x[1] < s.key_domain_min_)
  <2>1. /\ BelowIn(E \cup {x}, s) = BelowIn(E, s)
        /\ AboveIn(E \cup {x}, s) = AboveIn(E, s)
    BY <1>3 DEF AboveIn, BelowIn
  <2> QED
    BY <1>0, <1>3, <2>1
<1> QED
  BY <1>1, <1>2, <1>3

\* The size of a difference.
LEMMA WithoutSome ==
    ASSUME NEW S, IsFiniteSet(S), NEW gone, gone \in SUBSET S
    PROVE  Cardinality(S \ gone) = Cardinality(S) - Cardinality(gone)
<1>1. S \cap gone = gone
  OBVIOUS
<1>2. Cardinality(S \ gone) = Cardinality(S) - Cardinality(S \cap gone)
  BY FS_Difference
<1> QED
  BY <1>1, <1>2

-----------------------------------------------------------------------------
(* What each part of a call keeps.                                         *)

\* A domain renewed for the keys of the index, before one more is inserted.
LEMMA RenewalIsSound ==
    ASSUME NEW E, E \in SUBSET Entry, NEW leaf \in BOOLEAN
    PROVE  /\ Sound(E, update_superroot_key_domain(E), leaf)
           /\ \A x \in Entry : Sound(E \cup {x}, update_superroot_key_domain(E), leaf)
<1> DEFINE s == update_superroot_key_domain(E)
<1>1. Cardinality(E) \in Nat /\ IsFiniteSet(E)
  BY EntriesAreFinite
<1>2. StatsTypeOK(s)
  BY <1>1, LeastAndGreatestKey DEF update_superroot_key_domain, StatsTypeOK
<1>3. /\ s.key_domain_min_ = get_min_key(E) /\ s.key_domain_max_ = get_max_key(E)
      /\ s.num_keys_above_key_domain = 0 /\ s.num_keys_below_key_domain = 0
      /\ s.num_keys_at_last_right_domain_resize = Cardinality(E)
      /\ s.num_keys_at_last_left_domain_resize = Cardinality(E)
  BY DEF update_superroot_key_domain
<1> HIDE DEF s
<1>4. ProperDomain(s, leaf)
  <2>1. E = {} => Cardinality(E) = 0
    BY FS_EmptySet
  <2>2. E # {} => Cardinality(E) > 0
    BY <1>1, FS_EmptySet
  <2>3. kMax > 0
    BY TypeIsUnsigned
  <2> QED
    BY <1>1, <1>3, <2>1, <2>2, <2>3, LeastAndGreatestKey, TypeFacts DEF ProperDomain
<1>5. AboveIn(E, s) = {} /\ BelowIn(E, s) = {}
  <2>1. \A e \in E : e[1] \in Nat
    BY EntryFacts
  <2>2. \A e \in E : s.key_domain_min_ <= e[1] /\ e[1] <= s.key_domain_max_
    BY <1>3, LeastAndGreatestKey
  <2>3. s.key_domain_min_ \in Nat /\ s.key_domain_max_ \in Nat
    BY <1>2, TypeFacts DEF StatsTypeOK
  <2> QED
    BY <2>1, <2>2, <2>3 DEF AboveIn, BelowIn
<1>6. Cardinality(AboveIn(E, s)) = 0 /\ Cardinality(BelowIn(E, s)) = 0
  BY <1>5, FS_EmptySet
<1>7. kMaxOutOfDomainKeys \in Nat /\ kMaxOutOfDomainKeys >= 2
  BY CriterionNeedsTwoKeys
<1>8. Sound(E, s, leaf)
  <2>1. CountersFollow(E, s, leaf)
    BY <1>3, <1>6 DEF CountersFollow
  <2>2. FewOutside(E, s, leaf)
    BY <1>6, <1>7 DEF FewOutside
  <2> QED
    BY <1>2, <1>4, <2>1, <2>2 DEF Sound
<1>9. ASSUME NEW x \in Entry PROVE Sound(E \cup {x}, s, leaf)
  <2> DEFINE F == E \cup {x}
  <2>1. CASE x \in E
    <3>1. F = E
      BY <2>1
    <3> QED
      BY <1>8, <3>1
  <2>2. CASE x \notin E
    <3>1. /\ Cardinality(AboveIn(F, s)) \in {0, 1}
          /\ Cardinality(BelowIn(F, s)) \in {0, 1}
      <4>1. /\ Cardinality(AboveIn(F, s)) \in
                   {Cardinality(AboveIn(E, s)), Cardinality(AboveIn(E, s)) + 1}
            /\ Cardinality(BelowIn(F, s)) \in
                   {Cardinality(BelowIn(E, s)), Cardinality(BelowIn(E, s)) + 1}
        BY <1>2, <2>2, OneMore
      <4> QED
        BY <1>6, <4>1
    <3>2. F \in SUBSET Entry
      OBVIOUS
    <3> HIDE DEF F
    <3>3. CountersFollow(F, s, leaf)
      BY <1>3, <3>1 DEF CountersFollow
    <3>4. FewOutside(F, s, leaf)
      BY <1>7, <3>1 DEF FewOutside
    <3>5. Sound(F, s, leaf)
      BY <1>2, <1>4, <3>2, <3>3, <3>4 DEF Sound
    <3> QED
      BY <3>5 DEF F
  <2> QED
    BY <2>1, <2>2
<1> QED
  BY <1>8, <1>9 DEF s

\* An erasure discounts the keys it finds; a root may become a leaf.
LEMMA ErasureIsSound ==
    ASSUME Sound(entries, istats_, root_is_leaf_), NEW key \in Key,
           NEW gone, gone \in SUBSET entries, \A e \in gone : e[1] = key,
           NEW leaf, leaf = root_is_leaf_ \/ leaf = TRUE
    PROVE  Sound(entries \ gone, Discounted(key, Cardinality(gone)), leaf)
<1> DEFINE s == istats_
           n == Cardinality(gone)
           t == Discounted(key, n)
           F == entries \ gone
           a == Cardinality(AboveIn(entries, s))
           b == Cardinality(BelowIn(entries, s))
<1>1. /\ entries \in SUBSET Entry /\ StatsTypeOK(s) /\ leaf \in BOOLEAN
      /\ CountersFollow(entries, s, leaf) /\ FewOutside(entries, s, leaf)
      /\ ProperDomain(s, leaf) /\ F \in SUBSET Entry
  BY DEF Sound, CountersFollow, FewOutside, ProperDomain
<1>2. n \in Nat /\ a \in Nat /\ b \in Nat
  <2>1. gone \in SUBSET Entry
    BY <1>1
  <2> QED
    BY <1>1, <2>1, EntriesAreFinite, OutsideSets
<1>3. /\ s.num_keys_above_key_domain \in Int /\ s.num_keys_below_key_domain \in Int
      /\ kMaxOutOfDomainKeys \in Nat
  BY <1>1, CriterionNeedsTwoKeys DEF StatsTypeOK
<1>4. Cardinality(AboveIn(F, s)) \in Nat /\ Cardinality(BelowIn(F, s)) \in Nat
  BY <1>1, OutsideSets
<1>5. IsFiniteSet(AboveIn(entries, s)) /\ IsFiniteSet(BelowIn(entries, s))
  BY <1>1, OutsideSets
<1>6. CASE IsAbove(key)
  <2>1. t = [s EXCEPT !.num_keys_above_key_domain = @ - n]
    BY <1>6 DEF Discounted
  <2>2. Cardinality(AboveIn(F, s)) = a - n /\ Cardinality(BelowIn(F, s)) = b
    <3>1. key > s.key_domain_max_
      BY <1>6 DEF IsAbove
    <3>2. /\ AboveIn(F, s) = AboveIn(entries, s) \ gone
          /\ BelowIn(F, s) = BelowIn(entries, s) /\ gone \in SUBSET AboveIn(entries, s)
      BY <3>1 DEF AboveIn, BelowIn
    <3> QED
      BY <1>5, <3>2, WithoutSome
  <2>3. /\ AboveIn(F, t) = AboveIn(F, s) /\ BelowIn(F, t) = BelowIn(F, s)
        /\ t.num_keys_above_key_domain = s.num_keys_above_key_domain - n
        /\ t.num_keys_below_key_domain = s.num_keys_below_key_domain
    BY <1>1, <2>1 DEF AboveIn, BelowIn, StatsTypeOK
  <2>4. CountersFollow(F, t, leaf) /\ FewOutside(F, t, leaf)
    BY <1>1, <1>2, <1>3, <2>2, <2>3 DEF CountersFollow, FewOutside
  <2>5. StatsTypeOK(t)
    <3>1. s.num_keys_above_key_domain - n \in Nat \cup {-1}
      BY <1>2, <1>3, <1>4, <2>2, <2>3, <2>4 DEF CountersFollow
    <3> QED
      BY <1>1, <2>1, <3>1 DEF StatsTypeOK
  <2>6. ProperDomain(t, leaf)
    BY <1>1, <2>1 DEF ProperDomain, StatsTypeOK
  <2> QED
    BY <1>1, <2>4, <2>5, <2>6 DEF Sound
<1>7. CASE IsBelow(key)
  <2>1. t = [s EXCEPT !.num_keys_below_key_domain = @ - n]
    BY <1>7 DEF Discounted, IsBelow
  <2>2. Cardinality(AboveIn(F, s)) = a /\ Cardinality(BelowIn(F, s)) = b - n
    <3>1. ~(key > s.key_domain_max_) /\ key < s.key_domain_min_
      BY <1>7 DEF IsAbove, IsBelow
    <3>2. /\ AboveIn(F, s) = AboveIn(entries, s)
          /\ BelowIn(F, s) = BelowIn(entries, s) \ gone
          /\ gone \in SUBSET BelowIn(entries, s)
      BY <3>1 DEF AboveIn, BelowIn
    <3> QED
      BY <1>5, <3>2, WithoutSome
  <2>3. /\ AboveIn(F, t) = AboveIn(F, s) /\ BelowIn(F, t) = BelowIn(F, s)
        /\ t.num_keys_below_key_domain = s.num_keys_below_key_domain - n
        /\ t.num_keys_above_key_domain = s.num_keys_above_key_domain
    BY <1>1, <2>1 DEF AboveIn, BelowIn, StatsTypeOK
  <2>4. CountersFollow(F, t, leaf) /\ FewOutside(F, t, leaf)
    BY <1>1, <1>2, <1>3, <2>2, <2>3 DEF CountersFollow, FewOutside
  <2>5. StatsTypeOK(t)
    <3>1. s.num_keys_below_key_domain - n \in Nat \cup {-1}
      BY <1>2, <1>3, <1>4, <2>2, <2>3, <2>4 DEF CountersFollow
    <3> QED
      BY <1>1, <2>1, <3>1 DEF StatsTypeOK
  <2>6. ProperDomain(t, leaf)
    BY <1>1, <2>1 DEF ProperDomain, StatsTypeOK
  <2> QED
    BY <1>1, <2>4, <2>5, <2>6 DEF Sound
<1>8. CASE ~IsAbove(key) /\ ~IsBelow(key)
  <2>1. t = s
    BY <1>8 DEF Discounted
  <2>2. Cardinality(AboveIn(F, s)) = a /\ Cardinality(BelowIn(F, s)) = b
    <3>1. ~(key > s.key_domain_max_) /\ ~(key < s.key_domain_min_)
      BY <1>8 DEF IsAbove, IsBelow
    <3>2. AboveIn(F, s) = AboveIn(entries, s) /\ BelowIn(F, s) = BelowIn(entries, s)
      BY <3>1 DEF AboveIn, BelowIn
    <3> QED
      BY <3>2
  <2>3. CountersFollow(F, s, leaf) /\ FewOutside(F, s, leaf)
    BY <1>1, <2>2 DEF CountersFollow, FewOutside
  <2> QED
    BY <1>1, <2>1, <2>3 DEF Sound
<1> QED
  BY <1>6, <1>7, <1>8

\* Only enough keys outside expand the domain, and kMaxOutOfDomainKeys always do.
LEMMA ExceedsFacts ==
    ASSUME NEW count \in Int, NEW size
    PROVE  /\ Exceeds(count, size) => count >= kMinOutOfDomainKeys
           /\ ~Exceeds(count, size) => count < kMaxOutOfDomainKeys
BY CriterionNeedsTwoKeys DEF Exceeds

\* An insert that does not expand the domain: the key is counted, and taken or
\* turned away.
LEMMA CountingIsSound ==
    ASSUME Sound(entries, istats_, root_is_leaf_), NEW key \in Key,
           ~ExpandsRight(key), ~ExpandsLeft(key)
    PROVE  /\ ~allow_duplicates => Sound(entries, Counted(key), root_is_leaf_)
           /\ \A x \in Entry : x \notin entries /\ x[1] = key =>
                  Sound(entries \cup {x}, Counted(key), root_is_leaf_)
<1> DEFINE s == istats_
           t == Counted(key)
           F(x) == entries \cup {x}
           isNew(x) == x \in Entry /\ x \notin entries /\ x[1] = key
           leaf == root_is_leaf_
           a == Cardinality(AboveIn(entries, s))
           b == Cardinality(BelowIn(entries, s))
<1>1. /\ entries \in SUBSET Entry /\ StatsTypeOK(s) /\ leaf \in BOOLEAN
      /\ CountersFollow(entries, s, leaf) /\ FewOutside(entries, s, leaf)
      /\ ProperDomain(s, leaf)
  BY DEF Sound
<1>2. a \in Nat /\ b \in Nat
  BY <1>1, OutsideSets
<1>3. /\ s.num_keys_above_key_domain \in Nat \cup {-1}
      /\ s.num_keys_below_key_domain \in Nat \cup {-1}
      /\ kMaxOutOfDomainKeys \in Nat
  BY <1>1, CriterionNeedsTwoKeys DEF StatsTypeOK
<1>5. CASE IsAbove(key)
  <2>1. t = [s EXCEPT !.num_keys_above_key_domain = @ + 1]
    BY <1>5 DEF Counted
  <2>2. \A x : isNew(x) => /\ Cardinality(AboveIn(F(x), s)) = a + 1
                            /\ Cardinality(BelowIn(F(x), s)) = b
    BY <1>1, <1>5, OneMore DEF IsAbove
  <2>3. /\ \A G : AboveIn(G, t) = AboveIn(G, s) /\ BelowIn(G, t) = BelowIn(G, s)
        /\ t.num_keys_above_key_domain = s.num_keys_above_key_domain + 1
        /\ t.num_keys_below_key_domain = s.num_keys_below_key_domain
    BY <1>1, <2>1 DEF AboveIn, BelowIn, StatsTypeOK
  <2>4. ~leaf => t.num_keys_above_key_domain < kMaxOutOfDomainKeys
    <3>1. ~leaf => ~Exceeds(t.num_keys_above_key_domain,
                            t.num_keys_at_last_right_domain_resize)
      BY <1>5 DEF ExpandsRight, should_expand_right
    <3>2. t.num_keys_above_key_domain \in Int
      BY <1>3, <2>3
    <3> QED
      BY <3>1, <3>2, ExceedsFacts
  <2>5. \A x : isNew(x) => CountersFollow(F(x), t, leaf) /\ FewOutside(F(x), t, leaf)
    BY <1>1, <1>2, <1>3, <2>2, <2>3, <2>4 DEF CountersFollow, FewOutside
  <2>6. ~allow_duplicates => CountersFollow(entries, t, leaf) /\ FewOutside(entries, t, leaf)
    BY <1>1, <1>2, <1>3, <2>3 DEF CountersFollow, FewOutside
  <2>7. StatsTypeOK(t) /\ ProperDomain(t, leaf)
    BY <1>1, <1>3, <2>1 DEF StatsTypeOK, ProperDomain
  <2> QED
    BY <1>1, <2>5, <2>6, <2>7 DEF Sound
<1>6. CASE IsBelow(key)
  <2>1. t = [s EXCEPT !.num_keys_below_key_domain = @ + 1]
    BY <1>6 DEF Counted, IsBelow
  <2>2. \A x : isNew(x) => /\ Cardinality(AboveIn(F(x), s)) = a
                            /\ Cardinality(BelowIn(F(x), s)) = b + 1
    BY <1>1, <1>6, OneMore DEF IsAbove, IsBelow
  <2>3. /\ \A G : AboveIn(G, t) = AboveIn(G, s) /\ BelowIn(G, t) = BelowIn(G, s)
        /\ t.num_keys_below_key_domain = s.num_keys_below_key_domain + 1
        /\ t.num_keys_above_key_domain = s.num_keys_above_key_domain
    BY <1>1, <2>1 DEF AboveIn, BelowIn, StatsTypeOK
  <2>4. ~leaf => t.num_keys_below_key_domain < kMaxOutOfDomainKeys
    <3>1. ~leaf => ~Exceeds(t.num_keys_below_key_domain,
                            t.num_keys_at_last_left_domain_resize)
      BY <1>6 DEF ExpandsLeft, should_expand_left
    <3>2. t.num_keys_below_key_domain \in Int
      BY <1>3, <2>3
    <3> QED
      BY <3>1, <3>2, ExceedsFacts
  <2>5. \A x : isNew(x) => CountersFollow(F(x), t, leaf) /\ FewOutside(F(x), t, leaf)
    BY <1>1, <1>2, <1>3, <2>2, <2>3, <2>4 DEF CountersFollow, FewOutside
  <2>6. ~allow_duplicates => CountersFollow(entries, t, leaf) /\ FewOutside(entries, t, leaf)
    BY <1>1, <1>2, <1>3, <2>3 DEF CountersFollow, FewOutside
  <2>7. StatsTypeOK(t) /\ ProperDomain(t, leaf)
    BY <1>1, <1>3, <2>1 DEF StatsTypeOK, ProperDomain
  <2> QED
    BY <1>1, <2>5, <2>6, <2>7 DEF Sound
<1>7. CASE ~IsAbove(key) /\ ~IsBelow(key)
  <2>1. t = s
    BY <1>7 DEF Counted
  <2>2. \A x : isNew(x) => /\ Cardinality(AboveIn(F(x), s)) = a
                            /\ Cardinality(BelowIn(F(x), s)) = b
    BY <1>1, <1>7, OneMore DEF IsAbove, IsBelow
  <2>3. \A x : isNew(x) => CountersFollow(F(x), s, leaf) /\ FewOutside(F(x), s, leaf)
    BY <1>1, <2>2 DEF CountersFollow, FewOutside
  <2> QED
    BY <1>1, <2>1, <2>3 DEF Sound
<1> QED
  BY <1>5, <1>6, <1>7

\* What an expansion needs: a call that divides by zero does not get there.
LEMMA ExpansionNeeds ==
    ASSUME Sound(entries, istats_, root_is_leaf_), NEW key \in Key,
           ~DividesByZero(key)
    PROVE  /\ ExpandsRight(key) =>
                  /\ ~root_is_leaf_ /\ key > istats_.key_domain_max_
                  /\ istats_.key_domain_min_ <= istats_.key_domain_max_
                  /\ allow_duplicates => num_keys > 0
           /\ ExpandsLeft(key) =>
                  /\ ~root_is_leaf_ /\ key < istats_.key_domain_min_
                  /\ istats_.key_domain_min_ <= istats_.key_domain_max_
                  /\ allow_duplicates => num_keys > 0
<1> DEFINE s == istats_
<1>1. /\ entries \in SUBSET Entry /\ StatsTypeOK(s) /\ root_is_leaf_ \in BOOLEAN
      /\ CountersFollow(entries, s, root_is_leaf_) /\ ProperDomain(s, root_is_leaf_)
  BY DEF Sound
<1>2. /\ s.num_keys_above_key_domain \in Int /\ s.num_keys_below_key_domain \in Int
      /\ kMinOutOfDomainKeys \in Nat /\ kMinOutOfDomainKeys >= 2
  BY <1>1, CriterionNeedsTwoKeys DEF StatsTypeOK
<1>3. num_keys \in Nat
  BY <1>1, EntriesAreFinite DEF num_keys
<1>4. /\ Cardinality(AboveIn(entries, s)) <= num_keys
      /\ Cardinality(BelowIn(entries, s)) <= num_keys
  <2>1. AboveIn(entries, s) \in SUBSET entries /\ BelowIn(entries, s) \in SUBSET entries
    BY DEF AboveIn, BelowIn
  <2> QED
    BY <1>1, <2>1, EntriesAreFinite, FS_Subset DEF num_keys
<1>5. Cardinality(AboveIn(entries, s)) \in Nat /\ Cardinality(BelowIn(entries, s)) \in Nat
  BY <1>1, OutsideSets
<1>6. ASSUME ExpandsRight(key)
      PROVE  /\ ~root_is_leaf_ /\ key > s.key_domain_max_
             /\ s.key_domain_min_ <= s.key_domain_max_
             /\ allow_duplicates => num_keys > 0
  <2>1. /\ IsAbove(key) /\ ~root_is_leaf_
        /\ Exceeds(Counted(key).num_keys_above_key_domain,
                   Counted(key).num_keys_at_last_right_domain_resize)
    BY <1>6 DEF ExpandsRight, should_expand_right
  <2>2. Counted(key).num_keys_above_key_domain = s.num_keys_above_key_domain + 1
    BY <1>1, <2>1 DEF Counted, StatsTypeOK
  <2>3. s.num_keys_above_key_domain + 1 >= kMinOutOfDomainKeys
    <3>1. Counted(key).num_keys_above_key_domain \in Int
      BY <1>2, <2>2
    <3> QED
      BY <2>1, <2>2, <3>1, ExceedsFacts
  <2>4. ~(s.num_keys_at_last_right_domain_resize = 0)
    BY <2>1, <2>2, <2>3 DEF DividesByZero
  <2>5. s.key_domain_min_ <= s.key_domain_max_
    BY <1>1, <2>1, <2>4 DEF ProperDomain
  <2>6. allow_duplicates => num_keys > 0
    BY <1>1, <1>2, <1>3, <1>4, <1>5, <2>1, <2>3 DEF CountersFollow
  <2> QED
    BY <2>1, <2>5, <2>6 DEF IsAbove
<1>7. ASSUME ExpandsLeft(key)
      PROVE  /\ ~root_is_leaf_ /\ key < s.key_domain_min_
             /\ s.key_domain_min_ <= s.key_domain_max_
             /\ allow_duplicates => num_keys > 0
  <2>1. /\ IsBelow(key) /\ ~root_is_leaf_
        /\ Exceeds(Counted(key).num_keys_below_key_domain,
                   Counted(key).num_keys_at_last_left_domain_resize)
    BY <1>7 DEF ExpandsLeft, should_expand_left
  <2>2. Counted(key).num_keys_below_key_domain = s.num_keys_below_key_domain + 1
    BY <1>1, <2>1 DEF Counted, IsBelow, StatsTypeOK
  <2>3. s.num_keys_below_key_domain + 1 >= kMinOutOfDomainKeys
    <3>1. Counted(key).num_keys_below_key_domain \in Int
      BY <1>2, <2>2
    <3> QED
      BY <2>1, <2>2, <3>1, ExceedsFacts
  <2>4. ~(s.num_keys_at_last_left_domain_resize = 0)
    BY <2>1, <2>2, <2>3 DEF DividesByZero
  <2>5. s.key_domain_min_ <= s.key_domain_max_
    BY <1>1, <2>1, <2>4 DEF ProperDomain
  <2>6. allow_duplicates => num_keys > 0
    BY <1>1, <1>2, <1>3, <1>4, <1>5, <2>1, <2>3 DEF CountersFollow
  <2> QED
    BY <2>1, <2>5, <2>6 DEF IsBelow
<1> QED
  BY <1>6, <1>7

\* What an expansion sets, on the right and on the left.
LEMMA ExpandedStats ==
    ASSUME NEW s, StatsTypeOK(s), NEW bound \in Type, NEW size \in Nat
    PROVE  /\ StatsTypeOK([s EXCEPT !.key_domain_max_ = bound,
                                    !.num_keys_at_last_right_domain_resize = size,
                                    !.num_keys_above_key_domain = 0])
           /\ StatsTypeOK([s EXCEPT !.key_domain_min_ = bound,
                                    !.num_keys_at_last_left_domain_resize = size,
                                    !.num_keys_below_key_domain = 0])
<1>1. size \in Nat /\ 0 \in Nat \cup {-1}
  OBVIOUS
<1> QED
  BY <1>1, Zenon DEF StatsTypeOK

\* An insert that expands the domain.
LEMMA RightExpansionIsSound ==
    ASSUME Sound(entries, istats_, root_is_leaf_), NEW key \in Key,
           ~DividesByZero(key), ExpandsRight(key), ~FactorIsUndefined(key, FALSE),
           NEW F, F \in SUBSET Entry,
           entries \subseteq F, \A e \in F : e \in entries \/ e[1] = key,
           NEW t, t = expand_root(Counted(key), key, FALSE)
    PROVE  /\ t.key_domain_min_ = istats_.key_domain_min_
           /\ istats_.key_domain_max_ <= t.key_domain_max_
           /\ AboveIn(F, t) = {}
           /\ Sound(F, t, root_is_leaf_)
<1> DEFINE s == istats_
           r == RightBound(key)
<1>1. /\ entries \in SUBSET Entry /\ StatsTypeOK(s)
      /\ root_is_leaf_ \in BOOLEAN /\ ~root_is_leaf_
      /\ CountersFollow(entries, s, root_is_leaf_)
      /\ FewOutside(entries, s, root_is_leaf_) /\ ProperDomain(s, root_is_leaf_)
  BY ExpansionNeeds DEF Sound
<1>2. /\ key > s.key_domain_max_ /\ s.key_domain_min_ <= s.key_domain_max_
      /\ allow_duplicates => num_keys > 0
  BY ExpansionNeeds
<1>3. /\ r \in Type /\ key <= r
      /\ s.key_domain_max_ <= r
      /\ \A e \in entries : e[1] <= r
  BY <1>1, <1>2, RightExpansion
<1>4. IsAbove(key)
  BY <1>2 DEF IsAbove
<1>5. t = [s EXCEPT !.key_domain_max_ = r,
                    !.num_keys_at_last_right_domain_resize = num_keys,
                    !.num_keys_above_key_domain = 0]
  <2>1. Counted(key) = [s EXCEPT !.num_keys_above_key_domain = @ + 1]
    BY <1>4 DEF Counted
  <2>2. t = [Counted(key) EXCEPT !.key_domain_max_ = r,
                    !.num_keys_at_last_right_domain_resize = num_keys,
                    !.num_keys_above_key_domain = 0]
    BY DEF expand_root
  <2> QED
    BY <1>1, <2>1, <2>2 DEF StatsTypeOK
<1> HIDE DEF r
<1>6. num_keys \in Nat
  BY <1>1, EntriesAreFinite DEF num_keys
<1>7. /\ StatsTypeOK(t)
      /\ t.key_domain_min_ = s.key_domain_min_ /\ t.key_domain_max_ = r
      /\ t.num_keys_above_key_domain = 0
      /\ t.num_keys_below_key_domain = s.num_keys_below_key_domain
      /\ t.num_keys_at_last_right_domain_resize = num_keys
      /\ t.num_keys_at_last_left_domain_resize = s.num_keys_at_last_left_domain_resize
  <2>1. StatsTypeOK([s EXCEPT !.key_domain_max_ = r,
                              !.num_keys_at_last_right_domain_resize = num_keys,
                              !.num_keys_above_key_domain = 0])
    BY <1>1, <1>3, <1>6, ExpandedStats, Zenon
  <2>2. StatsTypeOK(t)
    BY <1>5, <2>1, Zenon
  <2> QED
    BY <1>1, <1>5, <2>2 DEF StatsTypeOK
<1>8. /\ s.key_domain_min_ \in Nat /\ s.key_domain_max_ \in Nat /\ r \in Nat
      /\ t.key_domain_min_ \in Nat /\ t.key_domain_max_ \in Nat
  BY <1>1, <1>3, <1>7, TypeFacts DEF StatsTypeOK
<1>9. \A e \in F : e[1] \in Nat /\ e[1] <= r
  BY <1>3, EntryFacts
<1>10. AboveIn(F, t) = {}
  <2>1. \A e \in F : ~(e[1] > r)
    BY <1>8, <1>9
  <2> QED
    BY <1>7, <2>1, Zenon DEF AboveIn
<1>11. \A e \in F : e[1] < s.key_domain_min_ => e \in entries /\ ~(e[1] > s.key_domain_max_)
  <2> SUFFICES ASSUME NEW e \in F, e[1] < s.key_domain_min_
               PROVE  e \in entries /\ ~(e[1] > s.key_domain_max_)
    OBVIOUS
  <2>1. e[1] \in Nat /\ key \in Nat
    BY <1>9, TypeFacts, KeysAreOfTheType
  <2> QED
    BY <1>2, <1>8, <2>1
<1>12. BelowIn(F, t) = BelowIn(entries, s)
  <2>1. \A e \in F : ~(e[1] > r)
    BY <1>8, <1>9
  <2> QED
    BY <1>7, <1>11, <2>1, Zenon DEF BelowIn
<1>13. /\ Cardinality(AboveIn(F, t)) = 0
       /\ Cardinality(BelowIn(F, t)) = Cardinality(BelowIn(entries, s))
       /\ Cardinality(BelowIn(entries, s)) \in Nat
  BY <1>1, <1>10, <1>12, OutsideSets, FS_EmptySet
<1>14. /\ s.num_keys_below_key_domain \in Int /\ kMaxOutOfDomainKeys \in Nat
       /\ s.num_keys_at_last_left_domain_resize \in Nat
  BY <1>1, CriterionNeedsTwoKeys DEF StatsTypeOK
<1>15. CountersFollow(F, t, root_is_leaf_)
  <2>1. /\ Cardinality(BelowIn(entries, s)) <= s.num_keys_below_key_domain + 1
        /\ allow_duplicates =>
               s.num_keys_below_key_domain <= Cardinality(BelowIn(entries, s))
    BY <1>1, Zenon DEF CountersFollow
  <2>2. /\ Cardinality(AboveIn(F, t)) <= t.num_keys_above_key_domain + 1
        /\ t.num_keys_above_key_domain <= Cardinality(AboveIn(F, t))
    <3>1. 0 <= 0 + 1 /\ 0 <= 0
      OBVIOUS
    <3> QED
      BY <1>7, <1>13, <3>1, Zenon
  <2>3. /\ Cardinality(BelowIn(F, t)) <= t.num_keys_below_key_domain + 1
        /\ allow_duplicates =>
               t.num_keys_below_key_domain <= Cardinality(BelowIn(F, t))
    BY <1>7, <1>13, <2>1
  <2> QED
    BY <2>2, <2>3, Zenon DEF CountersFollow
<1>16. FewOutside(F, t, root_is_leaf_)
  <2>1. Cardinality(BelowIn(entries, s)) <= kMaxOutOfDomainKeys
    BY <1>1, Zenon DEF FewOutside
  <2>2. /\ Cardinality(AboveIn(F, t)) <= kMaxOutOfDomainKeys
        /\ Cardinality(BelowIn(F, t)) <= kMaxOutOfDomainKeys
    <3>1. 0 <= kMaxOutOfDomainKeys
      BY <1>14
    <3> QED
      BY <1>13, <2>1, <3>1, Zenon
  <2> QED
    BY <2>2, Zenon DEF FewOutside
<1>17. ProperDomain(t, root_is_leaf_)
  <2>1. s.key_domain_min_ <= r
    BY <1>2, <1>3, <1>8
  <2>2. allow_duplicates => s.num_keys_at_last_left_domain_resize > 0
    BY <1>1, <1>2, <1>8 DEF ProperDomain
  <2> QED
    BY <1>2, <1>6, <1>7, <1>14, <2>1, <2>2 DEF ProperDomain
<1>18. Sound(F, t, root_is_leaf_)
  BY <1>1, <1>7, <1>15, <1>16, <1>17 DEF Sound
<1> QED
  BY <1>3, <1>7, <1>10, <1>18

\* The same to the left.
LEMMA LeftExpansionIsSound ==
    ASSUME Sound(entries, istats_, root_is_leaf_), NEW key \in Key,
           ~DividesByZero(key), ExpandsLeft(key), ~FactorIsUndefined(key, TRUE),
           NEW F, F \in SUBSET Entry,
           entries \subseteq F, \A e \in F : e \in entries \/ e[1] = key,
           NEW t, t = expand_root(Counted(key), key, TRUE)
    PROVE  /\ t.key_domain_max_ = istats_.key_domain_max_
           /\ t.key_domain_min_ <= istats_.key_domain_min_
           /\ BelowIn(F, t) = {}
           /\ Sound(F, t, root_is_leaf_)
<1> DEFINE s == istats_
           r == LeftBound(key)
<1>1. /\ entries \in SUBSET Entry /\ StatsTypeOK(s)
      /\ root_is_leaf_ \in BOOLEAN /\ ~root_is_leaf_
      /\ CountersFollow(entries, s, root_is_leaf_)
      /\ FewOutside(entries, s, root_is_leaf_) /\ ProperDomain(s, root_is_leaf_)
  BY ExpansionNeeds DEF Sound
<1>2. /\ key < s.key_domain_min_ /\ s.key_domain_min_ <= s.key_domain_max_
      /\ allow_duplicates => num_keys > 0
  BY ExpansionNeeds
<1>3. /\ r \in Type /\ r <= key
      /\ r <= s.key_domain_min_
      /\ \A e \in entries : r <= e[1]
  BY <1>1, <1>2, LeftExpansion
<1>4. IsBelow(key) /\ ~IsAbove(key)
  <2>1. ~(key > s.key_domain_max_)
    <3>1. key \in Nat /\ s.key_domain_min_ \in Nat /\ s.key_domain_max_ \in Nat
      BY <1>1, TypeFacts, KeysAreOfTheType DEF StatsTypeOK
    <3> QED
      BY <1>2, <3>1
  <2> QED
    BY <1>2, <2>1 DEF IsAbove, IsBelow
<1>5. t = [s EXCEPT !.key_domain_min_ = r,
                    !.num_keys_at_last_left_domain_resize = num_keys,
                    !.num_keys_below_key_domain = 0]
  <2>1. Counted(key) = [s EXCEPT !.num_keys_below_key_domain = @ + 1]
    BY <1>4 DEF Counted
  <2>2. t = [Counted(key) EXCEPT !.key_domain_min_ = r,
                    !.num_keys_at_last_left_domain_resize = num_keys,
                    !.num_keys_below_key_domain = 0]
    BY DEF expand_root
  <2> QED
    BY <1>1, <2>1, <2>2 DEF StatsTypeOK
<1> HIDE DEF r
<1>6. num_keys \in Nat
  BY <1>1, EntriesAreFinite DEF num_keys
<1>7. /\ StatsTypeOK(t)
      /\ t.key_domain_max_ = s.key_domain_max_ /\ t.key_domain_min_ = r
      /\ t.num_keys_below_key_domain = 0
      /\ t.num_keys_above_key_domain = s.num_keys_above_key_domain
      /\ t.num_keys_at_last_left_domain_resize = num_keys
      /\ t.num_keys_at_last_right_domain_resize = s.num_keys_at_last_right_domain_resize
  <2>1. StatsTypeOK([s EXCEPT !.key_domain_min_ = r,
                              !.num_keys_at_last_left_domain_resize = num_keys,
                              !.num_keys_below_key_domain = 0])
    BY <1>1, <1>3, <1>6, ExpandedStats, Zenon
  <2>2. StatsTypeOK(t)
    BY <1>5, <2>1, Zenon
  <2> QED
    BY <1>1, <1>5, <2>2 DEF StatsTypeOK
<1>8. /\ s.key_domain_min_ \in Nat /\ s.key_domain_max_ \in Nat /\ r \in Nat
      /\ t.key_domain_min_ \in Nat /\ t.key_domain_max_ \in Nat
  BY <1>1, <1>3, <1>7, TypeFacts DEF StatsTypeOK
<1>9. \A e \in F : e[1] \in Nat /\ r <= e[1]
  BY <1>3, EntryFacts
<1>10. BelowIn(F, t) = {}
  <2>1. \A e \in F : ~(e[1] < r)
    BY <1>8, <1>9
  <2> QED
    BY <1>7, <2>1, Zenon DEF BelowIn
<1>11. \A e \in F : e[1] > s.key_domain_max_ => e \in entries
  <2> SUFFICES ASSUME NEW e \in F, e[1] > s.key_domain_max_
               PROVE  e \in entries
    OBVIOUS
  <2>1. e[1] \in Nat /\ key \in Nat
    BY <1>9, TypeFacts, KeysAreOfTheType
  <2> QED
    BY <1>2, <1>8, <2>1
<1>12. AboveIn(F, t) = AboveIn(entries, s)
  BY <1>7, <1>11, Zenon DEF AboveIn
<1>13. /\ Cardinality(BelowIn(F, t)) = 0
       /\ Cardinality(AboveIn(F, t)) = Cardinality(AboveIn(entries, s))
       /\ Cardinality(AboveIn(entries, s)) \in Nat
  BY <1>1, <1>10, <1>12, OutsideSets, FS_EmptySet
<1>14. /\ s.num_keys_above_key_domain \in Int /\ kMaxOutOfDomainKeys \in Nat
       /\ s.num_keys_at_last_right_domain_resize \in Nat
  BY <1>1, CriterionNeedsTwoKeys DEF StatsTypeOK
<1>15. CountersFollow(F, t, root_is_leaf_)
  <2>1. /\ Cardinality(AboveIn(entries, s)) <= s.num_keys_above_key_domain + 1
        /\ allow_duplicates =>
               s.num_keys_above_key_domain <= Cardinality(AboveIn(entries, s))
    BY <1>1, Zenon DEF CountersFollow
  <2>2. /\ Cardinality(BelowIn(F, t)) <= t.num_keys_below_key_domain + 1
        /\ t.num_keys_below_key_domain <= Cardinality(BelowIn(F, t))
    <3>1. 0 <= 0 + 1 /\ 0 <= 0
      OBVIOUS
    <3> QED
      BY <1>7, <1>13, <3>1, Zenon
  <2>3. /\ Cardinality(AboveIn(F, t)) <= t.num_keys_above_key_domain + 1
        /\ allow_duplicates =>
               t.num_keys_above_key_domain <= Cardinality(AboveIn(F, t))
    BY <1>7, <1>13, <2>1
  <2> QED
    BY <2>2, <2>3, Zenon DEF CountersFollow
<1>16. FewOutside(F, t, root_is_leaf_)
  <2>1. Cardinality(AboveIn(entries, s)) <= kMaxOutOfDomainKeys
    BY <1>1, Zenon DEF FewOutside
  <2>2. /\ Cardinality(BelowIn(F, t)) <= kMaxOutOfDomainKeys
        /\ Cardinality(AboveIn(F, t)) <= kMaxOutOfDomainKeys
    <3>1. 0 <= kMaxOutOfDomainKeys
      BY <1>14
    <3> QED
      BY <1>13, <2>1, <3>1, Zenon
  <2> QED
    BY <2>2, Zenon DEF FewOutside
<1>17. ProperDomain(t, root_is_leaf_)
  <2>1. r <= s.key_domain_max_
    BY <1>2, <1>3, <1>8
  <2>2. allow_duplicates => s.num_keys_at_last_right_domain_resize > 0
    BY <1>1, <1>2, <1>8 DEF ProperDomain
  <2> QED
    BY <1>2, <1>6, <1>7, <1>14, <2>1, <2>2 DEF ProperDomain
<1>18. Sound(F, t, root_is_leaf_)
  BY <1>1, <1>7, <1>15, <1>16, <1>17 DEF Sound
<1> QED
  BY <1>3, <1>7, <1>10, <1>18

-----------------------------------------------------------------------------
(* The inductive invariant.                                                *)

IInv ==
    /\ allow_duplicates \in BOOLEAN
    /\ fault \in {"none", "division", "expansion"}
    /\ Sound(entries, istats_, root_is_leaf_)
    /\ NoFaultInProperDomain

\* A bulk load gives an index that satisfies the invariant.
LEMMA InitIsSound == Init => IInv
<1> SUFFICES ASSUME Init PROVE IInv
  OBVIOUS
<1>1. allow_duplicates \in BOOLEAN /\ fault = "none"
  BY DEF Init
<1>2. Sound(entries, istats_, root_is_leaf_)
  <2>1. CASE /\ entries = {} /\ root_is_leaf_ = TRUE
             /\ istats_ = [key_domain_min_ |-> kMax, key_domain_max_ |-> kLowest,
                           num_keys_above_key_domain |-> 0,
                           num_keys_below_key_domain |-> 0,
                           num_keys_at_last_right_domain_resize |-> 0,
                           num_keys_at_last_left_domain_resize |-> 0]
    <3>1. istats_ = update_superroot_key_domain({})
      BY <2>1, FS_EmptySet DEF update_superroot_key_domain, get_min_key, get_max_key
    <3>2. {} \in SUBSET Entry /\ root_is_leaf_ \in BOOLEAN
      BY <2>1
    <3> QED
      BY <2>1, <3>1, <3>2, RenewalIsSound, Zenon
  <2>2. ASSUME NEW load \in Load, entries = load \X {1}, root_is_leaf_ \in BOOLEAN,
               istats_ = update_superroot_key_domain(entries)
        PROVE  Sound(entries, istats_, root_is_leaf_)
    <3>1. entries \in SUBSET Entry
      BY <2>2, LoadsAreSetsOfKeys DEF Entry
    <3> QED
      BY <2>2, <3>1, RenewalIsSound
  <2> QED
    BY <2>1, <2>2 DEF Init
<1> QED
  BY <1>1, <1>2 DEF IInv, NoFaultInProperDomain

\* The calls that the process can die of do not do so in a proper domain.
LEMMA ProperDomainHasNoFault ==
    ASSUME IInv, NEW key \in Key, allow_duplicates,
           (istats_.key_domain_max_ - istats_.key_domain_min_) * kMaxFactor
               > kMax - kLowest
    PROVE  /\ ~DividesByZero(key)
           /\ ExpandsRight(key) => ~FactorIsUndefined(key, FALSE)
           /\ ExpandsLeft(key) => ~FactorIsUndefined(key, TRUE)
<1>1. /\ entries \in SUBSET Entry /\ StatsTypeOK(istats_)
      /\ ProperDomain(istats_, root_is_leaf_)
  BY DEF IInv, Sound
<1>2. istats_.key_domain_min_ <= istats_.key_domain_max_
  <2> DEFINE D == istats_.key_domain_max_ - istats_.key_domain_min_
  <2>1. /\ istats_.key_domain_min_ \in Nat /\ istats_.key_domain_max_ \in Nat
        /\ kMaxFactor \in Nat /\ kMax \in Nat /\ kLowest = 0
    BY <1>1, TypeFacts, FactorsHavePowersOfTwo DEF StatsTypeOK
  <2>2. D \in Int /\ D * kMaxFactor > kMax
    BY <2>1
  <2>3. D < 0 => D * kMaxFactor <= 0
    BY <2>1, <2>2
  <2>4. D >= 0
    <3>1. D * kMaxFactor \in Int
      BY <2>1, <2>2
    <3> QED
      BY <2>1, <2>2, <2>3, <3>1
  <2> QED
    BY <2>1, <2>4
<1>3. ~DividesByZero(key)
  <2>1. /\ istats_.num_keys_at_last_right_domain_resize \in Nat
        /\ istats_.num_keys_at_last_left_domain_resize \in Nat
        /\ istats_.key_domain_min_ \in Nat /\ istats_.key_domain_max_ \in Nat
    BY <1>1, TypeFacts DEF StatsTypeOK
  <2>2. ~root_is_leaf_ => /\ istats_.num_keys_at_last_right_domain_resize > 0
                          /\ istats_.num_keys_at_last_left_domain_resize > 0
    BY <1>1, <1>2, <2>1 DEF ProperDomain
  <2>3. ~root_is_leaf_ => /\ istats_.num_keys_at_last_right_domain_resize # 0
                          /\ istats_.num_keys_at_last_left_domain_resize # 0
    BY <2>1, <2>2
  <2> QED
    BY <2>3, Zenon DEF DividesByZero
<1>4. Sound(entries, istats_, root_is_leaf_)
  BY DEF IInv
<1> QED
  BY <1>1, <1>2, <1>3, <1>4, FactorIsDefined, ExpansionNeeds

\* The domain t of the keys E is the current one, or expanded for them.
Grown(E, t) ==
    /\ t.key_domain_min_ <= istats_.key_domain_min_
    /\ istats_.key_domain_max_ <= t.key_domain_max_
    /\ t.key_domain_max_ # istats_.key_domain_max_ => AboveIn(E, t) = {}
    /\ t.key_domain_min_ # istats_.key_domain_min_ => BelowIn(E, t) = {}

\* A domain that stays has grown,
LEMMA SameDomainIsGrown ==
    ASSUME StatsTypeOK(istats_), NEW t,
           t.key_domain_min_ = istats_.key_domain_min_,
           t.key_domain_max_ = istats_.key_domain_max_
    PROVE  \A E : Grown(E, t)
BY TypeFacts DEF StatsTypeOK, Grown

\* and one that takes in all the keys on the side where it moves;
LEMMA GrownOnOneSide ==
    ASSUME StatsTypeOK(istats_), NEW E, NEW t
    PROVE  /\ /\ t.key_domain_min_ = istats_.key_domain_min_
              /\ istats_.key_domain_max_ <= t.key_domain_max_ /\ AboveIn(E, t) = {}
              => Grown(E, t)
           /\ /\ t.key_domain_max_ = istats_.key_domain_max_
              /\ t.key_domain_min_ <= istats_.key_domain_min_ /\ BelowIn(E, t) = {}
              => Grown(E, t)
BY TypeFacts DEF StatsTypeOK, Grown

\* counting leaves the domain alone.
LEMMA CountingKeepsTheDomain ==
    ASSUME StatsTypeOK(istats_), NEW key, NEW n
    PROVE  /\ \A E : Grown(E, Counted(key))
           /\ \A E : Grown(E, Discounted(key, n))
<1>1. /\ Counted(key).key_domain_min_ = istats_.key_domain_min_
      /\ Counted(key).key_domain_max_ = istats_.key_domain_max_
  BY DEF Counted, StatsTypeOK
<1>2. /\ Discounted(key, n).key_domain_min_ = istats_.key_domain_min_
      /\ Discounted(key, n).key_domain_max_ = istats_.key_domain_max_
  BY DEF Discounted, StatsTypeOK
<1> QED
  BY <1>1, <1>2, SameDomainIsGrown, Zenon

\* A key that is taken, or turned away.
LEMMA TakenIsSound ==
    ASSUME IInv, NEW key \in Key, ~DividesByZero(key),
           ExpandsRight(key) => ~FactorIsUndefined(key, FALSE),
           ExpandsLeft(key) => ~FactorIsUndefined(key, TRUE),
           Taken(key), allow_duplicates' = allow_duplicates
    PROVE  /\ Sound(entries', istats_', root_is_leaf_')
           /\ ~root_is_leaf_ => Grown(entries', istats_')
<1>1. /\ Sound(entries, istats_, root_is_leaf_) /\ allow_duplicates \in BOOLEAN
      /\ entries \in SUBSET Entry /\ root_is_leaf_ \in BOOLEAN
      /\ StatsTypeOK(istats_)
  BY DEF IInv, Sound
<1>2. \/ entries' = entries /\ ~allow_duplicates
      \/ \E x \in Entry : x \notin entries /\ x[1] = key /\ entries' = entries \cup {x}
  <2>1. CASE TurnedAway(key)
    BY <2>1 DEF Taken, TurnedAway
  <2>2. CASE ~TurnedAway(key)
    <3>1. PICK copy \in Copy :
              <<key, copy>> \notin entries /\ entries' = entries \cup {<<key, copy>>}
      BY <2>2 DEF Taken
    <3>2. <<key, copy>> \in Entry /\ <<key, copy>>[1] = key
      BY DEF Entry
    <3> QED
      BY <3>1, <3>2
  <2> QED
    BY <2>1, <2>2
<1>3. /\ entries' \in SUBSET Entry /\ entries \subseteq entries'
      /\ \A e \in entries' : e \in entries \/ e[1] = key
  BY <1>1, <1>2
<1>4. CASE istats_' = Expanded(key) /\ root_is_leaf_' = root_is_leaf_
  <2>1. Sound(entries', istats_', root_is_leaf_) /\ Grown(entries', istats_')
    <3>1. CASE ExpandsRight(key)
      <4>1. istats_' = expand_root(Counted(key), key, FALSE)
        BY <1>4, <3>1 DEF Expanded
      <4> QED
        BY <1>1, <1>3, <3>1, <4>1, RightExpansionIsSound, GrownOnOneSide
    <3>2. CASE ExpandsLeft(key)
      <4>1. istats_' = expand_root(Counted(key), key, TRUE)
        BY <1>4, <3>2 DEF Expanded, ExpandsRight, ExpandsLeft, IsBelow
      <4> QED
        BY <1>1, <1>3, <3>2, <4>1, LeftExpansionIsSound, GrownOnOneSide
    <3>3. CASE ~ExpandsRight(key) /\ ~ExpandsLeft(key)
      <4>1. istats_' = Counted(key)
        BY <1>4, <3>3 DEF Expanded
      <4>2. CASE entries' = entries /\ ~allow_duplicates
        BY <1>1, <3>3, <4>1, <4>2, CountingIsSound, CountingKeepsTheDomain
      <4>3. CASE \E x \in Entry :
                     x \notin entries /\ x[1] = key /\ entries' = entries \cup {x}
        <5>1. PICK x \in Entry :
                  x \notin entries /\ x[1] = key /\ entries' = entries \cup {x}
          BY <4>3
        <5> QED
          BY <1>1, <3>3, <4>1, <5>1, CountingIsSound, CountingKeepsTheDomain
      <4> QED
        BY <1>2, <4>2, <4>3
    <3> QED
      BY <3>1, <3>2, <3>3
  <2> QED
    BY <1>4, <2>1
<1>5. CASE /\ istats_' = update_superroot_key_domain(entries)
           /\ root_is_leaf_' \in BOOLEAN /\ root_is_leaf_
  BY <1>1, <1>2, <1>5, RenewalIsSound
<1> QED
  BY <1>4, <1>5 DEF Taken

\* What every step does.
LEMMA StepIsSound ==
    ASSUME IInv, [Next]_vars
    PROVE  /\ allow_duplicates' = allow_duplicates
           /\ Sound(entries', istats_', root_is_leaf_')
           /\ ~root_is_leaf_ /\ ~root_is_leaf_' => Grown(entries', istats_')
           /\ fault' = fault
              \/ /\ fault' \in {"division", "expansion"} /\ istats_' = istats_
                 /\ ~(/\ allow_duplicates
                      /\ (istats_.key_domain_max_ - istats_.key_domain_min_) * kMaxFactor
                             > kMax - kLowest)
<1>1. /\ Sound(entries, istats_, root_is_leaf_) /\ StatsTypeOK(istats_)
      /\ entries \in SUBSET Entry /\ root_is_leaf_ \in BOOLEAN
  BY DEF IInv, Sound
<1>2. \A E : Grown(E, istats_)
  BY <1>1, SameDomainIsGrown
<1>3. CASE UNCHANGED vars
  BY <1>1, <1>2, <1>3 DEF vars
<1>4. ASSUME NEW key \in Key, Insert(key)
      PROVE  /\ allow_duplicates' = allow_duplicates
             /\ Sound(entries', istats_', root_is_leaf_')
             /\ ~root_is_leaf_ /\ ~root_is_leaf_' => Grown(entries', istats_')
             /\ fault' = fault
                \/ /\ fault' \in {"division", "expansion"} /\ istats_' = istats_
                   /\ ~(/\ allow_duplicates
                        /\ (istats_.key_domain_max_ - istats_.key_domain_min_) * kMaxFactor
                               > kMax - kLowest)
  <2>1. CASE /\ DividesByZero(key) /\ fault' = "division"
             /\ UNCHANGED <<entries, root_is_leaf_, istats_, allow_duplicates>>
    BY <1>1, <1>2, <2>1, ProperDomainHasNoFault
  <2>2. CASE /\ \/ ExpandsRight(key) /\ FactorIsUndefined(key, FALSE)
                \/ ExpandsLeft(key) /\ FactorIsUndefined(key, TRUE)
             /\ fault' = "expansion"
             /\ UNCHANGED <<entries, root_is_leaf_, istats_, allow_duplicates>>
    BY <1>1, <1>2, <2>2, ProperDomainHasNoFault
  <2>3. CASE /\ ~DividesByZero(key)
             /\ ExpandsRight(key) => ~FactorIsUndefined(key, FALSE)
             /\ ExpandsLeft(key) => ~FactorIsUndefined(key, TRUE)
             /\ Taken(key)
             /\ UNCHANGED <<fault, allow_duplicates>>
    BY <2>3, TakenIsSound
  <2> QED
    BY <1>4, <2>1, <2>2, <2>3 DEF Insert
<1>5. ASSUME NEW key \in Key, NEW gone, gone \in SUBSET entries,
             \A e \in gone : e[1] = key, Erased(key, gone)
      PROVE  /\ allow_duplicates' = allow_duplicates /\ fault' = fault
             /\ Sound(entries', istats_', root_is_leaf_')
             /\ Grown(entries', istats_')
  <2>1. /\ entries' = entries \ gone
        /\ istats_' = Discounted(key, Cardinality(gone))
        /\ root_is_leaf_' = root_is_leaf_ \/ root_is_leaf_' = TRUE
        /\ UNCHANGED <<allow_duplicates, fault>>
    BY <1>5 DEF Erased
  <2> QED
    BY <1>1, <1>5, <2>1, ErasureIsSound, CountingKeepsTheDomain
<1>6. ASSUME NEW key \in Key, EraseOne(key) \/ Erase(key)
      PROVE  \E gone \in SUBSET entries :
                 (\A e \in gone : e[1] = key) /\ Erased(key, gone)
  <2>1. EntriesOf(key) \in SUBSET entries /\ \A e \in EntriesOf(key) : e[1] = key
    BY DEF EntriesOf
  <2>2. CASE EraseOne(key) /\ EntriesOf(key) = {}
    BY <2>2 DEF EraseOne
  <2>3. CASE EraseOne(key) /\ EntriesOf(key) # {}
    <3>1. PICK e \in EntriesOf(key) : Erased(key, {e})
      BY <2>3 DEF EraseOne
    <3>2. {e} \in SUBSET entries /\ \A d \in {e} : d[1] = key
      BY <2>1
    <3> QED
      BY <3>1, <3>2
  <2>4. CASE Erase(key)
    BY <2>1, <2>4 DEF Erase
  <2> QED
    BY <1>6, <2>2, <2>3, <2>4
<1>7. ASSUME Clear
      PROVE  /\ allow_duplicates' = allow_duplicates /\ fault' = fault /\ root_is_leaf_'
             /\ Sound(entries', istats_', root_is_leaf_')
  <2>1. /\ entries' = {} /\ root_is_leaf_' = TRUE
        /\ UNCHANGED <<allow_duplicates, istats_, fault>>
    BY <1>7 DEF Clear
  <2>2. AboveIn({}, istats_) = {} /\ BelowIn({}, istats_) = {}
    BY DEF AboveIn, BelowIn
  <2>3. Cardinality(AboveIn({}, istats_)) = 0 /\ Cardinality(BelowIn({}, istats_)) = 0
    BY <2>2, FS_EmptySet
  <2>4. /\ 0 <= istats_.num_keys_above_key_domain + 1
        /\ 0 <= istats_.num_keys_below_key_domain + 1
    BY <1>1 DEF StatsTypeOK
  <2>5. CountersFollow({}, istats_, TRUE)
    BY <2>3, <2>4, Zenon DEF CountersFollow
  <2>6. FewOutside({}, istats_, TRUE) /\ ProperDomain(istats_, TRUE)
    BY DEF FewOutside, ProperDomain
  <2>7. Sound({}, istats_, TRUE)
    BY <1>1, <2>5, <2>6 DEF Sound
  <2> QED
    BY <2>1, <2>7
<1>8. ASSUME NEW load \in Load, BulkLoad(load)
      PROVE  /\ allow_duplicates' = allow_duplicates /\ fault' = fault /\ root_is_leaf_'
             /\ Sound(entries', istats_', root_is_leaf_')
  <2>1. /\ entries' = load \X {1} /\ root_is_leaf_' = TRUE
        /\ istats_' = update_superroot_key_domain(load \X {1})
        /\ UNCHANGED <<allow_duplicates, fault>>
    BY <1>8 DEF BulkLoad
  <2>2. load \X {1} \in SUBSET Entry
    BY LoadsAreSetsOfKeys DEF Entry
  <2> QED
    BY <2>1, <2>2, RenewalIsSound
<1> QED
  BY <1>3, <1>4, <1>5, <1>6, <1>7, <1>8 DEF Next

\* Every call keeps the invariant.
LEMMA NextKeepsIInv == IInv /\ [Next]_vars => IInv'
<1> SUFFICES ASSUME IInv, [Next]_vars PROVE IInv'
  OBVIOUS
<1>1. /\ allow_duplicates' = allow_duplicates
      /\ Sound(entries', istats_', root_is_leaf_')
  BY StepIsSound
<1>2. (allow_duplicates \in BOOLEAN)' /\ (fault \in {"none", "division", "expansion"})'
  BY StepIsSound DEF IInv
<1>3. Sound(entries, istats_, root_is_leaf_)'
  BY <1>1, Zenon DEF Sound, CountersFollow, FewOutside, ProperDomain, StatsTypeOK,
     AboveIn, BelowIn
<1>4. NoFaultInProperDomain'
  <2>1. CASE fault # "none"
    <3>1. UNCHANGED vars
      BY <2>1, Zenon DEF Next, Insert, EraseOne, Erase, Erased, Clear, BulkLoad
    <3>2. allow_duplicates' = allow_duplicates /\ istats_' = istats_ /\ fault' = fault
      BY <3>1 DEF vars
    <3> QED
      BY <3>2, Zenon DEF IInv, NoFaultInProperDomain
  <2>2. CASE fault = "none"
    BY <1>1, <2>2, StepIsSound, Zenon DEF NoFaultInProperDomain
  <2> QED
    BY <2>1, <2>2
<1> QED
  BY <1>2, <1>3, <1>4 DEF IInv

\* IInv is an invariant.
LEMMA IInvIsInvariant == Spec => []IInv
<1>1. Init => IInv
  BY InitIsSound
<1>2. IInv /\ [Next]_vars => IInv'
  BY NextKeepsIInv
<1> QED
  BY <1>1, <1>2, PTL DEF Spec

-----------------------------------------------------------------------------
(* What follows from it.                                                   *)

\* The state has the types that TypeOK gives it; above all, no counter ever falls
\* below -1 (erase and erase_one, alex.h 2119-2216, subtract from them).
THEOREM TypesAreKept == Spec => []TypeOK
<1>1. IInv => TypeOK
  BY DEF IInv, Sound, StatsTypeOK, TypeOK
<1> QED
  BY <1>1, IInvIsInvariant, PTL

\* The counters of the keys outside the domain fall behind them by no more than
\* one, and are never ahead of them in a root of a multimap that has children:
\* what insert (alex.h 1147-1167) and erase count.
THEOREM CountersFollowAlways == Spec => []CountersFollowKeysOutside
<1>1. IInv => CountersFollowKeysOutside
  <2>1. Above = AboveIn(entries, istats_) /\ Below = BelowIn(entries, istats_)
    BY DEF Above, Below, AboveIn, BelowIn, IsAbove, IsBelow
  <2> QED
    BY <2>1, Zenon DEF IInv, Sound, CountersFollow, CountersFollowKeysOutside
<1> QED
  BY <1>1, IInvIsInvariant, PTL

\* "After this many keys are outside the domain, a domain expansion must be
\* triggered" (alex.h 196-197): should_expand_right and should_expand_left
\* (alex.h 1284-1316) are asked often enough for that.
THEOREM KeysOutsideStayFew == Spec => []KeysOutsideAreFew
<1>1. IInv => KeysOutsideAreFew
  <2>1. Above = AboveIn(entries, istats_) /\ Below = BelowIn(entries, istats_)
    BY DEF Above, Below, AboveIn, BelowIn, IsAbove, IsBelow
  <2> QED
    BY <2>1, Zenon DEF IInv, Sound, FewOutside, KeysOutsideAreFew
<1> QED
  BY <1>1, IInvIsInvariant, PTL

\* A multimap whose domain is a proper part of the key type neither divides by
\* zero in should_expand_right or should_expand_left, nor makes an int in
\* expand_root of a double that is too great for it.
THEOREM NoFaultEver == Spec => []NoFaultInProperDomain
<1>1. IInv => NoFaultInProperDomain
  BY DEF IInv
<1> QED
  BY <1>1, IInvIsInvariant, PTL

\* expand_root (alex.h 1362-1393) never makes the domain smaller: its arithmetic
\* in halves does not wrap around, whatever the width of the type.
THEOREM DomainGrows == Spec => DomainOnlyGrows
<1>1. IInv /\ [Next]_vars =>
          [~root_is_leaf_ /\ ~root_is_leaf_' =>
               /\ istats_'.key_domain_min_ <= istats_.key_domain_min_
               /\ istats_.key_domain_max_ <= istats_'.key_domain_max_]_vars
  BY StepIsSound, Zenon DEF Grown
<1> QED
  BY <1>1, IInvIsInvariant, PTL DEF Spec, DomainOnlyGrows

\* The domain that expand_root chooses has every key of the index in it, and the
\* one that is inserted, on the side it was expanded on.
THEOREM ExpansionTakesAll == Spec => ExpansionTakesAllIn
<1>1. IInv /\ [Next]_vars =>
          [~root_is_leaf_ /\ ~root_is_leaf_' =>
               /\ istats_'.key_domain_max_ # istats_.key_domain_max_ => Above' = {}
               /\ istats_'.key_domain_min_ # istats_.key_domain_min_ => Below' = {}]_vars
  <2>1. /\ Above' = AboveIn(entries', istats_')
        /\ Below' = BelowIn(entries', istats_')
    BY DEF Above, Below, AboveIn, BelowIn, IsAbove, IsBelow
  <2> QED
    BY <2>1, StepIsSound, Zenon DEF Grown
<1> QED
  BY <1>1, IInvIsInvariant, PTL DEF Spec, ExpansionTakesAllIn

=============================================================================
