------------------------- MODULE TaskListingProofs --------------------------
(***************************************************************************)
(* Proofs about TaskListing, for every width of the integers, every number *)
(* of rows that the offset can count, and every page size: the pages of a  *)
(* walk miss nothing, and no page passes for another.                      *)
(*                                                                         *)
(* The argument counts the rows ahead of a row: rows that come in can only *)
(* add to them, so a row that has not been seen after p pages has at least *)
(* p pages of rows ahead of it, and after the last page there is no room   *)
(* for it.                                                                 *)
(***************************************************************************)
EXTENDS TaskListing, FiniteSetTheorems, TLAPS

-----------------------------------------------------------------------------
(* Powers of two, as the number of subsets of 1..w.                        *)

(* A power of two is the number of subsets of an interval.                 *)
LEMMA PowerCounts ==
    ASSUME NEW w \in Nat
    PROVE  /\ IsFiniteSet(SUBSET (1..w))
           /\ Cardinality(SUBSET (1..w)) = 2^w
           /\ 2^w \in Nat \ {0}
  <1>1. IsFiniteSet(1..w) /\ Cardinality(1..w) = w
    BY FS_Interval
  <1>2. IsFiniteSet(SUBSET (1..w)) /\ Cardinality(SUBSET (1..w)) = 2^w
    BY <1>1, FS_SUBSET
  <1>3. 2^w \in Nat
    BY <1>2, FS_CardinalityType
  <1>4. SUBSET (1..w) # {}
    OBVIOUS
  <1>5. Cardinality(SUBSET (1..w)) # 0
    BY <1>2, <1>4, FS_EmptySet
  <1> QED
    BY <1>2, <1>3, <1>5

(* One more bit doubles the range.                                         *)
LEMMA PowerDoubles ==
    ASSUME NEW w \in Nat
    PROVE  2^(w + 1) = 2 * 2^w
  <1> DEFINE A == SUBSET (1..w)
             B == {T \in SUBSET (1..(w + 1)) : w + 1 \in T}
             f == [T \in A |-> T \cup {w + 1}]
  <1>1. SUBSET (1..(w + 1)) = A \cup B /\ A \cap B = {}
    <2>1. ASSUME NEW T \in SUBSET (1..(w + 1)), w + 1 \notin T
          PROVE  T \in A
      <3> SUFFICES ASSUME NEW i \in T PROVE i \in 1..w
        OBVIOUS
      <3>1. i \in 1..(w + 1) /\ i # w + 1
        BY <2>1
      <3> QED
        BY <3>1
    <2>2. A \subseteq SUBSET (1..(w + 1))
      <3>1. 1..w \subseteq 1..(w + 1)
        OBVIOUS
      <3> QED
        BY <3>1
    <2>3. w + 1 \notin 1..w
      OBVIOUS
    <2> QED
      BY <2>1, <2>2, <2>3
  <1>2. f \in Bijection(A, B)
    <2>1. w + 1 \notin 1..w /\ 1..w \subseteq 1..(w + 1) /\ w + 1 \in 1..(w + 1)
      OBVIOUS
    <2>2. f \in [A -> B]
      BY <2>1
    <2>3. ASSUME NEW T \in A, NEW U \in A, f[T] = f[U]
          PROVE  T = U
      BY <2>1, <2>3
    <2>4. ASSUME NEW U \in B
          PROVE  \E T \in A : f[T] = U
      <3>1. U \ {w + 1} \in A
        <4> SUFFICES ASSUME NEW i \in U, i # w + 1 PROVE i \in 1..w
          OBVIOUS
        <4>1. i \in 1..(w + 1)
          OBVIOUS
        <4> QED
          BY <4>1
      <3>2. f[U \ {w + 1}] = U
        BY <3>1
      <3> QED
        BY <3>1, <3>2
    <2> QED
      BY <2>2, <2>3, <2>4, Zenon DEF Bijection, Injection, Surjection, IsInjective
  <1>3. IsFiniteSet(A) /\ Cardinality(A) = 2^w /\ 2^w \in Nat
    BY PowerCounts
  <1>4. IsFiniteSet(B) /\ Cardinality(B) = 2^w
    BY <1>2, <1>3, FS_Bijection DEF ExistsBijection
  <1>5. Cardinality(A \cup B) = 2^w + 2^w - Cardinality({})
    BY <1>1, <1>3, <1>4, FS_Union
  <1>6. Cardinality(SUBSET (1..(w + 1))) = 2^(w + 1) /\ w + 1 \in Nat
    BY PowerCounts
  <1>7. Cardinality({}) = 0
    BY FS_EmptySet
  <1>8. 2^(w + 1) = Cardinality(A \cup B)
    BY <1>1, <1>6
  <1> HIDE DEF A, B
  <1> QED
    BY <1>3, <1>5, <1>7, <1>8

(* More bits hold no less.                                                 *)
LEMMA PowerGrows ==
    ASSUME NEW v \in Nat, NEW w \in Nat, v <= w
    PROVE  2^v <= 2^w
  <1>1. 1..v \subseteq 1..w
    OBVIOUS
  <1>2. SUBSET (1..v) \in SUBSET (SUBSET (1..w))
    BY <1>1
  <1>3. /\ IsFiniteSet(SUBSET (1..w))
        /\ Cardinality(SUBSET (1..w)) = 2^w
        /\ Cardinality(SUBSET (1..v)) = 2^v
    BY PowerCounts
  <1>4. Cardinality(SUBSET (1..v)) <= Cardinality(SUBSET (1..w))
    BY <1>2, <1>3, FS_Subset
  <1> QED
    BY <1>3, <1>4

(* Half a range and a whole one.                                           *)
LEMMA Halves ==
    ASSUME NEW w \in Nat \ {0}
    PROVE  /\ 2^(w - 1) \in Nat \ {0}
           /\ 2^w = 2 * 2^(w - 1)
  <1>1. w - 1 \in Nat /\ (w - 1) + 1 = w
    OBVIOUS
  <1> QED
    BY <1>1, PowerCounts, PowerDoubles

-----------------------------------------------------------------------------
(* Division.                                                               *)

(* A number below the modulus is its own remainder, also one turn below.   *)
LEMMA Remainder ==
    ASSUME NEW m \in Nat \ {0}, NEW n \in Nat, n < m
    PROVE  n % m = n /\ (n - m) % m = n
  OBVIOUS

(* The quotient, between its neighbours.                                   *)
LEMMA Quotient ==
    ASSUME NEW a \in Nat, NEW b \in Nat \ {0}
    PROVE  /\ a \div b \in Nat
           /\ (a \div b) * b <= a
           /\ a < (a \div b) * b + b
  OBVIOUS

(* Products keep the order.                                                *)
LEMMA ProductGrows ==
    ASSUME NEW p \in Nat, NEW q \in Nat, NEW b \in Nat, p <= q
    PROVE  p * b <= q * b /\ p * b \in Nat
  OBVIOUS

(* math.Ceil: up to the last announced page a page starts before the       *)
(* count, and the last announced page reaches it.                          *)
LEMMA PagesCover ==
    ASSUME NEW total \in Nat, NEW size \in Nat \ {0}, NEW p \in Nat
    PROVE  /\ TotalPages(total, size) \in Nat
           /\ p < TotalPages(total, size) => p * size < total
           /\ p >= TotalPages(total, size) => p * size >= total
  <1> DEFINE a == total + size - 1
             q == a \div size
  <1>1. a \in Nat /\ TotalPages(total, size) = q
    BY DEF TotalPages
  <1>2. q \in Nat /\ q * size <= a /\ a < q * size + size
    BY <1>1, Quotient
  <1>3. ASSUME p < q PROVE p * size < total
    <2>1. (p + 1) * size <= q * size
      BY <1>2, <1>3, ProductGrows
    <2>2. (p + 1) * size = p * size + size /\ p * size \in Nat
      OBVIOUS
    <2> HIDE DEF q
    <2>3. q * size \in Nat
      BY <1>2
    <2> QED
      BY <1>2, <2>1, <2>2, <2>3
  <1>4. ASSUME p >= q PROVE p * size >= total
    <2>1. q * size <= p * size /\ q * size \in Nat
      BY <1>2, <1>4, ProductGrows
    <2> HIDE DEF q
    <2>2. p * size \in Nat
      OBVIOUS
    <2> QED
      BY <1>2, <2>1, <2>2
  <1> QED
    BY <1>1, <1>2, <1>3, <1>4

-----------------------------------------------------------------------------
(* The numbers of HandleListTasks and ListEvents.                          *)

(* Go's conversion to w bits, for what fits w bits without a sign.         *)
LEMMA SignedFits ==
    ASSUME NEW w \in Nat \ {0}, NEW n \in Nat, n < 2^w
    PROVE  /\ n < 2^(w - 1) => Signed(n, w) = n
           /\ n >= 2^(w - 1) => Signed(n, w) = n - 2^w
           /\ Signed(n - 2^w, w) = Signed(n, w)
  <1>1. 2^w \in Nat \ {0} /\ 2^(w - 1) \in Nat \ {0} /\ 2^w = 2 * 2^(w - 1)
    BY Halves, PowerCounts
  <1>2. n % 2^w = n /\ (n - 2^w) % 2^w = n
    BY <1>1, Remainder
  <1> QED
    BY <1>1, <1>2 DEF Signed

(* The facts about the constants, without powers of a difference.          *)
LEMMA Ranges ==
    /\ OffsetBits \in Nat \ {0} /\ IntBits \in Nat \ {0}
    /\ 2^(OffsetBits - 1) \in Nat \ {0}
    /\ 2^OffsetBits = 2 * 2^(OffsetBits - 1)
    /\ 2^(IntBits - 1) \in Nat \ {0}
    /\ 2^IntBits = 2 * 2^(IntBits - 1)
    /\ 2^(OffsetBits - 1) <= 2^(IntBits - 1)
    /\ IntBits # OffsetBits => 2^OffsetBits <= 2^(IntBits - 1)
    /\ MaxPageSize < 2^(OffsetBits - 1)
    /\ Cardinality(Rows) \in Nat
    /\ Cardinality(Rows) < 2^(OffsetBits - 1)
  <1>1. OffsetBits \in Nat \ {0} /\ IntBits \in Nat \ {0} /\ IntBits >= OffsetBits
    BY ListingAssumption
  <1>2. /\ OffsetBits - 1 \in Nat /\ IntBits - 1 \in Nat
        /\ OffsetBits - 1 <= IntBits - 1
        /\ IntBits # OffsetBits => OffsetBits <= IntBits - 1
    BY <1>1
  <1>3. /\ 2^(OffsetBits - 1) <= 2^(IntBits - 1)
        /\ IntBits # OffsetBits => 2^OffsetBits <= 2^(IntBits - 1)
    BY <1>1, <1>2, PowerGrows
  <1>4. Cardinality(Rows) \in Nat
    BY ListingAssumption, FS_CardinalityType
  <1> QED
    BY <1>1, <1>3, <1>4, Halves, ListingAssumption

(* An offset that fits its parameter is passed on as it is; one that needs *)
(* the sign bit becomes negative.                                          *)
LEMMA OffsetFits ==
    ASSUME NEW page \in Int, NEW size \in Int, NEW n \in Nat,
           n = (page - 1) * size, n < 2^OffsetBits
    PROVE  /\ n < 2^(OffsetBits - 1) => Offset(page, size) = n
           /\ n >= 2^(OffsetBits - 1) => Offset(page, size) < 0
  <1>1. Offset(page, size) = Signed(Signed(n, IntBits), OffsetBits)
    BY DEF Offset
  <1>2. /\ n < 2^(OffsetBits - 1) => Signed(n, OffsetBits) = n
        /\ n >= 2^(OffsetBits - 1) => Signed(n, OffsetBits) = n - 2^OffsetBits
        /\ Signed(n - 2^OffsetBits, OffsetBits) = Signed(n, OffsetBits)
    BY SignedFits, Ranges
  <1>3. Signed(Signed(n, IntBits), OffsetBits) = Signed(n, OffsetBits)
    <2>1. CASE IntBits = OffsetBits
      BY <1>2, <2>1, Ranges
    <2>2. CASE IntBits # OffsetBits
      <3>1. n < 2^(IntBits - 1) /\ n < 2^IntBits
        BY <2>2, Ranges
      <3>2. Signed(n, IntBits) = n
        BY <3>1, SignedFits, Ranges
      <3> QED
        BY <3>2
    <2> QED
      BY <2>1, <2>2
  <1> QED
    BY <1>1, <1>2, <1>3, Ranges

(* An offset is an integer.                                                *)
LEMMA OffsetType ==
    ASSUME NEW page \in Int, NEW size \in Int
    PROVE  Offset(page, size) \in Int
  <1>1. ASSUME NEW n \in Int, NEW w \in Nat \ {0}
        PROVE  Signed(n, w) \in Int
    <2>1. 2^w \in Nat \ {0} /\ 2^(w - 1) \in Nat
      BY PowerCounts, Halves
    <2>2. n % 2^w \in Int
      BY <2>1
    <2> QED
      BY <2>1, <2>2 DEF Signed
  <1>2. (page - 1) * size \in Int
    OBVIOUS
  <1> QED
    BY <1>1, <1>2, Ranges DEF Offset

(* Page and size are positive, the size is bounded, and both are kept      *)
(* when they are small.                                                    *)
LEMMA Params ==
    ASSUME NEW n \in Int
    PROVE  /\ PageOf(n) \in Nat \ {0}
           /\ n \in 1..(2^(IntBits - 1) - 1) => PageOf(n) = n
           /\ PageSizeOf(n) \in 1..MaxPageSize
           /\ n \in 1..MaxPageSize => PageSizeOf(n) = n
  <1>1. /\ Atoi(n) \in Int
        /\ n < 2^(IntBits - 1) /\ n >= 1 => Atoi(n) = n
    BY Ranges DEF Atoi
  <1>2. DefaultPageSize \in 1..MaxPageSize /\ MaxPageSize \in Nat
    BY ListingAssumption
  <1> QED
    BY <1>1, <1>2, Ranges DEF PageOf, PageSizeOf

-----------------------------------------------------------------------------
(* The inductive invariant.                                                *)

(* The states of a request, and of a walk.                                 *)
RequestState ==
    [pc : {"idle", "count", "list", "answered", "failed"},
     page : Nat \ {0}, size : 1..MaxPageSize, total : 0..Cardinality(Rows),
     shown : SUBSET Rows, torn : BOOLEAN]

WalkState ==
    [on : BOOLEAN, seen : SUBSET Rows, stayed : SUBSET Rows, left : BOOLEAN,
     tied : BOOLEAN]

TypeInv ==
    /\ table \in [Rows -> Row]
    /\ req \in RequestState
    /\ walk \in WalkState

(* The count is out of date only if a row has entered since.               *)
Counted == req.pc = "list" /\ ~req.torn => Cardinality(Matching) <= req.total

(* A walk never asks for a page that starts beyond the rows there can be.  *)
WalkInRange ==
    /\ req.pc = "idle" => ~walk.on
    /\ walk.on => (req.page - 1) * req.size <= Cardinality(Rows)

(* The rows that come before r in every listing.                           *)
Ahead(r) == {q \in Matching : table[q].at > table[r].at}

(* The pages a walk has read.                                              *)
PagesRead == IF req.pc = "answered" THEN req.page ELSE req.page - 1

(* A walk that nothing disturbed is not past any row it has to see: such a *)
(* row has at least the rows of all pages read before it.                  *)
Undisturbed == walk.on /\ ~walk.left /\ ~walk.tied

NothingSkipped ==
    /\ walk.stayed \subseteq Matching
    /\ Undisturbed =>
          /\ \A r \in walk.stayed \ walk.seen :
                Cardinality(Ahead(r)) >= PagesRead * req.size
          /\ PagesRead # 0 /\ walk.seen = {} => walk.stayed = {}

(* A page with rows on it starts where there can be rows, or beyond the    *)
(* range of the offset.                                                    *)
ShownInRange ==
    req.pc = "answered" /\ req.shown # {} =>
       \/ (req.page - 1) * req.size < Cardinality(Rows)
       \/ (req.page - 1) * req.size >= 2^OffsetBits

ListingInv ==
    /\ TypeInv
    /\ Counted
    /\ WalkInRange
    /\ NothingSkipped
    /\ WalkSeesAll
    /\ ShownInRange

-----------------------------------------------------------------------------
(* The listings of the matching rows.                                      *)

(* Sets of rows are finite, and smaller sets have fewer rows.              *)
LEMMA RowSets ==
    ASSUME NEW S \in SUBSET Rows
    PROVE  /\ IsFiniteSet(S) /\ Cardinality(S) \in 0..Cardinality(Rows)
           /\ \A T \in SUBSET S : Cardinality(T) <= Cardinality(S)
           /\ \A T \in SUBSET S : T # S => Cardinality(T) < Cardinality(S)
  <1>1. IsFiniteSet(Rows)
    BY ListingAssumption
  <1>2. IsFiniteSet(S) /\ Cardinality(S) <= Cardinality(Rows)
    BY <1>1, FS_Subset
  <1>3. \A T \in SUBSET Rows : IsFiniteSet(T) /\ Cardinality(T) \in Nat
    BY <1>1, FS_Subset, FS_CardinalityType
  <1>4. ASSUME NEW T \in SUBSET S
        PROVE  /\ Cardinality(T) <= Cardinality(S)
               /\ Cardinality(T) = Cardinality(S) => T = S
    BY <1>2, FS_Subset
  <1>5. ASSUME NEW T \in SUBSET S, T # S
        PROVE  Cardinality(T) < Cardinality(S)
    <2>1. Cardinality(T) \in Nat /\ Cardinality(S) \in Nat
      BY <1>3
    <2> QED
      BY <1>4, <1>5, <2>1
  <1> QED
    BY <1>2, <1>3, <1>4, <1>5, Ranges

(* A listing holds every matching row once.                                *)
LEMMA ListingHoldsAll ==
    ASSUME NEW s \in Listings
    PROVE  /\ s \in [1..Cardinality(Matching) -> Matching]
           /\ \A i, j \in 1..Cardinality(Matching) : s[i] = s[j] => i = j
           /\ \A r \in Matching : \E i \in 1..Cardinality(Matching) : s[i] = r
           /\ \A i, j \in 1..Cardinality(Matching) :
                 i < j => table[s[i]].at >= table[s[j]].at
  <1> DEFINE N == Cardinality(Matching)
  <1>1. /\ s \in [1..N -> Matching]
        /\ \A i, j \in 1..N : s[i] = s[j] => i = j
    BY DEF Listings, SetToSeqs
  <1>2. IsFiniteSet(Matching) /\ N \in Nat
    <2>1. Matching \in SUBSET Rows
      BY DEF Matching
    <2> QED
      BY <2>1, RowSets, Ranges
  <1>3. Cardinality(1..N) = N
    BY <1>2, FS_Interval
  <1>4. s \in Injection(1..N, Matching)
    BY <1>1 DEF Injection, IsInjective
  <1>5. s \in Surjection(1..N, Matching)
    BY <1>2, <1>3, <1>4, FS_Injection
  <1>6. \A r \in Matching : \E i \in 1..N : s[i] = r
    BY <1>5 DEF Surjection
  <1>7. \A i, j \in 1..N : i < j => table[s[i]].at >= table[s[j]].at
    <2>1. DOMAIN s = 1..N
      BY <1>1
    <2> QED
      BY <2>1 DEF Listings
  <1> QED
    BY <1>1, <1>6, <1>7

(* created_at is a number, also that of no row.                            *)
LEMMA AtIsNumber ==
    ASSUME TypeInv, NEW r \in Rows
    PROVE  table[r].at \in Nat
  <1>1. table[r] \in Row
    BY DEF TypeInv
  <1>2. \A row \in Row : row.at \in Times \cup {0}
    BY Zenon DEF Row
  <1>3. Times \cup {0} \subseteq Nat
    BY ListingAssumption
  <1> QED
    BY <1>1, <1>2, <1>3

(* Without ties, a row comes right after the rows ahead of it.             *)
LEMMA ListingOrder ==
    ASSUME TypeInv, NEW s \in Listings, ~Tied,
           NEW i \in 1..Cardinality(Matching)
    PROVE  Cardinality(Ahead(s[i])) = i - 1
  <1> DEFINE N == Cardinality(Matching)
             D == 1..(i - 1)
             g == [j \in D |-> s[j]]
  <1>0. N \in Nat
    <2>1. Matching \in SUBSET Rows
      BY DEF Matching
    <2> QED
      BY <2>1, RowSets, Ranges
  <1>1. /\ s \in [1..N -> Matching]
        /\ \A j, k \in 1..N : s[j] = s[k] => j = k
        /\ \A r \in Matching : \E j \in 1..N : s[j] = r
        /\ \A j, k \in 1..N : j < k => table[s[j]].at >= table[s[k]].at
    BY ListingHoldsAll
  <1>2. \A r \in Matching : table[r].at \in Nat
    BY AtIsNumber DEF Matching
  <1>3. i \in Nat /\ i <= N
    BY <1>0
  <1> HIDE DEF N
  <1>4. ASSUME NEW j \in D
        PROVE  j \in 1..N /\ s[j] \in Ahead(s[i])
    <2>1. j \in 1..N /\ i \in 1..N /\ j < i
      BY <1>3, <1>0 DEF N
    <2>2. s[j] # s[i] /\ s[j] \in Matching /\ s[i] \in Matching
      BY <1>1, <2>1
    <2>3. table[s[j]].at # table[s[i]].at
      BY <2>2 DEF Tied
    <2>4. table[s[j]].at >= table[s[i]].at
      BY <1>1, <2>1
    <2>5. table[s[j]].at > table[s[i]].at
      BY <1>2, <2>2, <2>3, <2>4
    <2> QED
      BY <2>1, <2>2, <2>5 DEF Ahead
  <1>5. ASSUME NEW q \in Ahead(s[i])
        PROVE  \E j \in D : s[j] = q
    <2>1. q \in Matching /\ table[q].at > table[s[i]].at
      BY DEF Ahead
    <2>2. PICK j \in 1..N : s[j] = q
      BY <1>1, <2>1
    <2>3. i \in 1..N /\ s[i] \in Matching
      BY <1>1 DEF N
    <2>4. table[q].at \in Nat /\ table[s[i]].at \in Nat
      BY <1>2, <2>1, <2>3
    <2>5. ~(i < j)
      BY <1>1, <2>1, <2>2, <2>3, <2>4
    <2>6. i # j
      BY <2>1, <2>2, <2>4
    <2>7. j \in D
      BY <1>0, <1>3, <2>5, <2>6
    <2> QED
      BY <2>2, <2>7
  <1>6. g \in Bijection(D, Ahead(s[i]))
    <2>1. g \in [D -> Ahead(s[i])]
      BY <1>4
    <2>2. \A j, k \in D : g[j] = g[k] => j = k
      BY <1>1, <1>4
    <2>3. \A q \in Ahead(s[i]) : \E j \in D : g[j] = q
      BY <1>5
    <2> HIDE DEF g, D
    <2> QED
      BY <2>1, <2>2, <2>3 DEF Bijection, Injection, Surjection, IsInjective
  <1>7. IsFiniteSet(D) /\ Cardinality(D) = i - 1
    BY <1>3, FS_Interval
  <1> QED
    BY <1>6, <1>7, FS_Bijection DEF ExistsBijection

-----------------------------------------------------------------------------
(* What the steps do, field by field.                                      *)

(* The fields of the request, with their types.                            *)
LEMMA ReqFields ==
    ASSUME TypeInv
    PROVE  /\ req.page \in Nat \ {0} /\ req.size \in 1..MaxPageSize
           /\ req.size \in Nat \ {0} /\ req.page - 1 \in Nat
           /\ req.total \in 0..Cardinality(Rows) /\ req.total \in Nat
           /\ (req.page - 1) * req.size \in Nat
           /\ req.page * req.size \in Nat
           /\ req.page * req.size = (req.page - 1) * req.size + req.size
           /\ Matching \in SUBSET Rows
  <1>1. /\ req.page \in Nat \ {0} /\ req.size \in 1..MaxPageSize
        /\ req.total \in 0..Cardinality(Rows)
    BY DEF TypeInv, RequestState
  <1>2. req.size \in Nat \ {0} /\ req.page - 1 \in Nat /\ req.total \in Nat
    BY <1>1, Ranges
  <1>3. ASSUME NEW p \in Nat \ {0}, NEW z \in Nat \ {0}
        PROVE  /\ (p - 1) * z \in Nat /\ p * z \in Nat
               /\ p * z = (p - 1) * z + z
    OBVIOUS
  <1> QED
    BY <1>1, <1>2, <1>3 DEF Matching

(* A request starts with nothing counted or shown.                         *)
LEMMA Starts ==
    ASSUME NEW page \in Int, NEW size \in Int, HandleListTasks(page, size)
    PROVE  /\ req' \in RequestState
           /\ req'.page = PageOf(page) /\ req'.size = PageSizeOf(size)
           /\ req'.pc = "count"
  <1>1. PageOf(page) \in Nat \ {0} /\ PageSizeOf(size) \in 1..MaxPageSize
    BY Params
  <1>2. req' = [pc |-> "count", page |-> PageOf(page), size |-> PageSizeOf(size),
                total |-> 0, shown |-> {}, torn |-> FALSE]
    BY DEF HandleListTasks, NoRequest
  <1> QED
    BY <1>1, <1>2, Ranges DEF RequestState

(* The next page of a walk is the one after, of the same size.             *)
LEMMA NextPageStarts ==
    ASSUME TypeInv, NextPage
    PROVE  /\ HandleListTasks(req.page + 1, req.size)
           /\ req'.page = req.page + 1 /\ req'.size = req.size
           /\ req.page * req.size < req.total
  <1>0. /\ req.page \in Nat \ {0} /\ req.size \in 1..MaxPageSize
        /\ req.size \in Nat \ {0}
        /\ req.total \in 0..Cardinality(Rows) /\ req.total \in Nat
    BY ReqFields
  <1>1. HandleListTasks(req.page + 1, req.size)
    BY DEF NextPage
  <1>2. req.page * req.size < req.total
    BY <1>0, PagesCover DEF NextPage
  <1>3. req.page <= req.page * req.size
    <2>1. ASSUME NEW p \in Nat, NEW z \in Nat \ {0} PROVE p <= p * z
      OBVIOUS
    <2> QED
      BY <1>0, <2>1
  <1>4. req.page * req.size \in Nat
    BY ReqFields
  <1>5. req.page + 1 <= Cardinality(Rows)
    BY <1>0, <1>2, <1>3, <1>4, Ranges
  <1>6. req.page + 1 \in 1..(2^(IntBits - 1) - 1) /\ req.page + 1 \in Int
    BY <1>0, <1>5, Ranges
  <1>7. req'.page = PageOf(req.page + 1) /\ req'.size = PageSizeOf(req.size)
    <2>1. req.page + 1 \in Int /\ req.size \in Int
      BY <1>0
    <2> QED
      BY <1>1, <2>1, Starts
  <1> QED
    BY <1>0, <1>1, <1>2, <1>6, <1>7, Params

(* Fields that a step of the request leaves alone.                         *)
SamePage == req'.page = req.page /\ req'.size = req.size

(* CountEventsFiltered goes on with the count, or fails.                   *)
LEMMA CountEffect ==
    ASSUME TypeInv, CountEventsFiltered
    PROVE  /\ req.pc = "count" /\ SamePage
           /\ req'.torn = req.torn
           /\ \/ req'.pc = "list" /\ req'.total = Cardinality(Matching)
              \/ req'.pc = "failed"
           /\ TypeInv'
  <1>1. Cardinality(Matching) \in 0..Cardinality(Rows)
    BY ReqFields, RowSets
  <1> QED
    BY <1>1 DEF CountEventsFiltered, TypeInv, RequestState, SamePage

(* The rows of one page of listing s.                                      *)
PageOfListing(s, from, size) ==
    {s[i] : i \in DOMAIN s \cap (from + 1)..(from + size)}

(* ListEventsFiltered answers with a page of a listing, or fails.          *)
LEMMA ListEffect ==
    ASSUME TypeInv, ListEventsFiltered
    PROVE  /\ req.pc = "list" /\ SamePage
           /\ req'.torn = req.torn /\ req'.total = req.total
           /\ walk'.on = walk.on /\ walk'.stayed = walk.stayed
           /\ walk'.left = walk.left
           /\ \/ /\ req'.pc = "answered"
                 /\ Offset(req.page, req.size) >= 0
                 /\ \E s \in Listings :
                       req'.shown = PageOfListing(s, Offset(req.page, req.size),
                                                  req.size)
                 /\ walk.on => /\ walk'.seen = walk.seen \cup req'.shown
                               /\ walk'.tied = (walk.tied \/ Tied)
              \/ req'.pc = "failed" /\ walk' = walk
           /\ TypeInv'
  <1> DEFINE from == Offset(req.page, req.size)
  <1>1. CASE req' = [req EXCEPT !.pc = "failed"] /\ UNCHANGED <<walk, table>>
    BY <1>1 DEF ListEventsFiltered, TypeInv, RequestState, WalkState, SamePage
  <1>2. ASSUME from >= 0, NEW s \in Listings,
               req' = [req EXCEPT !.pc = "answered",
                                  !.shown = PageOfListing(s, from, req.size)],
               walk' = IF walk.on
                       THEN [walk EXCEPT
                                !.seen = @ \cup PageOfListing(s, from, req.size),
                                !.tied = @ \/ Tied]
                       ELSE walk,
               UNCHANGED table
        PROVE  /\ req'.pc = "answered" /\ SamePage
               /\ req'.torn = req.torn /\ req'.total = req.total
               /\ req'.shown = PageOfListing(s, from, req.size)
               /\ walk'.on = walk.on /\ walk'.stayed = walk.stayed
               /\ walk'.left = walk.left
               /\ walk.on => /\ walk'.seen = walk.seen \cup req'.shown
                             /\ walk'.tied = (walk.tied \/ Tied)
               /\ TypeInv'
    <2> DEFINE rows == PageOfListing(s, from, req.size)
    <2>1. rows \in SUBSET Rows
      <3>1. s \in [1..Cardinality(Matching) -> Matching]
        BY ListingHoldsAll
      <3> QED
        BY <3>1 DEF PageOfListing, Matching
    <2> HIDE DEF rows
    <2>2. /\ req'.pc = "answered" /\ SamePage
          /\ req'.torn = req.torn /\ req'.total = req.total
          /\ req'.shown = rows
      BY <1>2 DEF TypeInv, RequestState, SamePage, rows
    <2>3. req' \in RequestState
      BY <1>2, <2>1 DEF TypeInv, RequestState, rows
    <2>4. ASSUME NEW b \in BOOLEAN, b = (walk.tied \/ Tied), walk.on
          PROVE  /\ walk'.on = walk.on /\ walk'.stayed = walk.stayed
                 /\ walk'.left = walk.left
                 /\ walk'.seen = walk.seen \cup rows
                 /\ walk'.tied = b
                 /\ walk' \in WalkState
      <3>1. walk' = [walk EXCEPT !.seen = @ \cup rows, !.tied = b]
        BY <1>2, <2>4 DEF rows
      <3> QED
        BY <2>1, <3>1 DEF TypeInv, WalkState
    <2>5. CASE walk.on
      <3>1. (walk.tied \/ Tied) \in BOOLEAN
        OBVIOUS
      <3> QED
        BY <1>2, <2>2, <2>3, <2>4, <2>5, <3>1 DEF TypeInv, rows
    <2>6. CASE ~walk.on
      BY <1>2, <2>2, <2>3, <2>6 DEF TypeInv, rows
    <2> QED
      BY <2>5, <2>6
  <1> QED
    BY <1>1, <1>2 DEF ListEventsFiltered, PageOfListing

(* A finished request leaves nothing behind.                               *)
LEMMA EndEffect ==
    ASSUME TypeInv, EndRequest
    PROVE  TypeInv' /\ req'.pc = "idle" /\ ~walk'.on /\ walk'.stayed = {}
  <1>1. /\ NoRequest \in [pc : {"idle"}, page : Nat \ {0}, size : 1..MaxPageSize,
                          total : 0..Cardinality(Rows), shown : SUBSET Rows,
                          torn : BOOLEAN]
        /\ NoWalk \in [on : {FALSE}, seen : SUBSET Rows, stayed : {{}},
                       left : BOOLEAN, tied : BOOLEAN]
    BY ListingAssumption, Ranges DEF NoRequest, NoWalk
  <1> QED
    BY <1>1 DEF EndRequest, TypeInv, RequestState, WalkState

(* A new walk has seen nothing and has to see what matches now.            *)
LEMMA StartEffect ==
    ASSUME TypeInv, NEW size \in Int, StartWalk(size)
    PROVE  /\ TypeInv' /\ UNCHANGED table
           /\ req.pc = "idle" /\ req'.pc = "count" /\ req'.page = 1
           /\ walk'.on /\ walk'.stayed = Matching /\ walk'.seen = {}
           /\ ~walk'.left /\ ~walk'.tied
  <1>1. req' \in RequestState /\ req'.page = PageOf(1) /\ req'.pc = "count"
    <2>1. HandleListTasks(1, size) /\ 1 \in Int
      BY DEF StartWalk
    <2> QED
      BY <2>1, Starts
  <1>2. 2^(IntBits - 1) \in Nat /\ 2^(IntBits - 1) > 1
    BY ListingAssumption, Ranges
  <1>3. PageOf(1) = 1
    BY <1>2, Params
  <1>4. walk' = [on |-> TRUE, seen |-> {}, stayed |-> Matching, left |-> FALSE,
                 tied |-> FALSE]
    BY DEF StartWalk, NoWalk
  <1>5. walk' \in WalkState
    BY <1>4, ReqFields DEF WalkState
  <1>6. walk'.on /\ ~walk'.left /\ ~walk'.tied
    BY <1>4
  <1>7. walk'.stayed = Matching /\ walk'.seen = {}
    BY <1>4
  <1>8. UNCHANGED table /\ req.pc = "idle"
    BY DEF StartWalk
  <1>9. TypeInv'
    BY <1>1, <1>5, <1>8 DEF TypeInv
  <1> QED
    BY <1>1, <1>3, <1>6, <1>7, <1>8, <1>9

(* A request for one page, or for the next, leaves table and walk alone.   *)
LEMMA AskEffect ==
    ASSUME TypeInv, NEW page \in Int, NEW size \in Int,
           HandleListTasks(page, size), UNCHANGED <<table, walk>>
    PROVE  TypeInv' /\ req'.pc = "count"
  <1>1. req' \in RequestState /\ req'.pc = "count"
    BY Starts
  <1> QED
    BY <1>1 DEF TypeInv

(* Fields that writers of the table leave alone.                           *)
OnlyTorn ==
    /\ req'.pc = req.pc /\ SamePage
    /\ req'.total = req.total /\ req'.shown = req.shown
    /\ req.torn => req'.torn

(* A row that comes in: the listed rows grow by it.                        *)
Enters(r) ==
    /\ OnlyTorn
    /\ req.pc = "list" => req'.torn
    /\ r \notin Matching /\ Matching' = Matching \cup {r}
    /\ \A q \in Rows \ {r} : table'[q] = table[q]

(* A row that leaves the filter; the walk takes note of it.                *)
Leaves(r) ==
    /\ OnlyTorn
    /\ r \in Matching /\ Matching' = Matching \ {r}
    /\ \A q \in Rows \ {r} : table'[q] = table[q]
    /\ walk.seen # {} => walk'.left

(* Inserts and updates write one field of the request, torn.               *)
LEMMA TornType ==
    ASSUME TypeInv, NEW b \in BOOLEAN, req' = [req EXCEPT !.torn = @ \/ b]
    PROVE  /\ OnlyTorn /\ (b => req'.torn)
           /\ req' \in RequestState
  <1>1. PICK d \in BOOLEAN : d = (req.torn \/ b)
    OBVIOUS
  <1>2. req' = [req EXCEPT !.torn = d]
    BY <1>1
  <1> QED
    BY <1>1, <1>2 DEF TypeInv, RequestState, OnlyTorn, SamePage

(* InsertEvent adds a matching row.                                        *)
LEMMA InsertEffect ==
    ASSUME TypeInv, NEW r \in Rows, NEW at \in Times, InsertEvent(r, at)
    PROVE  TypeInv' /\ Enters(r) /\ walk' = walk
  <1>1. PICK b \in BOOLEAN : b = (req.pc = "list")
    OBVIOUS
  <1>2. req' = [req EXCEPT !.torn = @ \/ b]
    BY <1>1 DEF InsertEvent
  <1>3. table' \in [Rows -> Row]
    BY DEF InsertEvent, TypeInv, Row
  <1>4. /\ table[r].match = FALSE /\ table'[r].match = TRUE
        /\ \A q \in Rows \ {r} : table'[q] = table[q]
    BY DEF InsertEvent, TypeInv, NoRow
  <1>5. r \notin Matching /\ Matching' = Matching \cup {r}
    BY <1>4 DEF Matching
  <1> QED
    BY <1>1, <1>2, <1>3, <1>4, <1>5, TornType DEF TypeInv, Enters, InsertEvent

(* UpdateEventStatus takes a row into the filter or out of it.             *)
LEMMA UpdateEffect ==
    ASSUME TypeInv, NEW r \in Rows, UpdateEventStatus(r)
    PROVE  /\ TypeInv' /\ (Enters(r) \/ Leaves(r))
           /\ walk'.on = walk.on /\ walk'.tied = walk.tied
           /\ walk'.seen = walk.seen /\ walk'.stayed = walk.stayed \ {r}
           /\ walk.left => walk'.left
  <1>1. PICK b \in BOOLEAN : b = (req.pc = "list" /\ ~table[r].match)
    OBVIOUS
  <1>2. req' = [req EXCEPT !.torn = @ \/ b]
    BY <1>1 DEF UpdateEventStatus
  <1>3. PICK d \in BOOLEAN :
           d = (walk.left \/ (table[r].match /\ walk.seen # {}))
    OBVIOUS
  <1>4. walk' = [walk EXCEPT !.stayed = @ \ {r}, !.left = d]
    BY <1>3 DEF UpdateEventStatus
  <1>5. /\ walk' \in WalkState
        /\ walk'.on = walk.on /\ walk'.tied = walk.tied
        /\ walk'.seen = walk.seen /\ walk'.stayed = walk.stayed \ {r}
        /\ walk'.left = d
    BY <1>4 DEF TypeInv, WalkState
  <1>6. PICK m \in BOOLEAN : m = ~table[r].match
    OBVIOUS
  <1>7. table' = [table EXCEPT ![r].match = m]
    BY <1>6 DEF UpdateEventStatus
  <1>8. table' \in [Rows -> Row]
    BY <1>7 DEF TypeInv, Row
  <1>9. /\ table'[r].match = m
        /\ \A q \in Rows \ {r} : table'[q] = table[q]
    BY <1>7 DEF TypeInv, Row
  <1>10. /\ OnlyTorn /\ (b => req'.torn)
         /\ req' \in RequestState
    BY <1>2, TornType
  <1>11. CASE table[r].match
    <2>1. r \in Matching /\ Matching' = Matching \ {r}
      BY <1>6, <1>9, <1>11 DEF Matching
    <2> QED
      BY <1>3, <1>5, <1>8, <1>9, <1>10, <1>11, <2>1 DEF TypeInv, Leaves
  <1>12. CASE ~table[r].match
    <2>1. r \notin Matching /\ Matching' = Matching \cup {r}
      BY <1>6, <1>9, <1>12 DEF Matching
    <2> QED
      BY <1>1, <1>3, <1>5, <1>8, <1>9, <1>10, <1>12, <2>1 DEF TypeInv, Enters
  <1> QED
    BY <1>11, <1>12

-----------------------------------------------------------------------------
(* The steps keep the invariant.                                           *)

(* The rows ahead of a row are rows, and it is not one of them.            *)
LEMMA AheadCounts ==
    ASSUME TypeInv, NEW r \in Rows
    PROVE  /\ Ahead(r) \in SUBSET Rows /\ Cardinality(Ahead(r)) \in Nat
           /\ r \in Matching => Cardinality(Ahead(r)) < Cardinality(Matching)
  <1>1. Matching \in SUBSET Rows /\ Ahead(r) \in SUBSET Matching
    BY DEF Matching, Ahead
  <1>2. r \notin Ahead(r)
    <2>1. table[r].at \in Nat
      BY AtIsNumber
    <2> QED
      BY <2>1 DEF Ahead
  <1>3. Cardinality(Ahead(r)) \in 0..Cardinality(Rows)
    BY <1>1, RowSets
  <1>4. r \in Matching => Cardinality(Ahead(r)) < Cardinality(Matching)
    BY <1>1, <1>2, RowSets
  <1> QED
    BY <1>1, <1>3, <1>4, Ranges

(* A step of a request that reads no page skips nothing.                   *)
LEMMA QuietWalk ==
    ASSUME NothingSkipped, UNCHANGED <<table, walk>>,
           PagesRead' = PagesRead, req'.size = req.size
    PROVE  NothingSkipped'
  <1>1. Matching' = Matching /\ \A r : Ahead(r)' = Ahead(r)
    BY DEF Matching, Ahead
  <1> QED
    BY <1>1 DEF NothingSkipped, Undisturbed

(* Requests outside a walk, and the end of every request.                  *)
LEMMA OutsideWalk ==
    ASSUME TypeInv, TypeInv', UNCHANGED table, walk'.stayed \subseteq Matching,
           ~walk'.on, req'.pc \in {"idle", "count"}
    PROVE  ListingInv'
  <1>1. Matching' = Matching
    BY DEF Matching
  <1> QED
    BY <1>1 DEF ListingInv, Counted, WalkInRange, NothingSkipped, Undisturbed,
                WalkSeesAll, ShownInRange

(* A walk starts with everything still to come.                            *)
LEMMA StartKeeps ==
    ASSUME ListingInv, NEW size \in Int, StartWalk(size)
    PROVE  ListingInv'
  <1>0. TypeInv
    BY DEF ListingInv
  <1>1. /\ TypeInv' /\ UNCHANGED table /\ req'.pc = "count" /\ req'.page = 1
        /\ walk'.stayed = Matching
    BY <1>0, StartEffect
  <1>2. req'.size \in Nat
    BY <1>1, Ranges, ListingAssumption DEF TypeInv, RequestState
  <1>3. Matching' = Matching
    BY <1>1 DEF Matching
  <1>4. PagesRead' = 0 /\ 0 * req'.size = 0
    BY <1>1, <1>2 DEF PagesRead
  <1>5. \A r \in Rows : Cardinality(Ahead(r)') \in Nat
    <2>1. ASSUME NEW r \in Rows PROVE Ahead(r)' = Ahead(r)
      BY <1>1 DEF Ahead, Matching
    <2> QED
      BY <1>0, <2>1, AheadCounts
  <1>6. NothingSkipped'
    BY <1>0, <1>1, <1>3, <1>4, <1>5, ReqFields DEF NothingSkipped
  <1>7. WalkInRange'
    BY <1>1, <1>4, Ranges DEF WalkInRange
  <1> QED
    BY <1>1, <1>6, <1>7 DEF ListingInv, Counted, WalkSeesAll, ShownInRange

(* The next page starts before the count of the page just read.            *)
LEMMA NextPageKeeps ==
    ASSUME ListingInv, NextPage
    PROVE  ListingInv'
  <1>0. TypeInv
    BY DEF ListingInv
  <1>1. /\ HandleListTasks(req.page + 1, req.size)
        /\ req'.page = req.page + 1 /\ req'.size = req.size
        /\ req.page * req.size < req.total
    BY <1>0, NextPageStarts
  <1>2. /\ req.pc = "answered" /\ walk.on /\ UNCHANGED <<table, walk>>
    BY DEF NextPage
  <1>3. req.page \in Nat \ {0} /\ req.size \in Nat \ {0}
        /\ req.total \in 0..Cardinality(Rows) /\ req.page * req.size \in Nat
    BY <1>0, ReqFields
  <1>4. TypeInv' /\ req'.pc = "count"
    <2>1. req.page + 1 \in Int /\ req.size \in Int
      BY <1>3
    <2> QED
      BY <1>0, <1>1, <1>2, <2>1, AskEffect
  <1>5. req'.page - 1 = req.page
    BY <1>1, <1>3
  <1>6. NothingSkipped'
    <2>1. PagesRead' = PagesRead
      BY <1>2, <1>4, <1>5 DEF PagesRead
    <2> QED
      BY <1>1, <1>2, <2>1, QuietWalk DEF ListingInv
  <1>7. WalkInRange'
    BY <1>1, <1>3, <1>4, <1>5, Ranges DEF WalkInRange
  <1> QED
    BY <1>4, <1>6, <1>7 DEF ListingInv, Counted, WalkSeesAll, ShownInRange

(* The count is right when it is taken.                                    *)
LEMMA CountKeeps ==
    ASSUME ListingInv, CountEventsFiltered
    PROVE  ListingInv'
  <1>0. TypeInv
    BY DEF ListingInv
  <1>1. /\ req.pc = "count" /\ req'.page = req.page /\ req'.size = req.size
        /\ \/ req'.pc = "list" /\ req'.total = Cardinality(Matching)
           \/ req'.pc = "failed"
        /\ TypeInv'
    BY <1>0, CountEffect DEF SamePage
  <1>2. UNCHANGED <<table, walk>>
    BY DEF CountEventsFiltered
  <1>3. NothingSkipped'
    <2>1. PagesRead' = PagesRead
      BY <1>1 DEF PagesRead
    <2> QED
      BY <1>1, <1>2, <2>1, QuietWalk DEF ListingInv
  <1>4. Counted'
    <2>1. Matching' = Matching /\ Matching \in SUBSET Rows
      BY <1>2 DEF Matching
    <2>2. Cardinality(Matching) \in Nat
      BY <2>1, RowSets, Ranges
    <2> QED
      BY <1>1, <2>1, <2>2 DEF Counted
  <1>5. WalkInRange'
    BY <1>1, <1>2 DEF ListingInv, WalkInRange
  <1> QED
    BY <1>1, <1>3, <1>4, <1>5 DEF ListingInv, WalkSeesAll, ShownInRange

(* A page that is answered with rows on it starts where rows can be.       *)
LEMMA PageShowsRows ==
    ASSUME TypeInv, NEW s \in Listings, Offset(req.page, req.size) >= 0,
           PageOfListing(s, Offset(req.page, req.size), req.size) # {}
    PROVE  \/ (req.page - 1) * req.size < Cardinality(Rows)
           \/ (req.page - 1) * req.size >= 2^OffsetBits
  <1> DEFINE n == (req.page - 1) * req.size
             N == Cardinality(Matching)
  <1>1. n \in Nat /\ req.page \in Int /\ req.size \in Int
    BY ReqFields
  <1>2. N \in Nat /\ N <= Cardinality(Rows)
    BY ReqFields, RowSets, Ranges
  <1>3. DOMAIN s = 1..N
    BY ListingHoldsAll
  <1> SUFFICES ASSUME n >= Cardinality(Rows), n < 2^OffsetBits PROVE FALSE
    BY <1>1, Ranges
  <1>4. Offset(req.page, req.size) = n
    <2> HIDE DEF n
    <2>1. /\ n < 2^(OffsetBits - 1) => Offset(req.page, req.size) = n
          /\ n >= 2^(OffsetBits - 1) => Offset(req.page, req.size) < 0
      BY <1>1, OffsetFits DEF n
    <2>2. CASE n < 2^(OffsetBits - 1)
      BY <2>1, <2>2
    <2>3. CASE n >= 2^(OffsetBits - 1)
      <3>1. Offset(req.page, req.size) < 0 /\ Offset(req.page, req.size) >= 0
        BY <2>1, <2>3
      <3>2. Offset(req.page, req.size) \in Int
        BY <1>1, OffsetType
      <3> QED
        BY <3>1, <3>2
    <2> QED
      BY <1>1, <2>2, <2>3, Ranges
  <1>5. PICK i \in 1..N : i \in (n + 1)..(n + req.size)
    BY <1>3, <1>4 DEF PageOfListing
  <1> HIDE DEF n, N
  <1> QED
    BY <1>1, <1>2, <1>5, Ranges

(* A walk asks for the offset it means.                                    *)
LEMMA WalkOffset ==
    ASSUME TypeInv, (req.page - 1) * req.size <= Cardinality(Rows)
    PROVE  Offset(req.page, req.size) = (req.page - 1) * req.size
  <1>1. PICK n \in Nat : n = (req.page - 1) * req.size
    BY ReqFields
  <1>2. req.page \in Int /\ req.size \in Int
    BY ReqFields
  <1>3. n < 2^(OffsetBits - 1) /\ n < 2^OffsetBits
    BY <1>1, Ranges
  <1> QED
    BY <1>1, <1>2, <1>3, OffsetFits

(* Without ties, a row that is not on page p of the listing but has the    *)
(* pages before p ahead of it has page p ahead of it too.                  *)
LEMMA PageAdvances ==
    ASSUME TypeInv, NEW s \in Listings, ~Tied, NEW r \in Matching,
           NEW n \in Nat, n = (req.page - 1) * req.size,
           r \notin PageOfListing(s, n, req.size),
           Cardinality(Ahead(r)) >= n
    PROVE  Cardinality(Ahead(r)) >= n + req.size
  <1> DEFINE N == Cardinality(Matching)
  <1>1. PICK i \in 1..N : s[i] = r
    BY ListingHoldsAll
  <1>2. DOMAIN s = 1..N
    BY ListingHoldsAll
  <1>3. Cardinality(Ahead(r)) = i - 1
    BY <1>1, ListingOrder
  <1>4. i \notin (n + 1)..(n + req.size)
    BY <1>1, <1>2 DEF PageOfListing
  <1>5. i \in Nat /\ req.size \in Nat
    BY ReqFields
  <1> HIDE DEF N
  <1> QED
    BY <1>3, <1>4, <1>5

(* Reading a page: what it does not show is still ahead, and after the     *)
(* last announced page nothing is.                                         *)
LEMMA ListKeeps ==
    ASSUME ListingInv, ListEventsFiltered
    PROVE  ListingInv'
  <1> DEFINE n == (req.page - 1) * req.size
  <1>0. TypeInv
    BY DEF ListingInv
  <1>1. /\ req.pc = "list" /\ req'.page = req.page /\ req'.size = req.size
        /\ req'.torn = req.torn /\ req'.total = req.total
        /\ walk'.on = walk.on /\ walk'.stayed = walk.stayed
        /\ walk'.left = walk.left
        /\ TypeInv'
    BY <1>0, ListEffect DEF SamePage
  <1>2. UNCHANGED table
    BY DEF ListEventsFiltered
  <1>3. WalkInRange'
    <2>1. req'.pc # "idle"
      BY <1>0, ListEffect
    <2> QED
      BY <1>1, <2>1 DEF ListingInv, WalkInRange
  <1>4. CASE req'.pc = "failed" /\ walk' = walk
    <2>1. PagesRead' = PagesRead
      BY <1>1, <1>4 DEF PagesRead
    <2>2. NothingSkipped'
      BY <1>1, <1>2, <1>4, <2>1, QuietWalk DEF ListingInv
    <2> QED
      BY <1>1, <1>3, <1>4, <2>2 DEF ListingInv, Counted, WalkSeesAll, ShownInRange
  <1>5. ASSUME req'.pc = "answered", NEW s \in Listings,
               Offset(req.page, req.size) >= 0,
               req'.shown = PageOfListing(s, Offset(req.page, req.size), req.size),
               walk.on => /\ walk'.seen = walk.seen \cup req'.shown
                          /\ walk'.tied = (walk.tied \/ Tied)
        PROVE  ListingInv'
    <2>1. ShownInRange'
      BY <1>0, <1>1, <1>5, PageShowsRows DEF ShownInRange
    <2>2. /\ Matching' = Matching /\ \A r : Ahead(r)' = Ahead(r)
          /\ walk.stayed \subseteq Matching
      BY <1>2 DEF Matching, Ahead, ListingInv, NothingSkipped
    <2>3. n \in Nat /\ req.size \in Nat \ {0} /\ req.page \in Nat \ {0}
          /\ req.page * req.size = n + req.size
      BY <1>0, ReqFields
    <2>4. ASSUME walk.on, ~walk'.left, ~walk'.tied
          PROVE  /\ \A r \in walk.stayed \ walk'.seen :
                       Cardinality(Ahead(r)) >= req.page * req.size
                 /\ walk'.seen = {} => walk.stayed = {}
      <3>1. /\ walk'.seen = walk.seen \cup req'.shown
            /\ ~Tied /\ Undisturbed
        BY <1>1, <1>5, <2>4 DEF Undisturbed
      <3>2. req'.shown = PageOfListing(s, n, req.size)
        BY <1>0, <1>5, <2>4, WalkOffset DEF ListingInv, WalkInRange
      <3>3. /\ \A r \in walk.stayed \ walk.seen : Cardinality(Ahead(r)) >= n
            /\ req.page - 1 # 0 /\ walk.seen = {} => walk.stayed = {}
        BY <1>1, <3>1 DEF ListingInv, NothingSkipped, PagesRead
      <3> HIDE DEF n
      <3>4. ASSUME NEW r \in walk.stayed \ walk'.seen
            PROVE  Cardinality(Ahead(r)) >= req.page * req.size
        <4>1. r \in Matching /\ r \in walk.stayed \ walk.seen
              /\ r \notin PageOfListing(s, n, req.size)
          BY <2>2, <3>1, <3>2
        <4>2. Cardinality(Ahead(r)) >= n
          BY <3>3, <4>1
        <4> QED
          BY <1>0, <2>3, <3>1, <4>1, <4>2, PageAdvances DEF n
      <3>5. ASSUME walk'.seen = {}, NEW r \in walk.stayed
            PROVE  FALSE
        <4>1. walk.seen = {} /\ PageOfListing(s, n, req.size) = {}
          BY <3>1, <3>2, <3>5
        <4>2. req.page = 1
          BY <2>3, <3>3, <3>5, <4>1
        <4>3. n = 0
          BY <2>3, <4>2 DEF n
        <4>4. r \in Matching
          BY <2>2, <3>5
        <4>5. PICK i \in 1..Cardinality(Matching) : s[i] = r
          BY <4>4, ListingHoldsAll
        <4>6. Cardinality(Matching) \in Nat
          BY <1>0, ReqFields, RowSets, Ranges
        <4>7. 1 \in 1..Cardinality(Matching) /\ 1 \in (0 + 1)..(0 + req.size)
          BY <2>3, <4>5, <4>6
        <4>8. DOMAIN s = 1..Cardinality(Matching)
          BY ListingHoldsAll
        <4>9. s[1] \in PageOfListing(s, 0, req.size)
          BY <4>7, <4>8 DEF PageOfListing
        <4> QED
          BY <4>1, <4>3, <4>9
      <3> QED
        BY <3>4, <3>5
    <2>5. PagesRead' = req.page
      BY <1>1, <1>5 DEF PagesRead
    <2>6. NothingSkipped'
      BY <1>1, <2>2, <2>4, <2>5 DEF NothingSkipped, Undisturbed
    <2>7. WalkSeesAll'
      <3> SUFFICES ASSUME walk'.on, req'.page >= TotalPages(req'.total, req'.size),
                          ~req'.torn, ~walk'.left, ~walk'.tied,
                          NEW r \in walk'.stayed, r \notin walk'.seen
                   PROVE  FALSE
        BY DEF WalkSeesAll
      <3>1. /\ Cardinality(Ahead(r)) >= req.page * req.size
            /\ r \in Matching /\ r \in Rows
        BY <1>1, <2>2, <2>4 DEF Matching
      <3>2. req.page * req.size >= req.total
        <4>1. req.total \in Nat
          BY <1>0, ReqFields
        <4> QED
          BY <1>1, <2>3, <4>1, PagesCover
      <3>3. Cardinality(Matching) <= req.total
        BY <1>1 DEF ListingInv, Counted
      <3>4. /\ Cardinality(Ahead(r)) < Cardinality(Matching)
            /\ Cardinality(Ahead(r)) \in Nat
        BY <1>0, <3>1, AheadCounts
      <3>5. /\ req.page * req.size \in Nat /\ req.total \in Nat
            /\ Cardinality(Matching) \in Nat
        BY <1>0, ReqFields, RowSets, Ranges
      <3> QED
        BY <3>1, <3>2, <3>3, <3>4, <3>5
    <2> QED
      BY <1>1, <1>3, <1>5, <2>1, <2>6, <2>7 DEF ListingInv, Counted
  <1> QED
    BY <1>0, <1>4, <1>5, ListEffect

(* A row that comes in moves rows back, never forward.                     *)
LEMMA EnterKeeps ==
    ASSUME ListingInv, TypeInv', NEW r \in Rows, Enters(r),
           walk'.on = walk.on, walk'.tied = walk.tied, walk'.seen = walk.seen,
           walk'.stayed \subseteq walk.stayed, walk.left => walk'.left
    PROVE  ListingInv'
  <1>1. /\ req'.pc = req.pc /\ req'.page = req.page /\ req'.size = req.size
        /\ req'.total = req.total /\ req'.shown = req.shown
        /\ (req.torn => req'.torn) /\ (req.pc = "list" => req'.torn)
        /\ r \notin Matching /\ Matching' = Matching \cup {r}
        /\ \A q \in Rows \ {r} : table'[q] = table[q]
    BY DEF Enters, OnlyTorn, SamePage
  <1>2. PagesRead' = PagesRead
    BY <1>1 DEF PagesRead
  <1>3. TypeInv /\ walk.stayed \subseteq Matching
    BY DEF ListingInv, NothingSkipped
  <1>4. ASSUME NEW q \in Matching
        PROVE  Cardinality(Ahead(q)') >= Cardinality(Ahead(q))
    <2>1. q \in Rows \ {r} /\ Matching \subseteq Rows \ {r}
      BY <1>1 DEF Matching
    <2>2. Ahead(q) \subseteq Ahead(q)'
      BY <1>1, <2>1 DEF Ahead
    <2>3. Ahead(q)' \in SUBSET Rows
      BY DEF Ahead, Matching
    <2>4. Cardinality(Ahead(q)) <= Cardinality(Ahead(q)')
      BY <2>2, <2>3, RowSets
    <2>5. Cardinality(Ahead(q)) \in Nat /\ Cardinality(Ahead(q)') \in Nat
      BY <1>3, <2>1, <2>3, AheadCounts, RowSets, Ranges
    <2> QED
      BY <2>4, <2>5
  <1>5. NothingSkipped'
    <2>1. walk'.stayed \subseteq Matching'
      BY <1>1, <1>3
    <2>2. ASSUME Undisturbed', NEW q \in walk'.stayed \ walk'.seen
          PROVE  Cardinality(Ahead(q)') >= PagesRead * req.size
      <3>1. q \in walk.stayed \ walk.seen /\ q \in Matching /\ q \in Rows
        BY <1>3, <2>2 DEF Matching
      <3>2. Cardinality(Ahead(q)) >= PagesRead * req.size
        BY <2>2, <3>1 DEF ListingInv, NothingSkipped, Undisturbed
      <3>3. Cardinality(Ahead(q)') >= Cardinality(Ahead(q))
        BY <1>4, <3>1
      <3>4. /\ Cardinality(Ahead(q)) \in Nat /\ Cardinality(Ahead(q)') \in Nat
            /\ PagesRead * req.size \in Nat
        <4>1. Ahead(q)' \in SUBSET Rows
          BY DEF Ahead, Matching
        <4>2. Cardinality(Ahead(q)') \in Nat
          BY <4>1, RowSets, Ranges
        <4>3. PagesRead * req.size \in Nat
          BY <1>3, ReqFields DEF PagesRead
        <4> QED
          BY <1>3, <3>1, <4>2, <4>3, AheadCounts
      <3> QED
        BY <3>2, <3>3, <3>4
    <2>3. ASSUME Undisturbed', PagesRead' # 0, walk'.seen = {}
          PROVE  walk'.stayed = {}
      BY <1>2, <2>3 DEF ListingInv, NothingSkipped, Undisturbed
    <2> QED
      BY <1>1, <1>2, <2>1, <2>2, <2>3 DEF NothingSkipped
  <1>6. Counted' /\ WalkInRange' /\ ShownInRange'
    BY <1>1 DEF ListingInv, Counted, WalkInRange, ShownInRange
  <1>7. WalkSeesAll'
    BY <1>1 DEF ListingInv, WalkSeesAll
  <1> QED
    BY <1>5, <1>6, <1>7 DEF ListingInv

(* A row that leaves disturbs the walk, or the walk has seen nothing and,  *)
(* once it has read a page, has nothing to see.                            *)
LEMMA LeaveKeeps ==
    ASSUME ListingInv, TypeInv', NEW r \in Rows, Leaves(r),
           walk'.on = walk.on, walk'.tied = walk.tied, walk'.seen = walk.seen,
           walk'.stayed = walk.stayed \ {r}, walk.left => walk'.left
    PROVE  ListingInv'
  <1>1. /\ req'.pc = req.pc /\ req'.page = req.page /\ req'.size = req.size
        /\ req'.total = req.total /\ req'.shown = req.shown
        /\ (req.torn => req'.torn)
        /\ Matching' = Matching \ {r} /\ (walk.seen # {} => walk'.left)
    BY DEF Leaves, OnlyTorn, SamePage
  <1>2. PagesRead' = PagesRead
    BY <1>1 DEF PagesRead
  <1>3. TypeInv /\ walk.stayed \subseteq Matching
    BY DEF ListingInv, NothingSkipped
  <1>4. NothingSkipped'
    <2>1. walk'.stayed \subseteq Matching'
      BY <1>1, <1>3
    <2>2. ASSUME Undisturbed'
          PROVE  Undisturbed /\ walk.seen = {}
      BY <1>1, <2>2 DEF Undisturbed
    <2>3. ASSUME Undisturbed', PagesRead # 0
          PROVE  walk'.stayed = {}
      BY <2>2, <2>3 DEF ListingInv, NothingSkipped
    <2>4. ASSUME PagesRead = 0, NEW q \in Rows
          PROVE  Cardinality(Ahead(q)') >= PagesRead' * req'.size
      <3>1. Ahead(q)' \in SUBSET Rows
        BY DEF Ahead, Matching
      <3>2. Cardinality(Ahead(q)') \in Nat
        BY <3>1, RowSets, Ranges
      <3>3. req.size \in Nat
        BY <1>3, ReqFields
      <3>4. PagesRead' * req'.size = 0
        BY <1>1, <1>2, <2>4, <3>3
      <3> QED
        BY <3>2, <3>4
    <2>5. walk'.stayed \subseteq Rows
      BY <1>3 DEF Matching
    <2> QED
      BY <1>2, <2>1, <2>3, <2>4, <2>5 DEF NothingSkipped
  <1>5. Counted'
    <2>1. Matching' \in SUBSET Matching /\ Matching \in SUBSET Rows
      BY <1>1 DEF Matching
    <2>2. Cardinality(Matching') <= Cardinality(Matching)
      BY <2>1, RowSets
    <2>3. /\ Cardinality(Matching') \in Nat /\ Cardinality(Matching) \in Nat
          /\ req.total \in Nat
      BY <1>3, <2>1, RowSets, ReqFields, Ranges
    <2> QED
      BY <1>1, <2>2, <2>3 DEF ListingInv, Counted
  <1>6. WalkInRange' /\ ShownInRange'
    BY <1>1 DEF ListingInv, WalkInRange, ShownInRange
  <1>7. WalkSeesAll'
    BY <1>1 DEF ListingInv, WalkSeesAll
  <1> QED
    BY <1>4, <1>5, <1>6, <1>7 DEF ListingInv

(* The invariant holds before the first request.                           *)
LEMMA InitListing == Init => ListingInv
  <1> SUFFICES ASSUME Init PROVE ListingInv
    OBVIOUS
  <1>1. /\ NoRequest \in RequestState /\ NoRequest.pc = "idle"
        /\ NoWalk \in WalkState /\ NoWalk.stayed = {} /\ ~NoWalk.on
    BY ListingAssumption, Ranges
       DEF NoRequest, NoWalk, RequestState, WalkState
  <1>2. table \in [Rows -> Row]
    <2>1. {NoRow} \cup [at : Times, match : BOOLEAN] \subseteq Row
      <3>1. NoRow \in Row
        BY DEF NoRow, Row
      <3>2. ASSUME NEW row \in [at : Times, match : BOOLEAN]
            PROVE  row \in Row
        BY Zenon DEF Row
      <3> QED
        BY <3>1, <3>2
    <2> QED
      BY <2>1 DEF Init
  <1> QED
    BY <1>1, <1>2 DEF Init, ListingInv, TypeInv, Counted, WalkInRange,
          NothingSkipped, Undisturbed, WalkSeesAll, ShownInRange

(* Every step keeps the invariant.                                         *)
LEMMA ListingStep == ListingInv /\ [Next]_vars => ListingInv'
  <1> SUFFICES ASSUME ListingInv, [Next]_vars PROVE ListingInv'
    OBVIOUS
  <1>0. /\ TypeInv /\ walk.stayed \subseteq Matching
        /\ req.pc = "idle" => ~walk.on
    BY DEF ListingInv, NothingSkipped, WalkInRange
  <1>1. ASSUME NEW page \in PageParams, NEW size \in SizeParams,
               AskForPage(page, size)
        PROVE  ListingInv'
    <2>1. page \in Int /\ size \in Int
      BY ListingAssumption
    <2>2. /\ req.pc = "idle" /\ HandleListTasks(page, size)
          /\ UNCHANGED <<table, walk>>
      BY <1>1 DEF AskForPage
    <2>3. TypeInv' /\ req'.pc = "count"
      BY <1>0, <2>1, <2>2, AskEffect
    <2> QED
      BY <1>0, <2>2, <2>3, OutsideWalk
  <1>2. ASSUME NEW size \in SizeParams, StartWalk(size)
        PROVE  ListingInv'
    <2>1. size \in Int
      BY ListingAssumption
    <2> QED
      BY <1>2, <2>1, StartKeeps
  <1>3. CASE NextPage
    BY <1>3, NextPageKeeps
  <1>4. CASE CountEventsFiltered
    BY <1>4, CountKeeps
  <1>5. CASE ListEventsFiltered
    BY <1>5, ListKeeps
  <1>6. CASE EndRequest
    <2>1. TypeInv' /\ req'.pc = "idle" /\ ~walk'.on /\ walk'.stayed = {}
      BY <1>0, <1>6, EndEffect
    <2> QED
      BY <1>0, <1>6, <2>1, OutsideWalk DEF EndRequest
  <1>7. ASSUME NEW r \in Rows, UpdateEventStatus(r)
        PROVE  ListingInv'
    BY <1>0, <1>7, UpdateEffect, EnterKeeps, LeaveKeeps
  <1>8. ASSUME NEW r \in Rows, NEW at \in Times, InsertEvent(r, at)
        PROVE  ListingInv'
    BY <1>0, <1>8, InsertEffect, EnterKeeps
  <1>9. CASE UNCHANGED vars
    <2>1. Matching' = Matching /\ \A r : Ahead(r)' = Ahead(r)
      BY <1>9 DEF vars, Matching, Ahead
    <2>2. PagesRead' = PagesRead
      BY <1>9 DEF vars, PagesRead
    <2> QED
      BY <1>9, <2>1, <2>2 DEF vars, ListingInv, TypeInv, Counted, WalkInRange,
            NothingSkipped, Undisturbed, WalkSeesAll, ShownInRange
  <1> QED
    BY <1>1, <1>2, <1>3, <1>4, <1>5, <1>6, <1>7, <1>8, <1>9 DEF Next

(* ListingInv holds in every reachable state.                              *)
LEMMA ListingInvariant == Spec => []ListingInv
  BY InitListing, ListingStep, PTL DEF Spec

-----------------------------------------------------------------------------
(* The theorems.                                                           *)

(* GET /api/admin/tasks: whatever is inserted and updated between the two  *)
(* statements of a request and between requests, a walk through all the    *)
(* pages announced sees every task that matched all along, unless the walk *)
(* was disturbed in one of the ways WalkSeesAll names.                     *)
THEOREM WalkMissesNothing == Spec => []WalkSeesAll
  <1>1. ListingInv => WalkSeesAll
    BY DEF ListingInv
  <1> QED
    BY <1>1, ListingInvariant, PTL

(* Neither the int product nor its conversion to int32 makes one page pass *)
(* for another, up to an offset of 2^32.                                   *)
THEOREM PagesStayDistinct == Spec => []PageIsItsOwn
  <1>1. ASSUME ListingInv, req.pc = "list",
               req.page <= TotalPages(req.total, req.size)
        PROVE  Offset(req.page, req.size) = (req.page - 1) * req.size
    <2>0. TypeInv
      BY <1>1 DEF ListingInv
    <2>1. /\ req.page \in Nat \ {0} /\ req.size \in Nat \ {0}
          /\ req.page - 1 \in Nat /\ req.total \in 0..Cardinality(Rows)
          /\ req.total \in Nat /\ (req.page - 1) * req.size \in Nat
      BY <2>0, ReqFields
    <2>2. TotalPages(req.total, req.size) \in Nat
      BY <2>1, PagesCover
    <2>3. req.page - 1 < TotalPages(req.total, req.size)
      BY <1>1, <2>1, <2>2
    <2>4. (req.page - 1) * req.size < req.total
      BY <2>1, <2>3, PagesCover
    <2>5. (req.page - 1) * req.size <= Cardinality(Rows)
      BY <2>1, <2>4, Ranges
    <2> QED
      BY <2>0, <2>5, WalkOffset
  <1>2. ListingInv => PageIsItsOwn
    BY <1>1 DEF ListingInv, ShownInRange, PageIsItsOwn
  <1> QED
    BY <1>2, ListingInvariant, PTL
=============================================================================
