---------------------------- MODULE ListingProofs ----------------------------
(***************************************************************************)
(* The two paginated lists for any number of users, organizations and      *)
(* memberships, any clock and any page size.                               *)
(*                                                                         *)
(* Both lists are an initial segment of an ordered set, cut into pages.    *)
(* The first part states what that means for any finite ordered set: a row *)
(* is in the first n rows when fewer than n rows come before it.           *)
(***************************************************************************)
EXTENDS ListingProperties, FiniteSetTheorems, WellFoundedInduction, TLAPS

USE NumbersOrdered, NoneIsNoValue

-----------------------------------------------------------------------------
(* Finite ordered sets.  before[x] are the elements that come before x. *)

Ordered(S, before) ==
  /\ IsFiniteSet(S)
  /\ before \in [S -> SUBSET S]
  /\ \A x \in S : x \notin before[x]
  /\ \A x, y \in S : x \in before[y] => before[x] \subseteq before[y]
  /\ \A x, y \in S : x = y \/ x \in before[y] \/ y \in before[x]

Initial(S, before, n) == {x \in S : Cardinality(before[x]) < n}

LEMMA LeastNumber ==
  ASSUME NEW N \in SUBSET Nat, N # {}
  PROVE  \E n \in N : \A k \in N : n <= k
<1>1. PICK n \in N : \A k \in N : <<k, n>> \notin OpToRel(<, Nat)
  BY NatLessThanWellFounded, WFMin
<1>2. \A k \in N : ~(k < n)
  BY <1>1 DEF OpToRel
<1>3. QED BY <1>2

LEMMA GreatestNumber ==
  ASSUME NEW N \in SUBSET Nat, N # {}, NEW bound \in Nat, \A k \in N : k <= bound
  PROVE  \E n \in N : \A k \in N : k <= n
<1> DEFINE Gaps == {bound - k : k \in N}
<1>1. \A k \in N : k \in Nat /\ k <= bound /\ bound - k \in Nat
  OBVIOUS
<1>2. Gaps \in SUBSET Nat /\ Gaps # {}
  BY <1>1
<1>3. PICK g \in Gaps : \A h \in Gaps : g <= h
  BY <1>2, LeastNumber
<1>4. PICK n \in N : g = bound - n
  OBVIOUS
<1>5. \A k \in N : bound - n <= bound - k
  BY <1>3, <1>4
<1>6. QED BY <1>1, <1>5

(* The later of two elements has more elements before it. *)
LEMMA RanksGrow ==
  ASSUME NEW S, NEW before, Ordered(S, before)
  PROVE  /\ \A x \in S : IsFiniteSet(before[x]) /\ Cardinality(before[x]) \in Nat
         /\ \A x, y \in S :
              x \in before[y] <=> Cardinality(before[x]) < Cardinality(before[y])
<1>1. ASSUME NEW x \in S
      PROVE  IsFiniteSet(before[x]) /\ Cardinality(before[x]) \in Nat
  <2>1. before[x] \in SUBSET S /\ IsFiniteSet(S)
    BY DEF Ordered
  <2>2. IsFiniteSet(before[x])
    BY <2>1, FS_Subset
  <2>3. QED BY <2>2, FS_CardinalityType
<1>2. ASSUME NEW x \in S, NEW y \in S, x \in before[y]
      PROVE  Cardinality(before[x]) < Cardinality(before[y])
  <2>1. before[x] \in SUBSET before[y] /\ x \notin before[x]
    BY <1>2 DEF Ordered
  <2>2. IsFiniteSet(before[y]) /\ Cardinality(before[y]) \in Nat /\ Cardinality(before[x]) \in Nat
    BY <1>1
  <2>3. Cardinality(before[x]) <= Cardinality(before[y])
        /\ (Cardinality(before[y]) = Cardinality(before[x]) => before[y] = before[x])
    BY <2>1, <2>2, FS_Subset
  <2>4. QED BY <1>2, <2>1, <2>2, <2>3
<1>3. ASSUME NEW x \in S, NEW y \in S, Cardinality(before[x]) < Cardinality(before[y])
      PROVE  x \in before[y]
  <2>1. x = y \/ x \in before[y] \/ y \in before[x]
    BY DEF Ordered
  <2>2. Cardinality(before[x]) \in Nat /\ Cardinality(before[y]) \in Nat
    BY <1>1
  <2>3. y \notin before[x]
    BY <1>2, <1>3, <2>2
  <2>4. x # y
    BY <1>3, <2>2
  <2>5. QED BY <2>1, <2>3, <2>4
<1>4. QED BY <1>1, <1>2, <1>3

(* An initial segment holds all elements before each of its own. *)
LEMMA InitialClosed ==
  ASSUME NEW S, NEW before, Ordered(S, before), NEW n \in Nat,
         NEW y \in Initial(S, before, n), NEW x \in S, x \in before[y]
  PROVE  x \in Initial(S, before, n)
<1>1. /\ Cardinality(before[x]) \in Nat /\ Cardinality(before[y]) \in Nat
      /\ Cardinality(before[x]) < Cardinality(before[y])
      /\ Cardinality(before[y]) < n
  BY RanksGrow DEF Initial
<1>2. QED BY <1>1 DEF Initial

(* What is outside an initial segment comes after all of it. *)
LEMMA InitialFirst ==
  ASSUME NEW S, NEW before, Ordered(S, before), NEW n \in Nat,
         NEW y \in Initial(S, before, n), NEW x \in S \ Initial(S, before, n)
  PROVE  y \in before[x]
<1>1. /\ Cardinality(before[x]) \in Nat /\ Cardinality(before[y]) \in Nat
      /\ Cardinality(before[y]) < n /\ ~(Cardinality(before[x]) < n)
  BY RanksGrow DEF Initial
<1>2. y \in S /\ Cardinality(before[y]) < Cardinality(before[x])
  BY <1>1 DEF Initial
<1>3. QED BY <1>2, RanksGrow

LEMMA InitialFinite ==
  ASSUME NEW S, NEW before, Ordered(S, before), NEW n \in Nat
  PROVE  /\ IsFiniteSet(Initial(S, before, n))
         /\ Cardinality(Initial(S, before, n)) \in Nat
         /\ Cardinality(Initial(S, before, n)) <= n
<1> DEFINE T == Initial(S, before, n)
           rank == [x \in T |-> Cardinality(before[x]) + 1]
<1>1. IsFiniteSet(T) /\ Cardinality(T) \in Nat
  <2>1. T \in SUBSET S /\ IsFiniteSet(S)
    BY DEF Initial, Ordered
  <2>2. IsFiniteSet(T)
    BY <2>1, FS_Subset
  <2>3. QED BY <2>2, FS_CardinalityType
<1>2. \A x \in T : x \in S /\ Cardinality(before[x]) \in Nat /\ Cardinality(before[x]) < n
  BY RanksGrow DEF Initial
<1>3. rank \in [T -> 1..n]
  BY <1>2
<1>4. \A x, y \in T : rank[x] = rank[y] => x = y
  <2> SUFFICES ASSUME NEW x \in T, NEW y \in T, rank[x] = rank[y] PROVE x = y
    OBVIOUS
  <2>1. Cardinality(before[x]) = Cardinality(before[y])
    BY <1>2
  <2>2. x \notin before[y] /\ y \notin before[x]
    BY <1>2, <2>1, RanksGrow
  <2>3. QED BY <1>2, <2>2 DEF Ordered
<1>5. rank \in Injection(T, 1..n)
  BY <1>3, <1>4 DEF Injection, IsInjective
<1>6. IsFiniteSet(1..n) /\ Cardinality(1..n) = n
  BY FS_Interval
<1>7. Cardinality(T) <= Cardinality(1..n)
  BY <1>5, <1>6, FS_Injection
<1>8. QED BY <1>1, <1>6, <1>7

(* A segment that leaves something out is full. *)
LEMMA InitialFull ==
  ASSUME NEW S, NEW before, Ordered(S, before), NEW n \in Nat,
         NEW x \in S \ Initial(S, before, n)
  PROVE  Cardinality(Initial(S, before, n)) = n
<1> DEFINE T == Initial(S, before, n)
           Ranks == {Cardinality(before[y]) : y \in S \ T}
<1>1. Ranks \in SUBSET Nat /\ Ranks # {}
  BY RanksGrow
<1>2. PICK least \in Ranks : \A k \in Ranks : least <= k
  BY <1>1, LeastNumber
<1>3. PICK y \in S \ T : least = Cardinality(before[y])
  OBVIOUS
<1>4. before[y] \in SUBSET T
  <2> SUFFICES ASSUME NEW z \in before[y], z \notin T PROVE FALSE
    BY DEF Ordered
  <2>1. z \in S
    BY DEF Ordered
  <2>2. Cardinality(before[z]) < Cardinality(before[y])
        /\ Cardinality(before[z]) \in Nat /\ Cardinality(before[y]) \in Nat
    BY <2>1, RanksGrow
  <2>3. Cardinality(before[z]) \in Ranks
    BY <2>1
  <2>4. QED BY <1>2, <1>3, <2>2, <2>3
<1>5. IsFiniteSet(T) /\ Cardinality(T) \in Nat /\ Cardinality(T) <= n
  BY InitialFinite
<1>6. Cardinality(before[y]) <= Cardinality(T)
  BY <1>4, <1>5, FS_Subset
<1>7. Cardinality(before[y]) \in Nat /\ ~(Cardinality(before[y]) < n)
  BY RanksGrow DEF Initial
<1>8. QED BY <1>5, <1>6, <1>7

(* One element more than a page was asked for, and there is none: the page *)
(* is the rest.                                                            *)
LEMMA InitialWhole ==
  ASSUME NEW S, NEW before, Ordered(S, before), NEW n \in Nat,
         Cardinality(Initial(S, before, n + 1)) <= n
  PROVE  Initial(S, before, n) = S
<1> DEFINE T == Initial(S, before, n)
           U == Initial(S, before, n + 1)
<1> SUFFICES ASSUME NEW x \in S \ T PROVE FALSE
  BY DEF Initial
<1>1. Cardinality(T) = n /\ IsFiniteSet(T)
  BY InitialFull, InitialFinite
<1>2. n + 1 \in Nat /\ IsFiniteSet(U) /\ Cardinality(U) \in Nat
  BY InitialFinite
<1>3. x \in U
  BY <1>2, InitialFull
<1>4. T \cup {x} \in SUBSET U
  BY <1>3, RanksGrow DEF Initial
<1>5. Cardinality(T \cup {x}) = n + 1
  BY <1>1, FS_AddElement
<1>6. Cardinality(T \cup {x}) <= Cardinality(U)
  BY <1>2, <1>4, FS_Subset
<1>7. QED BY <1>2, <1>5, <1>6

(* A segment that is not empty has a last element. *)
LEMMA InitialLast ==
  ASSUME NEW S, NEW before, Ordered(S, before), NEW n \in Nat,
         Initial(S, before, n) # {}
  PROVE  \E x \in Initial(S, before, n) : \A y \in Initial(S, before, n) : x \notin before[y]
<1> DEFINE T == Initial(S, before, n)
           Ranks == {Cardinality(before[y]) : y \in T}
<1>1. \A y \in T : y \in S /\ Cardinality(before[y]) \in Nat /\ Cardinality(before[y]) <= n
  BY RanksGrow DEF Initial
<1>2. Ranks \in SUBSET Nat /\ Ranks # {} /\ \A k \in Ranks : k <= n
  BY <1>1
<1>3. PICK greatest \in Ranks : \A k \in Ranks : k <= greatest
  BY <1>2, GreatestNumber
<1>4. PICK x \in T : greatest = Cardinality(before[x])
  OBVIOUS
<1>5. ASSUME NEW y \in T, x \in before[y] PROVE FALSE
  <2>1. Cardinality(before[x]) < Cardinality(before[y])
    BY <1>1, <1>5, RanksGrow
  <2>2. Cardinality(before[y]) <= Cardinality(before[x])
    BY <1>3, <1>4
  <2>3. QED BY <1>1, <2>1, <2>2
<1>6. QED BY <1>5

(* A page by offset, and the row more that tells whether there is another. *)
Slice(S, before, offset, n) == Initial(S, before, offset + n) \ Initial(S, before, offset)

LEMMA SliceOfSlice ==
  ASSUME NEW S, NEW before, Ordered(S, before), NEW offset \in Nat, NEW n \in Nat
  PROVE  LET fetched == Slice(S, before, offset, n + 1) IN
         {x \in fetched : Cardinality(before[x] \cap fetched) < n} = Slice(S, before, offset, n)
<1> DEFINE A == Initial(S, before, offset)
           B == Initial(S, before, offset + n)
           C == Initial(S, before, offset + (n + 1))
           fetched == C \ A
<1>1. offset + n \in Nat /\ offset + (n + 1) \in Nat
  OBVIOUS
<1>2. B \subseteq C /\ C \subseteq S
  BY <1>1, RanksGrow DEF Initial
<1>3. ASSUME NEW x \in fetched
      PROVE  Cardinality(before[x] \cap fetched) < n <=> x \in B
  <2>1. x \in S /\ x \in S \ A /\ x \in C
    BY <1>2
  <2>2. before[x] \subseteq C
    <3>1. before[x] \subseteq S
      BY <2>1 DEF Ordered
    <3>2. QED BY <1>1, <2>1, <3>1, InitialClosed
  <2>3. A \subseteq before[x]
    BY <2>1, InitialFirst
  <2>4. Cardinality(A) = offset
    BY <2>1, InitialFull
  <2>5. before[x] \cap fetched = before[x] \ A /\ before[x] \cap A = A
    BY <2>2, <2>3
  <2>6. IsFiniteSet(before[x]) /\ Cardinality(before[x]) \in Nat
    BY <2>1, RanksGrow
  <2>7. Cardinality(before[x] \ A) = Cardinality(before[x]) - offset
    BY <2>4, <2>5, <2>6, FS_Difference
  <2>8. Cardinality(before[x]) - offset < n <=> Cardinality(before[x]) < offset + n
    BY <2>6
  <2>9. QED BY <2>1, <2>5, <2>7, <2>8 DEF Initial
<1>4. QED BY <1>2, <1>3 DEF Slice

LEMMA SliceWhole ==
  ASSUME NEW S, NEW before, Ordered(S, before), NEW offset \in Nat, NEW n \in Nat,
         Cardinality(Slice(S, before, offset, n + 1)) <= n
  PROVE  Initial(S, before, offset + n) = S
<1> DEFINE A == Initial(S, before, offset)
           C == Initial(S, before, offset + (n + 1))
<1>1. /\ offset + n \in Nat /\ offset + (n + 1) \in Nat
      /\ (offset + n) + 1 = offset + (n + 1)
  OBVIOUS
<1>2. /\ IsFiniteSet(A) /\ Cardinality(A) \in Nat /\ Cardinality(A) <= offset
      /\ IsFiniteSet(C) /\ Cardinality(C) \in Nat
  BY <1>1, InitialFinite
<1>3. Cardinality(C \ A) = Cardinality(C) - Cardinality(C \cap A)
  BY <1>2, FS_Difference
<1>4. Cardinality(C \cap A) \in Nat /\ Cardinality(C \cap A) <= Cardinality(A)
  BY <1>2, FS_Intersection, FS_CardinalityType
<1>5. Cardinality(C) <= offset + n
  BY <1>2, <1>3, <1>4 DEF Slice
<1>6. QED BY <1>1, <1>5, InitialWhole

(* Elements are taken out of an ordered set: T is what is left of S. *)
Thinned(S, before, T, then) ==
  /\ Ordered(S, before) /\ Ordered(T, then)
  /\ T \subseteq S
  /\ \A x \in T : then[x] = before[x] \cap T

LEMMA ThinnedKeeps ==
  ASSUME NEW S, NEW before, NEW T, NEW then, Thinned(S, before, T, then), NEW n \in Nat
  PROVE  Initial(S, before, n) \cap T \subseteq Initial(T, then, n)
<1> SUFFICES ASSUME NEW x \in Initial(S, before, n) \cap T
             PROVE  x \in Initial(T, then, n)
  OBVIOUS
<1>1. /\ IsFiniteSet(before[x]) /\ Cardinality(before[x]) \in Nat
      /\ Cardinality(then[x]) \in Nat /\ Cardinality(before[x]) < n
  BY RanksGrow DEF Thinned, Initial
<1>2. then[x] \in SUBSET before[x]
  BY DEF Thinned
<1>3. Cardinality(then[x]) <= Cardinality(before[x])
  BY <1>1, <1>2, FS_Subset
<1>4. QED BY <1>1, <1>3 DEF Initial

(* As many elements move up into a segment as were taken out at most. *)
LEMMA ThinnedMoves ==
  ASSUME NEW S, NEW before, NEW T, NEW then, Thinned(S, before, T, then), NEW n \in Nat
  PROVE  LET up == Initial(T, then, n) \ Initial(S, before, n) IN
         IsFiniteSet(up) /\ Cardinality(up) \in Nat /\ Cardinality(up) <= Cardinality(S \ T)
<1> DEFINE A == Initial(S, before, n)
           B == Initial(T, then, n)
<1>1. /\ IsFiniteSet(A) /\ Cardinality(A) \in Nat
      /\ IsFiniteSet(B) /\ Cardinality(B) \in Nat /\ Cardinality(B) <= n
  BY InitialFinite DEF Thinned
<1>2. IsFiniteSet(S \ T) /\ Cardinality(S \ T) \in Nat
  <2>1. IsFiniteSet(S)
    BY DEF Thinned, Ordered
  <2>2. IsFiniteSet(S \ T)
    BY <2>1, FS_Difference
  <2>3. QED BY <2>2, FS_CardinalityType
<1>3. IsFiniteSet(B \ A) /\ Cardinality(B \ A) \in Nat
      /\ Cardinality(B \ A) = Cardinality(B) - Cardinality(B \cap A)
  BY <1>1, FS_Difference, FS_CardinalityType
<1>4. CASE B \ A = {}
  <2>1. Cardinality(B \ A) = 0
    BY <1>4, FS_EmptySet
  <2>2. QED BY <1>2, <1>3, <2>1
<1>5. CASE B \ A # {}
  <2>1. PICK x \in B \ A : TRUE
    BY <1>5
  <2>2. x \in S \ A
    BY DEF Initial, Thinned
  <2>3. Cardinality(A) = n
    BY <2>2, InitialFull DEF Thinned
  <2>4. B \cap A = A \ (S \ T)
    BY ThinnedKeeps DEF Initial, Thinned
  <2>5. Cardinality(A \ (S \ T)) = Cardinality(A) - Cardinality(A \cap (S \ T))
    BY <1>1, FS_Difference
  <2>6. Cardinality(A \cap (S \ T)) \in Nat /\ Cardinality(A \cap (S \ T)) <= Cardinality(S \ T)
    BY <1>1, <1>2, FS_Intersection, FS_CardinalityType
  <2>7. QED BY <1>1, <1>2, <1>3, <2>3, <2>4, <2>5, <2>6
<1>6. QED BY <1>4, <1>5

(* None moves up when all that was taken out came after the segment. *)
LEMMA ThinnedAfter ==
  ASSUME NEW S, NEW before, NEW T, NEW then, Thinned(S, before, T, then), NEW n \in Nat,
         Initial(S, before, n) \subseteq T
  PROVE  Initial(T, then, n) = Initial(S, before, n)
<1> DEFINE A == Initial(S, before, n)
           B == Initial(T, then, n)
<1>1. A \subseteq B
  BY ThinnedKeeps
<1>2. ASSUME NEW x \in B \ A PROVE FALSE
  <2>1. x \in S \ A
    BY DEF Initial, Thinned
  <2>2. Cardinality(A) = n
    BY <2>1, InitialFull DEF Thinned
  <2>3. IsFiniteSet(B) /\ Cardinality(B) \in Nat /\ Cardinality(B) <= n
    BY InitialFinite DEF Thinned
  <2>4. A \in SUBSET B /\ A # B
    BY <1>1
  <2>5. Cardinality(A) <= Cardinality(B) /\ Cardinality(B) # Cardinality(A)
    BY <2>3, <2>4, FS_Subset
  <2>6. QED BY <2>2, <2>3, <2>5
<1>3. QED BY <1>1, <1>2

-----------------------------------------------------------------------------
(* Membership rows in the order of their list. *)

(* A set of rows as the table holds them: the id is the primary key. *)
Rows(R) ==
  /\ R \subseteq Membership /\ IsFiniteSet(R)
  /\ \A m, k \in R : m.id = k.id => m = k

RowsBefore(R) == [m \in R |-> {k \in R : Precedes(k, m)}]

LEMMA RowsOrdered ==
  ASSUME NEW R, Rows(R)
  PROVE  Ordered(R, RowsBefore(R))
<1>1. \A m \in R : m.createdAt \in Nat /\ m.id \in Nat
  BY DEF Rows, Membership
<1>2. RowsBefore(R) \in [R -> SUBSET R]
  BY DEF RowsBefore
<1>3. \A m \in R : m \notin RowsBefore(R)[m]
  BY <1>1 DEF RowsBefore, Precedes
<1>4. \A m, k \in R : m \in RowsBefore(R)[k] => RowsBefore(R)[m] \subseteq RowsBefore(R)[k]
  BY <1>1 DEF RowsBefore, Precedes
<1>5. \A m, k \in R : m = k \/ m \in RowsBefore(R)[k] \/ k \in RowsBefore(R)[m]
  <2> SUFFICES ASSUME NEW m \in R, NEW k \in R, ~Precedes(m, k), ~Precedes(k, m) PROVE m = k
    BY DEF RowsBefore
  <2>1. m.id = k.id
    BY <1>1 DEF Precedes
  <2>2. QED BY <2>1 DEF Rows
<1>6. QED BY <1>2, <1>3, <1>4, <1>5 DEF Ordered, Rows

LEMMA FirstRowsInitial ==
  ASSUME NEW R, NEW n
  PROVE  FirstRows(R, n) = Initial(R, RowsBefore(R), n)
  BY DEF FirstRows, Initial, RowsBefore

(* The items of a page are its first rows, with or without the row more. *)
LEMMA FirstRowsOfPage ==
  ASSUME NEW R, Rows(R), NEW n \in Nat
  PROVE  FirstRows(FirstRows(R, n + 1), n) = FirstRows(R, n)
<1> DEFINE before == RowsBefore(R)
           page == FirstRows(R, n + 1)
<1>1. Ordered(R, before) /\ page = Initial(R, before, n + 1) /\ n + 1 \in Nat
  BY RowsOrdered, FirstRowsInitial
<1>2. \A m \in page : m \in R /\ {k \in R : Precedes(k, m)} = {k \in page : Precedes(k, m)}
  <2> SUFFICES ASSUME NEW m \in page
               PROVE  m \in R /\ {k \in R : Precedes(k, m)} = {k \in page : Precedes(k, m)}
    OBVIOUS
  <2>1. page \subseteq R
    BY DEF FirstRows
  <2>2. ASSUME NEW k \in R, Precedes(k, m) PROVE k \in page
    <3>1. m \in R /\ k \in before[m]
      BY <2>1, <2>2 DEF RowsBefore
    <3>2. QED BY <1>1, <3>1, InitialClosed
  <2>3. QED BY <2>1, <2>2
<1>3. FirstRows(R, n) \subseteq page
  <2>1. \A m \in R : Cardinality(before[m]) \in Nat
    BY <1>1, RanksGrow
  <2>2. Initial(R, before, n) \subseteq Initial(R, before, n + 1)
    BY <2>1 DEF Initial
  <2>3. QED BY <1>1, <2>2, FirstRowsInitial
<1>4. QED BY <1>2, <1>3 DEF FirstRows

(* What a page of n rows and one row more tells about the list R. *)
LEMMA PageOfRows ==
  ASSUME NEW R, Rows(R), NEW n \in Nat \ {0}, NEW items, items = FirstRows(R, n)
  PROVE  /\ items \subseteq R
         /\ ~(Cardinality(FirstRows(R, n + 1)) > n) => items = R
         /\ Cardinality(FirstRows(R, n + 1)) > n =>
              /\ LastRow(items) \in items
              /\ \A m \in items : ~Precedes(LastRow(items), m)
              /\ \A m \in R \ items : Precedes(LastRow(items), m)
<1> DEFINE before == RowsBefore(R)
           page == FirstRows(R, n + 1)
<1>1. /\ Ordered(R, before) /\ n + 1 \in Nat
      /\ page = Initial(R, before, n + 1) /\ items = Initial(R, before, n)
  BY RowsOrdered, FirstRowsInitial
<1>2. items \subseteq R /\ page \subseteq R
  BY DEF FirstRows
<1>3. Cardinality(page) \in Nat
  BY <1>1, InitialFinite
<1>4. ASSUME ~(Cardinality(page) > n) PROVE items = R
  <2>1. Cardinality(page) <= n
    BY <1>3, <1>4
  <2>2. QED BY <1>1, <2>1, InitialWhole
<1>5. ASSUME Cardinality(page) > n
      PROVE  /\ LastRow(items) \in items
             /\ \A m \in items : ~Precedes(LastRow(items), m)
             /\ \A m \in R \ items : Precedes(LastRow(items), m)
  <2>1. page # {}
    BY <1>5, FS_EmptySet
  <2>2. items # {}
    <3> SUFFICES ASSUME items = {} PROVE FALSE
      OBVIOUS
    <3>1. PICK m \in R \ items : TRUE
      BY <1>2, <2>1
    <3>2. Cardinality(items) = n
      BY <1>1, <3>1, InitialFull
    <3>3. QED BY <3>2, FS_EmptySet
  <2>3. PICK last \in items : \A m \in items : last \notin before[m]
    BY <1>1, <2>2, InitialLast
  <2>4. \A m \in items : ~Precedes(last, m)
    BY <1>2, <2>3 DEF RowsBefore
  <2>5. LastRow(items) \in items /\ \A m \in items : ~Precedes(LastRow(items), m)
    BY <2>4 DEF LastRow
  <2>6. ASSUME NEW m \in R \ items PROVE Precedes(LastRow(items), m)
    <3>1. LastRow(items) \in before[m]
      BY <1>1, <2>5, InitialFirst
    <3>2. QED BY <3>1 DEF RowsBefore
  <2>7. QED BY <2>5, <2>6
<1>6. QED BY <1>2, <1>4, <1>5

-----------------------------------------------------------------------------
(* The inductive invariant. *)

Walking == walk.pc \in {"ready", "admitted"}

(* Two rows have different ids, also of times past, and nobody has two     *)
(* rows in one organization.                                               *)
TableOK ==
  /\ Rows(memberships)
  /\ \A m \in memberships : m.id \in issued
  /\ \A m, k \in memberships :
       m.userId = k.userId /\ m.organizationId = k.organizationId => m = k

(* A cursor taken to another organization has listed nothing there. *)
OwnCursor == walk.cursor # None /\ walk.cursor.organizationId = walk.organization

(* The position of the cursor divides the list: what was listed is not     *)
(* after it, and of the members since the first page those not listed are. *)
CursorDivides ==
  walk.list = "members" =>
    /\ walk.listed \subseteq issued
    /\ Walking =>
         /\ walk.organization \in Organizations
         /\ walk.listed # {} <=> OwnCursor
         /\ walk.stable \subseteq {m.id : m \in MembersOf(walk.organization)}
         /\ OwnCursor =>
              \A m \in MembersOf(walk.organization) :
                /\ m.id \in walk.listed => ~Precedes(walk.cursor, m)
                /\ m.id \in walk.stable => m.id \in walk.listed \/ Precedes(walk.cursor, m)

Mine == OrganizationsOf(walk.user)

OrgsBefore(O) == [o \in O |-> {p \in O : p < o}]

(* The organizations the offset of the next page passes over. *)
Passed == Initial(Mine, OrgsBefore(Mine), walk.offset)

(* The organizations that were passed over unlisted are paid for by losses, *)
(* those listed that are still to come by gains.                            *)
OffsetShifts ==
  walk.list = "organizations" =>
    /\ IsFiniteSet(walk.listed) /\ walk.repeated \subseteq walk.listed
    /\ IsFiniteSet(walk.stable)
    /\ Walking =>
         /\ walk.offset = 0 => walk.listed = {}
         /\ walk.stable \subseteq Mine
         /\ Cardinality((walk.stable \ walk.listed) \cap Passed) <= walk.lost
         /\ Cardinality(walk.repeated) + Cardinality((walk.listed \cap Mine) \ Passed)
              <= walk.gained

IInv ==
  /\ TypeOK /\ TableOK
  /\ CursorDivides /\ MembersListedOnce
  /\ OffsetShifts /\ OffsetErrsByShifts

-----------------------------------------------------------------------------
(* The organizations of a user. *)

LEMMA OrgsOrdered ==
  ASSUME NEW O \in SUBSET Nat, IsFiniteSet(O)
  PROVE  Ordered(O, OrgsBefore(O))
<1>1. OrgsBefore(O) \in [O -> SUBSET O]
  BY DEF OrgsBefore
<1>2. \A o \in O : o \notin OrgsBefore(O)[o]
  BY DEF OrgsBefore
<1>3. \A o, p \in O : o \in OrgsBefore(O)[p] => OrgsBefore(O)[o] \subseteq OrgsBefore(O)[p]
  <2> SUFFICES ASSUME NEW o \in O, NEW p \in O, o < p, NEW k \in O, k < o PROVE k < p
    BY DEF OrgsBefore
  <2>1. o \in Nat /\ p \in Nat /\ k \in Nat
    OBVIOUS
  <2>2. QED BY <2>1
<1>4. \A o, p \in O : o = p \/ o \in OrgsBefore(O)[p] \/ p \in OrgsBefore(O)[o]
  BY DEF OrgsBefore
<1>5. QED BY <1>1, <1>2, <1>3, <1>4 DEF Ordered

LEMMA OrgsThinned ==
  ASSUME NEW O \in SUBSET Nat, IsFiniteSet(O), NEW P \in SUBSET O
  PROVE  Thinned(O, OrgsBefore(O), P, OrgsBefore(P))
<1>1. IsFiniteSet(P)
  BY FS_Subset
<1>2. Ordered(O, OrgsBefore(O)) /\ Ordered(P, OrgsBefore(P))
  BY <1>1, OrgsOrdered
<1>3. \A o \in P : OrgsBefore(P)[o] = OrgsBefore(O)[o] \cap P
  BY DEF OrgsBefore
<1>4. QED BY <1>2, <1>3 DEF Thinned

LEMMA OrgsOfRows ==
  ASSUME Rows(memberships), NEW u
  PROVE  OrganizationsOf(u) \in SUBSET Organizations /\ IsFiniteSet(OrganizationsOf(u))
<1> DEFINE M == MembershipsOf(u)
           orgOf == [m \in M |-> m.organizationId]
<1>1. M \in SUBSET memberships /\ IsFiniteSet(memberships)
  BY DEF MembershipsOf, Rows
<1>2. IsFiniteSet(M)
  BY <1>1, FS_Subset
<1>3. orgOf \in Surjection(M, OrganizationsOf(u))
  BY DEF Surjection, OrganizationsOf
<1>4. IsFiniteSet(OrganizationsOf(u))
  BY <1>2, <1>3, FS_Surjection
<1>5. OrganizationsOf(u) \subseteq Organizations
  BY <1>1 DEF OrganizationsOf, Rows, Membership
<1>6. QED BY <1>4, <1>5

(* A page of a user's organizations, in terms of the segments of its list. *)
LEMMA PageOfOrgs ==
  ASSUME Rows(memberships), NEW u, NEW offset \in Nat, NEW n \in Nat
  PROVE  FindPageByUserId(u, n, offset)
           = Slice(OrganizationsOf(u), OrgsBefore(OrganizationsOf(u)), offset, n)
<1> DEFINE O == OrganizationsOf(u)
           before == OrgsBefore(O)
<1>1. Ordered(O, before)
  BY OrgsOfRows, OrgsOrdered
<1>2. \A o \in O : Cardinality(before[o]) \in Nat
                   /\ before[o] = {p \in O : p < o}
  BY <1>1, RanksGrow DEF OrgsBefore
<1>3. \A o \in O : Cardinality(before[o]) \in offset .. offset + n - 1
                   <=> Cardinality(before[o]) < offset + n /\ ~(Cardinality(before[o]) < offset)
  BY <1>2
<1>4. QED BY <1>2, <1>3 DEF FindPageByUserId, Slice, Initial

LEMMA ItemsOfPage ==
  ASSUME Rows(memberships), NEW u, NEW offset \in Nat, NEW n \in Nat, NEW fetched,
         fetched = FindPageByUserId(u, n + 1, offset)
  PROVE  {o \in fetched : Cardinality({p \in fetched : p < o}) < n}
           = Slice(OrganizationsOf(u), OrgsBefore(OrganizationsOf(u)), offset, n)
<1> DEFINE O == OrganizationsOf(u)
           before == OrgsBefore(O)
<1>1. Ordered(O, before)
  BY OrgsOfRows, OrgsOrdered
<1>2. n + 1 \in Nat /\ fetched = Slice(O, before, offset, n + 1)
  BY PageOfOrgs
<1>3. \A o \in fetched : {p \in fetched : p < o} = before[o] \cap fetched
  BY <1>2 DEF OrgsBefore, Slice, Initial
<1>4. {o \in fetched : Cardinality(before[o] \cap fetched) < n} = Slice(O, before, offset, n)
  BY <1>1, <1>2, SliceOfSlice
<1>5. QED BY <1>3, <1>4

-----------------------------------------------------------------------------
(* Steps that change the walk of the client only. *)

LEMMA InitHolds == Init => IInv
<1> SUFFICES ASSUME Init PROVE IInv
  OBVIOUS
<1>1. memberships = {} /\ issued = {} /\ walk = NoWalk
  BY DEF Init
<1>2. /\ walk.pc = "idle" /\ walk.list = "members" /\ walk.listed = {} /\ walk.repeated = {}
  BY <1>1 DEF NoWalk
<1>3. TypeOK
  BY <1>1 DEF TypeOK, NoWalk, Walk
<1>4. TableOK
  BY <1>1, FS_EmptySet DEF TableOK, Rows
<1>5. QED
  BY <1>2, <1>3, <1>4
     DEF IInv, CursorDivides, MembersListedOnce, OffsetShifts, OffsetErrsByShifts, Walking

(* A request is admitted, or its answer is lost. *)
LEMMA AdmissionStep ==
  ASSUME IInv, Walking, NEW pc \in {"ready", "admitted"}, walk' = [walk EXCEPT !.pc = pc],
         UNCHANGED <<memberships, issued>>
  PROVE  IInv'
<1>1. /\ walk' \in Walk /\ walk'.pc = pc
      /\ walk'.list = walk.list /\ walk'.user = walk.user
      /\ walk'.organization = walk.organization /\ walk'.cursor = walk.cursor
      /\ walk'.offset = walk.offset /\ walk'.listed = walk.listed
      /\ walk'.repeated = walk.repeated /\ walk'.stable = walk.stable
      /\ walk'.lost = walk.lost /\ walk'.gained = walk.gained
  BY DEF IInv, TypeOK, Walk
<1>2. TypeOK' /\ TableOK'
  BY <1>1 DEF IInv, TypeOK, TableOK
<1>3. CursorDivides' /\ MembersListedOnce'
  BY <1>1 DEF IInv, CursorDivides, MembersListedOnce, Walking, OwnCursor, MembersOf
<1>4. Mine' = Mine /\ Passed' = Passed
  BY <1>1 DEF Mine, Passed, OrganizationsOf, MembershipsOf
<1>5. OffsetShifts' /\ OffsetErrsByShifts'
  BY <1>1, <1>4 DEF IInv, OffsetShifts, OffsetErrsByShifts, Walking
<1>6. QED BY <1>2, <1>3, <1>5 DEF IInv

(* A walk begins, or a refused request ends one. *)
Begins ==
  /\ walk' \in Walk
  /\ walk'.pc \in {"idle", "ready"} /\ walk'.offset = 0
  /\ walk'.listed = {} /\ walk'.repeated = {} /\ walk'.stable = {}
  /\ walk'.lost = 0 /\ walk'.gained = 0
  /\ walk'.list = "members" /\ walk'.pc = "ready" =>
       /\ walk'.organization \in Organizations
       /\ walk'.cursor = None \/ walk'.cursor.organizationId # walk'.organization
  /\ UNCHANGED <<memberships, issued>>

LEMMA BeginsStep ==
  ASSUME IInv, Begins
  PROVE  IInv'
<1>1. TypeOK' /\ TableOK'
  BY DEF Begins, IInv, TypeOK, TableOK
<1>2. CursorDivides' /\ MembersListedOnce'
  BY DEF Begins, CursorDivides, MembersListedOnce, Walking, OwnCursor
<1>3. \A S, T : (S \ {}) \cap T = S \cap T /\ {} \cap S = {} /\ ({} \cap S) \ T = {}
                /\ IsFiniteSet({}) /\ Cardinality({}) = 0
  BY FS_EmptySet
<1>4. OffsetShifts' /\ OffsetErrsByShifts'
  BY <1>3 DEF Begins, OffsetShifts, OffsetErrsByShifts, Walking
<1>5. QED BY <1>1, <1>2, <1>4 DEF IInv

LEMMA RefusedStep ==
  ASSUME IInv, walk' = NoWalk, UNCHANGED <<memberships, issued>>
  PROVE  IInv'
<1>1. Begins
  BY DEF Begins, NoWalk, Walk
<1>2. QED BY <1>1, BeginsStep

LEMMA BeginMembersStep ==
  ASSUME IInv, NEW u \in Users, NEW o \in Organizations, BeginMembers(u, o)
  PROVE  IInv'
<1>1. Begins
  BY DEF BeginMembers, Begins, NoWalk, Walk
<1>2. QED BY <1>1, BeginsStep

LEMMA BeginOrganizationsStep ==
  ASSUME IInv, NEW u \in Users, BeginOrganizations(u)
  PROVE  IInv'
<1>1. Begins
  BY DEF BeginOrganizations, Begins, NoWalk, Walk
<1>2. QED BY <1>1, BeginsStep

LEMMA RedirectStep ==
  ASSUME IInv, NEW o \in Organizations, Redirect(o)
  PROVE  IInv'
<1>1. walk.cursor \in Cursor \cup {None} /\ walk.user \in Users \cup {None}
  BY DEF IInv, TypeOK, Walk
<1>2. walk' = [NoWalk EXCEPT !.pc = "ready", !.user = walk.user,
                             !.organization = o, !.cursor = walk.cursor]
      /\ o # walk.cursor.organizationId /\ UNCHANGED <<memberships, issued>>
  BY DEF Redirect
<1>3. Begins
  BY <1>1, <1>2 DEF Begins, NoWalk, Walk
<1>4. QED BY <1>3, BeginsStep

LEMMA AdmitStep ==
  ASSUME IInv, AdmitMember \/ AdmitUser \/ LoseAnswer
  PROVE  IInv'
<1>1. Walking /\ UNCHANGED <<memberships, issued>>
  BY DEF AdmitMember, AdmitUser, LoseAnswer, Walking
<1>2. PICK pc \in {"ready", "admitted"} : walk' = [walk EXCEPT !.pc = pc] \/ walk' = NoWalk
  BY DEF AdmitMember, AdmitUser, LoseAnswer
<1>3. QED BY <1>1, <1>2, AdmissionStep, RefusedStep

-----------------------------------------------------------------------------
(* A page of members. *)

(* The rows after the cursor. *)
Rest(o, boundary) == {m \in MembersOf(o) : boundary # None => Precedes(boundary, m)}

(* What an answered page of members does to the walk. *)
PageOfMembers(items, more) ==
  LET o == walk.organization
      ids == {m.id : m \in items} IN
  /\ walk'.pc = (IF more THEN "ready" ELSE "done")
  /\ walk'.list = "members" /\ walk'.user = walk.user /\ walk'.organization = o
  /\ walk'.cursor = (IF more THEN EncodeCursor(o, LastRow(items)) ELSE None)
  /\ walk'.offset = walk.offset
  /\ walk'.listed = walk.listed \cup ids
  /\ walk'.repeated = walk.repeated \cup (walk.listed \cap ids)
  /\ walk'.stable = (IF walk.listed = {} THEN {m.id : m \in MembersOf(o)} ELSE walk.stable)
  /\ walk'.lost = walk.lost /\ walk'.gained = walk.gained

LEMMA ListMembersEffect ==
  ASSUME IInv, NEW limit \in Limits, ListMembers(limit),
         ValidCursor(walk.cursor, walk.organization)
  PROVE  \E items, more :
           /\ items = FirstRows(Rest(walk.organization, walk.cursor), limit)
           /\ more = (Cardinality(FirstRows(Rest(walk.organization, walk.cursor), limit + 1)) > limit)
           /\ PageOfMembers(items, more)
           /\ walk' = [walk EXCEPT !.pc = walk'.pc, !.cursor = walk'.cursor,
                                   !.listed = walk'.listed, !.repeated = walk'.repeated,
                                   !.stable = walk'.stable]
<1> DEFINE R == Rest(walk.organization, walk.cursor)
<1>1. Rows(R)
  <2>1. R \in SUBSET memberships
    BY DEF Rest, MembersOf
  <2>2. IsFiniteSet(R)
    BY <2>1, FS_Subset DEF IInv, TableOK, Rows
  <2>3. QED BY <2>1, <2>2 DEF IInv, TableOK, Rows
<1>2. PICK items, more :
        /\ items = FirstRows(R, limit)
        /\ more = (Cardinality(FirstRows(R, limit + 1)) > limit)
  OBVIOUS
<1>3. limit \in Nat
  BY DEF Limits
<1>4. FindPageByOrganization(walk.organization, limit + 1, walk.cursor) = FirstRows(R, limit + 1)
  BY DEF FindPageByOrganization, Rest
<1>5. FirstRows(FirstRows(R, limit + 1), limit) = items
  BY <1>1, <1>2, <1>3, FirstRowsOfPage
<1>6. walk \in Walk /\ walk.list = "members"
  BY DEF IInv, TypeOK, ListMembers
<1>7. walk' = [walk EXCEPT
                 !.pc = IF more THEN "ready" ELSE "done",
                 !.cursor = IF more THEN EncodeCursor(walk.organization, LastRow(items)) ELSE None,
                 !.listed = @ \cup {m.id : m \in items},
                 !.repeated = @ \cup (walk.listed \cap {m.id : m \in items}),
                 !.stable = IF walk.listed = {} THEN {m.id : m \in MembersOf(walk.organization)}
                            ELSE @]
  BY <1>2, <1>4, <1>5 DEF ListMembers
<1>8. PageOfMembers(items, more)
  BY <1>6, <1>7 DEF PageOfMembers, Walk
<1>9. walk' = [walk EXCEPT !.pc = walk'.pc, !.cursor = walk'.cursor,
                           !.listed = walk'.listed, !.repeated = walk'.repeated,
                           !.stable = walk'.stable]
  BY <1>6, <1>7 DEF Walk
<1>10. QED BY <1>2, <1>8, <1>9

(* The list of an organization from a cursor on: what was listed before is *)
(* not in it, who stayed and was not listed is.                            *)
LEMMA RestIsUnlisted ==
  ASSUME IInv, walk.list = "members", Walking, ValidCursor(walk.cursor, walk.organization)
  PROVE  LET R == Rest(walk.organization, walk.cursor) IN
         /\ Rows(R) /\ R \subseteq MembersOf(walk.organization)
         /\ \A m \in R : m.id \notin walk.listed
         /\ walk.listed = {} => R = MembersOf(walk.organization)
         /\ walk.listed # {} =>
              \A m \in MembersOf(walk.organization) :
                m.id \in walk.stable \ walk.listed => m \in R
         /\ walk.listed # {} => OwnCursor /\ \A m \in R : Precedes(walk.cursor, m)
<1> DEFINE R == Rest(walk.organization, walk.cursor)
<1>1. R \subseteq MembersOf(walk.organization) /\ R \in SUBSET memberships
  BY DEF Rest, MembersOf
<1>2. Rows(R)
  <2>1. IsFiniteSet(R)
    BY <1>1, FS_Subset DEF IInv, TableOK, Rows
  <2>2. QED BY <1>1, <2>1 DEF IInv, TableOK, Rows
<1>3. walk.listed # {} <=> OwnCursor
  BY DEF IInv, CursorDivides
<1>4. CASE walk.listed = {}
  <2>1. walk.cursor = None
    BY <1>3, <1>4 DEF OwnCursor, ValidCursor
  <2>2. R = MembersOf(walk.organization)
    BY <2>1 DEF Rest, MembersOf
  <2>3. QED BY <1>1, <1>2, <1>4, <2>2
<1>5. CASE walk.listed # {}
  <2>1. OwnCursor /\ walk.cursor # None
    BY <1>3, <1>5 DEF OwnCursor
  <2>2. \A m \in R : Precedes(walk.cursor, m)
    BY <2>1 DEF Rest
  <2>3. \A m \in MembersOf(walk.organization) :
          /\ m.id \in walk.listed => ~Precedes(walk.cursor, m)
          /\ m.id \in walk.stable => m.id \in walk.listed \/ Precedes(walk.cursor, m)
    BY <2>1 DEF IInv, CursorDivides
  <2>4. \A m \in R : m.id \notin walk.listed
    BY <1>1, <2>2, <2>3
  <2>5. \A m \in MembersOf(walk.organization) :
          m.id \in walk.stable \ walk.listed => m \in R
    BY <2>1, <2>3 DEF Rest
  <2>6. QED BY <1>1, <1>2, <1>5, <2>1, <2>2, <2>4, <2>5
<1>6. QED BY <1>4, <1>5

LEMMA PrecedesTransitive ==
  ASSUME NEW a, NEW b, NEW c, Precedes(a, b), Precedes(b, c),
         a.createdAt \in Nat, b.createdAt \in Nat, c.createdAt \in Nat,
         a.id \in Nat, b.id \in Nat, c.id \in Nat
  PROVE  Precedes(a, c)
  BY DEF Precedes

LEMMA ListMembersStep ==
  ASSUME IInv, NEW limit \in Limits, ListMembers(limit)
  PROVE  IInv'
<1>1. /\ walk.pc = "admitted" /\ walk.list = "members" /\ Walking
      /\ UNCHANGED <<memberships, issued>>
  BY DEF ListMembers, Walking
<1>2. CASE ~ValidCursor(walk.cursor, walk.organization)
  BY <1>1, <1>2, RefusedStep DEF ListMembers
<1>3. CASE ValidCursor(walk.cursor, walk.organization)
  <2> DEFINE o == walk.organization
             R == Rest(o, walk.cursor)
  <2>1. PICK items, more :
          /\ items = FirstRows(R, limit)
          /\ more = (Cardinality(FirstRows(R, limit + 1)) > limit)
          /\ PageOfMembers(items, more)
          /\ walk' = [walk EXCEPT !.pc = walk'.pc, !.cursor = walk'.cursor,
                                  !.listed = walk'.listed, !.repeated = walk'.repeated,
                                  !.stable = walk'.stable]
    BY <1>3, ListMembersEffect
  <2>2. /\ Rows(R) /\ R \subseteq MembersOf(o)
        /\ \A m \in R : m.id \notin walk.listed
        /\ walk.listed = {} => R = MembersOf(o)
        /\ walk.listed # {} =>
             \A m \in MembersOf(o) : m.id \in walk.stable \ walk.listed => m \in R
        /\ walk.listed # {} => OwnCursor /\ \A m \in R : Precedes(walk.cursor, m)
    BY <1>1, <1>3, RestIsUnlisted
  <2>3. /\ items \subseteq R
        /\ ~more => items = R
        /\ more =>
             /\ LastRow(items) \in items
             /\ \A m \in items : ~Precedes(LastRow(items), m)
             /\ \A m \in R \ items : Precedes(LastRow(items), m)
    <3>1. limit \in Nat \ {0}
      BY DEF Limits
    <3>2. items = FirstRows(R, limit) /\ Rows(R)
      BY <2>1, <2>2
    <3>3. /\ items \subseteq R
          /\ ~(Cardinality(FirstRows(R, limit + 1)) > limit) => items = R
          /\ Cardinality(FirstRows(R, limit + 1)) > limit =>
               /\ LastRow(items) \in items
               /\ \A m \in items : ~Precedes(LastRow(items), m)
               /\ \A m \in R \ items : Precedes(LastRow(items), m)
      BY <3>1, <3>2, PageOfRows
    <3>4. more <=> Cardinality(FirstRows(R, limit + 1)) > limit
      BY <2>1
    <3>5. QED BY <3>3, <3>4
  <2>4. \A m \in MembersOf(o) :
          /\ m \in Membership /\ m \in memberships /\ m.id \in issued /\ m.organizationId = o
          /\ m.id \in Nat /\ m.createdAt \in Nat
    BY DEF MembersOf, IInv, TableOK, Rows, Membership
  <2>5. o \in Organizations /\ walk \in Walk /\ issued \subseteq Nat
    BY <1>1 DEF IInv, TypeOK, CursorDivides
  <2>6. more \in BOOLEAN
    BY <2>1
  <2>7. TypeOK' /\ TableOK'
    <3>1. walk'.pc \in {"ready", "done"}
      BY <2>1 DEF PageOfMembers
    <3>2. walk'.cursor \in Cursor \cup {None}
      <4>1. ASSUME more PROVE EncodeCursor(o, LastRow(items)) \in Cursor
        <5>1. LastRow(items) \in Membership
          BY <4>1, <2>2, <2>3, <2>4
        <5>2. QED BY <2>5, <5>1 DEF EncodeCursor, Cursor, Membership
      <4>2. QED BY <2>1, <4>1 DEF PageOfMembers
    <3>3. {m.id : m \in items} \in SUBSET Nat /\ {m.id : m \in MembersOf(o)} \in SUBSET Nat
      BY <2>2, <2>3, <2>4
    <3>4. walk.listed \in SUBSET Nat /\ walk.repeated \in SUBSET Nat /\ walk.stable \in SUBSET Nat
      BY <2>5 DEF Walk
    <3>5. /\ walk'.listed \in SUBSET Nat /\ walk'.repeated \in SUBSET Nat
          /\ walk'.stable \in SUBSET Nat
      BY <2>1, <3>3, <3>4 DEF PageOfMembers
    <3>6. walk' \in Walk
      BY <2>1, <2>5, <3>1, <3>2, <3>5 DEF Walk
    <3>7. QED BY <1>1, <3>6 DEF IInv, TypeOK, TableOK
  <2>8. walk'.repeated = {}
    <3>1. walk.repeated = {}
      BY <1>1 DEF IInv, MembersListedOnce
    <3>2. walk.listed \cap {m.id : m \in items} = {}
      BY <2>2, <2>3
    <3>3. QED BY <2>1, <3>1, <3>2 DEF PageOfMembers
  <2>9. walk.listed \subseteq issued /\ walk.stable \subseteq {m.id : m \in MembersOf(o)}
    BY <1>1 DEF IInv, CursorDivides
  <2>10. walk'.stable \subseteq {m.id : m \in MembersOf(o)}
    BY <2>1, <2>9 DEF PageOfMembers
  <2>11. \A m \in MembersOf(o) : m.id \in walk'.stable => m.id \in walk'.listed \/ m \in R \ items
    <3> SUFFICES ASSUME NEW m \in MembersOf(o), m.id \in walk'.stable, m.id \notin walk'.listed
                 PROVE  m \in R \ items
      OBVIOUS
    <3>1. m.id \notin walk.listed /\ m \notin items
      BY <2>1 DEF PageOfMembers
    <3>2. CASE walk.listed = {}
      BY <2>2, <3>1, <3>2
    <3>3. CASE walk.listed # {}
      BY <2>1, <2>2, <3>1, <3>3 DEF PageOfMembers
    <3>4. QED BY <3>2, <3>3
  <2>12. MembersListedOnce'
    <3>1. ASSUME walk'.pc = "done" PROVE walk'.stable \subseteq walk'.listed
      <4>1. ~more
        BY <2>1, <3>1 DEF PageOfMembers
      <4>2. QED BY <2>3, <2>10, <2>11, <4>1
    <3>2. QED BY <2>8, <3>1 DEF MembersListedOnce
  <2>13. walk'.listed \subseteq issued
    <3>1. {m.id : m \in items} \subseteq issued
      BY <2>2, <2>3, <2>4
    <3>2. QED BY <2>1, <2>9, <3>1 DEF PageOfMembers
  <2>14. CASE ~more
    <3>1. walk'.list = "members" /\ walk'.pc = "done"
      BY <2>1, <2>14 DEF PageOfMembers
    <3>2. CursorDivides'
      BY <1>1, <2>13, <3>1 DEF CursorDivides, Walking
    <3>3. QED
      BY <2>7, <2>12, <3>1, <3>2 DEF IInv, OffsetShifts, OffsetErrsByShifts
  <2>15. CASE more
    <3> DEFINE last == LastRow(items)
    <3>1. /\ walk'.list = "members" /\ walk'.organization = o
          /\ walk'.cursor = EncodeCursor(o, last)
          /\ walk'.listed = walk.listed \cup {m.id : m \in items}
      BY <2>1, <2>15 DEF PageOfMembers
    <3>2. /\ walk'.cursor # None /\ walk'.cursor.organizationId = o
          /\ walk'.cursor.createdAt = last.createdAt /\ walk'.cursor.id = last.id
      <4>1. last \in Membership
        BY <2>2, <2>3, <2>4, <2>15
      <4>2. EncodeCursor(o, last) \in Cursor
        BY <2>5, <4>1 DEF EncodeCursor, Cursor, Membership
      <4>3. QED BY <3>1, <4>2 DEF EncodeCursor
    <3>3. \A m : Precedes(walk'.cursor, m) <=> Precedes(last, m)
      BY <3>2 DEF Precedes
    <3>4. last \in items /\ last \in R /\ walk'.listed # {}
      BY <2>3, <2>15, <3>1
    <3>5. ASSUME NEW m \in MembersOf(o), m.id \in walk'.listed PROVE ~Precedes(last, m)
      <4>1. CASE m.id \in {k.id : k \in items}
        <5>1. PICK k \in items : m.id = k.id
          BY <4>1
        <5>2. m = k
          BY <2>2, <2>3, <2>4, <5>1 DEF IInv, TableOK, Rows
        <5>3. QED BY <2>3, <2>15, <5>2
      <4>2. CASE m.id \in walk.listed
        <5>1. walk.cursor # None /\ ~Precedes(walk.cursor, m) /\ Precedes(walk.cursor, last)
          BY <1>1, <2>2, <3>4, <4>2 DEF IInv, CursorDivides, OwnCursor
        <5>2. walk.cursor.createdAt \in Nat /\ walk.cursor.id \in Nat
          BY <2>5, <5>1 DEF Walk, Cursor
        <5>3. /\ last.createdAt \in Nat /\ last.id \in Nat
              /\ m.createdAt \in Nat /\ m.id \in Nat
          BY <2>2, <2>4, <3>4
        <5>4. Precedes(last, m) => Precedes(walk.cursor, m)
          BY <5>1, <5>2, <5>3, PrecedesTransitive
        <5>5. QED BY <5>1, <5>4
      <4>3. QED BY <3>1, <3>5, <4>1, <4>2
    <3>6. \A m \in MembersOf(o) :
            m.id \in walk'.stable => m.id \in walk'.listed \/ Precedes(last, m)
      BY <2>3, <2>11, <2>15
    <3>7. MembersOf(o)' = MembersOf(o) /\ MembersOf(walk.organization)' = MembersOf(o)
      BY <1>1, <3>1 DEF MembersOf
    <3>8. OwnCursor'
      BY <3>1, <3>2 DEF OwnCursor
    <3>9. CursorDivides'
      BY <1>1, <2>5, <2>10, <2>13, <3>1, <3>3, <3>4, <3>5, <3>6, <3>7, <3>8
         DEF CursorDivides
    <3>10. QED
      BY <2>7, <2>12, <3>1, <3>9 DEF IInv, OffsetShifts, OffsetErrsByShifts
  <2>16. QED BY <2>6, <2>14, <2>15
<1>4. QED BY <1>2, <1>3

-----------------------------------------------------------------------------
(* What a change of a user's organizations shifts under an offset. *)

LEMMA AtMostOne ==
  ASSUME NEW U, IsFiniteSet(U), Cardinality(U) \in Nat, Cardinality(U) <= 1
  PROVE  \E x : U \subseteq {x}
<1>1. CASE Cardinality(U) = 0
  <2>1. U = {}
    BY <1>1, FS_EmptySet
  <2>2. QED BY <2>1
<1>2. CASE Cardinality(U) = 1
  <2>1. \E x : U = {x}
    BY <1>2, FS_Singleton
  <2>2. QED BY <2>1
<1>3. QED BY <1>1, <1>2

(* One that is gained moves one more at most behind the offset again. *)
LEMMA GainShifts ==
  ASSUME NEW O \in SUBSET Nat, IsFiniteSet(O), NEW o \in Nat \ O, NEW n \in Nat,
         NEW listed, IsFiniteSet(listed)
  PROVE  LET P == O \cup {o}
             A == Initial(O, OrgsBefore(O), n)
             B == Initial(P, OrgsBefore(P), n) IN
         /\ B \cap O \subseteq A
         /\ Cardinality((listed \cap P) \ B) <= Cardinality((listed \cap O) \ A) + 1
<1> DEFINE P == O \cup {o}
           A == Initial(O, OrgsBefore(O), n)
           B == Initial(P, OrgsBefore(P), n)
           old == (listed \cap O) \ A
           new == (listed \cap P) \ B
<1>1. P \in SUBSET Nat /\ O \in SUBSET P /\ IsFiniteSet(P)
  BY FS_AddElement
<1>2. Thinned(P, OrgsBefore(P), O, OrgsBefore(O))
  BY <1>1, OrgsThinned
<1>3. B \cap O \subseteq A
  BY <1>2, ThinnedKeeps
<1>4. /\ IsFiniteSet(old) /\ Cardinality(old) \in Nat
      /\ IsFiniteSet(new) /\ Cardinality(new) \in Nat
  <2>1. old \in SUBSET listed /\ new \in SUBSET listed
    OBVIOUS
  <2>2. IsFiniteSet(old) /\ IsFiniteSet(new)
    BY <2>1, FS_Subset
  <2>3. QED BY <2>2, FS_CardinalityType
<1>5. PICK x : new \subseteq old \cup {x}
  <2>1. CASE o \in B
    <3> DEFINE up == A \ B
    <3>1. IsFiniteSet(up) /\ Cardinality(up) \in Nat /\ Cardinality(up) <= Cardinality(P \ O)
      BY <1>2, ThinnedMoves
    <3>2. P \ O = {o}
      OBVIOUS
    <3>3. Cardinality(up) <= 1
      BY <3>1, <3>2, FS_Singleton
    <3>4. PICK x : up \subseteq {x}
      <4> HIDE DEF up
      <4>1. QED BY <3>1, <3>3, AtMostOne
    <3>5. new \subseteq old \cup {x}
      BY <2>1, <3>4
    <3>6. QED BY <3>5
  <2>2. CASE o \notin B
    <3>1. B \subseteq O
      BY <2>2 DEF Initial
    <3>2. A = B
      BY <1>2, <3>1, ThinnedAfter
    <3>3. new \subseteq old \cup {o}
      BY <3>2
    <3>4. QED BY <3>3
  <2>3. QED BY <2>1, <2>2
<1>6. IsFiniteSet(old \cup {x}) /\ Cardinality(old \cup {x}) <= Cardinality(old) + 1
      /\ Cardinality(old \cup {x}) \in Nat
  <2>1. IsFiniteSet(old \cup {x})
        /\ Cardinality(old \cup {x})
             = IF x \in old THEN Cardinality(old) ELSE Cardinality(old) + 1
    BY <1>4, FS_AddElement
  <2>2. QED BY <1>4, <2>1
<1>7. Cardinality(new) <= Cardinality(old \cup {x})
  <2>1. new \in SUBSET (old \cup {x})
    BY <1>5
  <2>2. QED BY <1>6, <2>1, FS_Subset
<1>8. Cardinality(new) <= Cardinality(old) + 1
  <2> HIDE DEF old, new
  <2>1. QED BY <1>4, <1>6, <1>7
<1>9. QED BY <1>3, <1>8

(* Those that are lost move as many before the offset at most. *)
LEMMA LossShifts ==
  ASSUME NEW O \in SUBSET Nat, IsFiniteSet(O), NEW P \in SUBSET O, NEW n \in Nat,
         NEW listed, NEW stable, IsFiniteSet(stable)
  PROVE  LET A == Initial(O, OrgsBefore(O), n)
             B == Initial(P, OrgsBefore(P), n)
             left == stable \ (O \ P) IN
         /\ (listed \cap P) \ B \subseteq (listed \cap O) \ A
         /\ Cardinality((left \ listed) \cap B)
              <= Cardinality((stable \ listed) \cap A) + Cardinality(O \ P)
<1> DEFINE A == Initial(O, OrgsBefore(O), n)
           B == Initial(P, OrgsBefore(P), n)
           left == stable \ (O \ P)
           old == (stable \ listed) \cap A
           new == (left \ listed) \cap B
           up == B \ A
<1>1. Thinned(O, OrgsBefore(O), P, OrgsBefore(P))
  BY OrgsThinned
<1>2. A \cap P \subseteq B
  BY <1>1, ThinnedKeeps
<1>3. IsFiniteSet(up) /\ Cardinality(up) \in Nat /\ Cardinality(up) <= Cardinality(O \ P)
  BY <1>1, ThinnedMoves
<1>4. IsFiniteSet(old) /\ Cardinality(old) \in Nat
  <2>1. old \in SUBSET stable
    OBVIOUS
  <2>2. IsFiniteSet(old)
    BY <2>1, FS_Subset
  <2>3. QED BY <2>2, FS_CardinalityType
<1>5. IsFiniteSet(old \cup up)
      /\ Cardinality(old \cup up) = Cardinality(old) + Cardinality(up) - Cardinality(old \cap up)
  BY <1>3, <1>4, FS_Union
<1>6. old \cap up = {} /\ Cardinality({}) = 0
  BY FS_EmptySet
<1>7. Cardinality(old \cup up) = Cardinality(old) + Cardinality(up)
  <2>1. Cardinality(old \cap up) = 0
    BY <1>6
  <2>2. QED BY <1>3, <1>4, <1>5, <2>1
<1>8. new \in SUBSET (old \cup up)
  OBVIOUS
<1>9. Cardinality(new) <= Cardinality(old \cup up)
  BY <1>5, <1>8, FS_Subset
<1>10. IsFiniteSet(new) /\ Cardinality(new) \in Nat
  BY <1>5, <1>8, FS_Subset, FS_CardinalityType
<1>11. Cardinality(O \ P) \in Nat
  <2>1. IsFiniteSet(O \ P)
    BY FS_Difference
  <2>2. QED BY <2>1, FS_CardinalityType
<1>12. Cardinality(new) <= Cardinality(old) + Cardinality(O \ P)
  <2> HIDE DEF old, new, up
  <2>1. QED BY <1>3, <1>4, <1>7, <1>9, <1>10, <1>11
<1>13. (listed \cap P) \ B \subseteq (listed \cap O) \ A
  BY <1>2
<1>14. QED BY <1>12, <1>13

-----------------------------------------------------------------------------
(* A page of the user's organizations. *)

(* What is repeated by a page was to be repeated before it. *)
LEMMA RepeatsCounted ==
  ASSUME NEW listed, IsFiniteSet(listed), NEW repeated \in SUBSET listed,
         NEW O, NEW A, NEW items \in SUBSET (O \ A)
  PROVE  Cardinality(repeated \cup (listed \cap items))
           + Cardinality(((listed \cup items) \cap O) \ (A \cup items))
           <= Cardinality(repeated) + Cardinality((listed \cap O) \ A)
<1> DEFINE again == listed \cap items
           later == ((listed \cup items) \cap O) \ (A \cup items)
           due == (listed \cap O) \ A
<1>1. /\ repeated \in SUBSET listed /\ again \in SUBSET listed
      /\ later \in SUBSET listed /\ due \in SUBSET listed
      /\ again \cup later = due /\ again \cap later = {}
  OBVIOUS
<1> HIDE DEF again, later, due
<1>2. /\ IsFiniteSet(repeated) /\ IsFiniteSet(again) /\ IsFiniteSet(later) /\ IsFiniteSet(due)
  BY <1>1, FS_Subset
<1>3. /\ Cardinality(repeated) \in Nat /\ Cardinality(again) \in Nat
      /\ Cardinality(later) \in Nat /\ Cardinality(due) \in Nat
  BY <1>2, FS_CardinalityType
<1>4. Cardinality(due) = Cardinality(again) + Cardinality(later)
  <2>1. Cardinality(again \cup later)
          = Cardinality(again) + Cardinality(later) - Cardinality(again \cap later)
    BY <1>2, FS_Union
  <2>2. Cardinality(again \cap later) = 0
    BY <1>1, FS_EmptySet
  <2>3. Cardinality(due) = Cardinality(again \cup later)
    BY <1>1
  <2>4. QED BY <1>3, <2>1, <2>2, <2>3
<1>5. Cardinality(repeated \cup again) \in Nat
      /\ Cardinality(repeated \cup again) <= Cardinality(repeated) + Cardinality(again)
  <2>1. IsFiniteSet(repeated \cup again)
        /\ Cardinality(repeated \cup again)
             = Cardinality(repeated) + Cardinality(again) - Cardinality(repeated \cap again)
    BY <1>2, FS_Union
  <2>2. Cardinality(repeated \cap again) \in Nat
    BY <1>2, FS_Intersection, FS_CardinalityType
  <2>3. Cardinality(repeated \cup again) \in Nat
    BY <2>1, FS_CardinalityType
  <2>4. QED BY <1>3, <2>1, <2>2, <2>3
<1>6. Cardinality(repeated \cup again) + Cardinality(later)
        <= Cardinality(repeated) + Cardinality(due)
  BY <1>3, <1>4, <1>5
<1>7. QED BY <1>6 DEF again, later, due

(* What an answered page of organizations does to the walk. *)
PageOfMine(items, limit, hasNext) ==
  LET first == walk.offset = 0 IN
  /\ walk'.pc = (IF hasNext THEN "ready" ELSE "done")
  /\ walk'.list = "organizations" /\ walk'.user = walk.user
  /\ walk'.offset = walk.offset + limit
  /\ walk'.listed = walk.listed \cup items
  /\ walk'.repeated = walk.repeated \cup (walk.listed \cap items)
  /\ walk'.stable = (IF first THEN Mine ELSE walk.stable)
  /\ walk'.lost = (IF first THEN 0 ELSE walk.lost)
  /\ walk'.gained = (IF first THEN 0 ELSE walk.gained)
  /\ walk' = [walk EXCEPT !.pc = walk'.pc, !.offset = walk'.offset, !.listed = walk'.listed,
                          !.repeated = walk'.repeated, !.stable = walk'.stable,
                          !.lost = walk'.lost, !.gained = walk'.gained]

LEMMA ListMineEffect ==
  ASSUME IInv, NEW limit \in Limits, ListMine(limit), walk.offset \in Offsets
  PROVE  LET before == OrgsBefore(Mine) IN
         \E items, hasNext :
           /\ items = Slice(Mine, before, walk.offset, limit)
           /\ hasNext = (Cardinality(Slice(Mine, before, walk.offset, limit + 1)) > limit)
           /\ PageOfMine(items, limit, hasNext)
<1> DEFINE before == OrgsBefore(Mine)
<1>1. PICK items, hasNext :
        /\ items = Slice(Mine, before, walk.offset, limit)
        /\ hasNext = (Cardinality(Slice(Mine, before, walk.offset, limit + 1)) > limit)
  OBVIOUS
<1>2. PICK fetched : fetched = FindPageByUserId(walk.user, limit + 1, walk.offset)
  OBVIOUS
<1>3. limit \in Nat /\ limit + 1 \in Nat /\ walk.offset \in Nat /\ Rows(memberships)
  BY DEF Limits, Offsets, IInv, TableOK
<1>4. fetched = Slice(Mine, before, walk.offset, limit + 1)
  BY <1>2, <1>3, PageOfOrgs DEF Mine
<1>5. {o \in fetched : Cardinality({p \in fetched : p < o}) < limit} = items
  BY <1>1, <1>2, <1>3, ItemsOfPage DEF Mine
<1>6. walk \in Walk /\ walk.list = "organizations"
  BY DEF IInv, TypeOK, ListMine
<1>7. walk' = [walk EXCEPT
                 !.pc = IF hasNext THEN "ready" ELSE "done",
                 !.offset = @ + limit,
                 !.listed = @ \cup items,
                 !.repeated = @ \cup (walk.listed \cap items),
                 !.stable = IF walk.offset = 0 THEN Mine ELSE @,
                 !.lost = IF walk.offset = 0 THEN 0 ELSE @,
                 !.gained = IF walk.offset = 0 THEN 0 ELSE @]
  BY <1>1, <1>2, <1>4, <1>5 DEF ListMine, Mine
<1>8. PageOfMine(items, limit, hasNext)
  BY <1>6, <1>7 DEF PageOfMine, Walk
<1>9. QED BY <1>1, <1>8

LEMMA ListMineStep ==
  ASSUME IInv, NEW limit \in Limits, ListMine(limit)
  PROVE  IInv'
<1>1. /\ walk.pc = "admitted" /\ walk.list = "organizations" /\ Walking
      /\ UNCHANGED <<memberships, issued>>
  BY DEF ListMine, Walking
<1>2. CASE walk.offset \notin Offsets
  BY <1>1, <1>2, RefusedStep DEF ListMine
<1>3. CASE walk.offset \in Offsets
  <2> DEFINE before == OrgsBefore(Mine)
             A == Initial(Mine, before, walk.offset)
             B == Initial(Mine, before, walk.offset + limit)
  <2>1. PICK items, hasNext :
          /\ items = Slice(Mine, before, walk.offset, limit)
          /\ hasNext = (Cardinality(Slice(Mine, before, walk.offset, limit + 1)) > limit)
          /\ PageOfMine(items, limit, hasNext)
    BY <1>3, ListMineEffect
  <2>2. /\ limit \in Nat /\ limit # 0 /\ walk.offset \in Nat /\ walk.offset + limit \in Nat
        /\ walk.offset + limit # 0
    BY <1>3 DEF Limits, Offsets
  <2>3. Mine \in SUBSET Organizations /\ Mine \in SUBSET Nat /\ IsFiniteSet(Mine)
        /\ Ordered(Mine, before)
    BY OrgsOfRows, OrgsOrdered DEF IInv, TableOK, Mine
  <2>4. A \subseteq B /\ B \subseteq Mine /\ items = B \ A /\ B = A \cup items
        /\ items \in SUBSET (Mine \ A)
    <3>1. A \subseteq B
      BY <2>2, <2>3, RanksGrow DEF Initial
    <3>2. B \subseteq Mine
      BY DEF Initial
    <3>3. QED BY <2>1, <3>1, <3>2 DEF Slice
  <2>5. ~hasNext => B = Mine
    <3> SUFFICES ASSUME ~hasNext PROVE B = Mine
      OBVIOUS
    <3>1. Slice(Mine, before, walk.offset, limit + 1) \in SUBSET Mine
      BY DEF Slice, Initial
    <3>2. Cardinality(Slice(Mine, before, walk.offset, limit + 1)) \in Nat
      BY <2>3, <3>1, FS_Subset, FS_CardinalityType
    <3>3. ~(Cardinality(Slice(Mine, before, walk.offset, limit + 1)) > limit)
      BY <2>1
    <3>4. PICK size : size = Cardinality(Slice(Mine, before, walk.offset, limit + 1))
      OBVIOUS
    <3>5. size <= limit
      BY <2>2, <3>2, <3>3, <3>4
    <3>6. QED BY <2>2, <2>3, <3>4, <3>5, SliceWhole
  <2>6. /\ walk \in Walk /\ IsFiniteSet(walk.listed) /\ IsFiniteSet(walk.stable)
        /\ walk.repeated \in SUBSET walk.listed
        /\ walk.offset = 0 => walk.listed = {}
        /\ walk.stable \subseteq Mine
        /\ Cardinality((walk.stable \ walk.listed) \cap A) <= walk.lost
        /\ Cardinality(walk.repeated) + Cardinality((walk.listed \cap Mine) \ A)
             <= walk.gained
    BY <1>1 DEF IInv, TypeOK, OffsetShifts, Passed
  <2>7. IsFiniteSet(items) /\ items \in SUBSET Nat
    BY <2>3, <2>4, FS_Subset
  <2>8. /\ IsFiniteSet(walk'.listed) /\ IsFiniteSet(walk'.stable)
        /\ walk'.repeated \in SUBSET walk'.listed
        /\ walk'.stable \in SUBSET Mine
    <3>1. IsFiniteSet(walk.listed \cup items)
      BY <2>6, <2>7, FS_Union
    <3>2. QED BY <2>1, <2>3, <2>6, <3>1 DEF PageOfMine
  <2>9. TypeOK' /\ TableOK'
    <3>1. /\ walk'.pc \in {"ready", "done"} /\ walk'.offset \in Nat
          /\ walk'.lost \in Nat /\ walk'.gained \in Nat
      BY <2>1, <2>2, <2>6 DEF PageOfMine, Walk
    <3>2. /\ walk'.listed \in SUBSET Nat /\ walk'.repeated \in SUBSET Nat
          /\ walk'.stable \in SUBSET Nat
      BY <2>1, <2>3, <2>6, <2>7 DEF PageOfMine, Walk
    <3>3. walk' \in Walk
      BY <2>1, <2>6, <3>1, <3>2 DEF PageOfMine, Walk
    <3>4. QED BY <1>1, <3>3 DEF IInv, TypeOK, TableOK
  <2>10. Cardinality((walk'.stable \ walk'.listed) \cap B) <= walk'.lost
         /\ IsFiniteSet((walk'.stable \ walk'.listed) \cap B)
    <3> DEFINE missed == (walk.stable \ walk.listed) \cap A
               missing == (walk'.stable \ walk'.listed) \cap B
    <3>1. CASE walk.offset = 0
      <4>1. A = {}
        BY <2>3, <3>1, RanksGrow DEF Initial
      <4>2. missing = {}
        BY <2>1, <2>4, <2>6, <3>1, <4>1 DEF PageOfMine
      <4>3. IsFiniteSet(missing) /\ Cardinality(missing) = 0
        BY <4>2, FS_EmptySet
      <4>4. walk'.lost = 0
        BY <2>1, <3>1 DEF PageOfMine
      <4>5. QED BY <4>3, <4>4
    <3>2. CASE walk.offset # 0
      <4>1. missing \in SUBSET missed /\ missed \in SUBSET walk.stable
        BY <2>1, <2>4, <3>2 DEF PageOfMine
      <4>2. IsFiniteSet(missed) /\ IsFiniteSet(missing)
        BY <2>6, <4>1, FS_Subset
      <4>3. Cardinality(missing) <= Cardinality(missed)
            /\ Cardinality(missing) \in Nat /\ Cardinality(missed) \in Nat
        BY <4>1, <4>2, FS_Subset, FS_CardinalityType
      <4>4. walk'.lost = walk.lost /\ walk.lost \in Nat
        BY <2>1, <2>6, <3>2 DEF PageOfMine, Walk
      <4>5. QED BY <2>6, <4>2, <4>3, <4>4
    <3>3. QED BY <3>1, <3>2
  <2>11. /\ Cardinality(walk'.repeated) + Cardinality((walk'.listed \cap Mine) \ B)
              <= walk'.gained
         /\ Cardinality(walk'.repeated) \in Nat
         /\ Cardinality((walk'.listed \cap Mine) \ B) \in Nat
    <3> DEFINE due == (walk.listed \cap Mine) \ A
               later == (walk'.listed \cap Mine) \ B
    <3>1. later \in SUBSET walk'.listed /\ walk'.repeated \in SUBSET walk'.listed
      BY <2>8
    <3>2. Cardinality(walk'.repeated) \in Nat /\ Cardinality(later) \in Nat
      BY <2>8, <3>1, FS_Subset, FS_CardinalityType
    <3>3. CASE walk.offset = 0
      <4>1. walk'.repeated = {} /\ later = {}
        BY <2>1, <2>4, <2>6, <3>3 DEF PageOfMine
      <4>2. Cardinality(walk'.repeated) = 0 /\ Cardinality(later) = 0
        BY <4>1, FS_EmptySet
      <4>3. QED BY <2>1, <3>3, <4>2 DEF PageOfMine
    <3>4. CASE walk.offset # 0
      <4>1. Cardinality(walk.repeated \cup (walk.listed \cap items))
              + Cardinality(((walk.listed \cup items) \cap Mine) \ (A \cup items))
              <= Cardinality(walk.repeated) + Cardinality(due)
        BY <2>4, <2>6, RepeatsCounted
      <4>2. Cardinality(walk'.repeated) + Cardinality(later)
              <= Cardinality(walk.repeated) + Cardinality(due)
        BY <2>1, <2>4, <4>1 DEF PageOfMine
      <4>3. Cardinality(walk.repeated) \in Nat /\ Cardinality(due) \in Nat
        <5>1. due \in SUBSET walk.listed
          OBVIOUS
        <5>2. QED BY <2>6, <5>1, FS_Subset, FS_CardinalityType
      <4>4. walk'.gained = walk.gained /\ walk.gained \in Nat
        BY <2>1, <2>6, <3>4 DEF PageOfMine, Walk
      <4>5. QED BY <2>6, <3>2, <4>2, <4>3, <4>4
    <3>5. QED BY <3>3, <3>4
  <2>12. Mine' = Mine /\ Passed' = B
    BY <1>1, <2>1 DEF PageOfMine, Mine, Passed, OrganizationsOf, MembershipsOf
  <2>13. walk'.list = "organizations" /\ walk'.offset # 0
    BY <2>1, <2>2 DEF PageOfMine
  <2>14. OffsetShifts'
    BY <2>8, <2>10, <2>11, <2>12, <2>13 DEF OffsetShifts
  <2>15. OffsetErrsByShifts'
    <3>1. ASSUME walk'.pc = "done" PROVE Cardinality(walk'.stable \ walk'.listed) <= walk'.lost
      <4>1. ~hasNext
        BY <2>1, <3>1 DEF PageOfMine
      <4>2. (walk'.stable \ walk'.listed) \cap B = walk'.stable \ walk'.listed
        BY <2>5, <2>8, <4>1
      <4>3. QED BY <2>10, <4>2
    <3>2. Cardinality(walk'.repeated) <= walk'.gained
      <4>1. walk'.gained \in Nat
        BY <2>9 DEF TypeOK, Walk
      <4>2. QED BY <2>11, <4>1
    <3>3. QED BY <3>1, <3>2 DEF OffsetErrsByShifts
  <2>16. CursorDivides' /\ MembersListedOnce'
    BY <2>13 DEF CursorDivides, MembersListedOnce
  <2>17. QED BY <2>9, <2>14, <2>15, <2>16 DEF IInv
<1>4. QED BY <1>2, <1>3

-----------------------------------------------------------------------------
(* Memberships come and go. *)

(* What the client has of its walk, apart from what is counted for it. *)
SameWalk ==
  /\ walk'.pc = walk.pc /\ walk'.list = walk.list /\ walk'.user = walk.user
  /\ walk'.organization = walk.organization /\ walk'.cursor = walk.cursor
  /\ walk'.offset = walk.offset /\ walk'.listed = walk.listed /\ walk'.repeated = walk.repeated

LEMMA JoinStep ==
  ASSUME IInv, NEW u \in Users, NEW o \in Organizations, NEW id \in Ids, NEW t \in Times,
         Join(u, o, id, t)
  PROVE  IInv'
<1>1. PICK row : row = [id |-> id, userId |-> u, organizationId |-> o, createdAt |-> t]
  OBVIOUS
<1>2. /\ row \in Membership /\ row.id = id /\ row.userId = u /\ row.organizationId = o
      /\ memberships' = memberships \cup {row}
      /\ issued' = issued \cup {id} /\ id \notin issued /\ ~IsMember(u, o)
  BY <1>1 DEF Join, Membership
<1>3. walk \in Walk /\ Rows(memberships) /\ \A m \in memberships : m.id \in issued
  BY DEF IInv, TypeOK, TableOK
<1>4. /\ walk' \in Walk /\ SameWalk /\ walk'.stable = walk.stable /\ walk'.lost = walk.lost
      /\ walk'.gained = IF Tours(u) THEN walk.gained + 1 ELSE walk.gained
  BY <1>3 DEF Join, SameWalk, Walk
<1>5. TypeOK'
  BY <1>2, <1>4 DEF IInv, TypeOK
<1>6. TableOK'
  <2>1. IsFiniteSet(memberships')
    BY <1>2, <1>3, FS_AddElement DEF Rows
  <2>2. Rows(memberships')
    BY <1>2, <1>3, <2>1 DEF Rows
  <2>3. \A m \in memberships : ~(m.userId = u /\ m.organizationId = o)
    BY <1>2 DEF IsMember, MembersOf, MembershipsOf
  <2>4. \A m, k \in memberships' :
          m.userId = k.userId /\ m.organizationId = k.organizationId => m = k
    BY <1>2, <2>3 DEF IInv, TableOK
  <2>5. QED BY <1>2, <1>3, <2>2, <2>4 DEF TableOK
<1>7. CASE walk.list = "members"
  <2>1. Walking' = Walking
    BY <1>4 DEF Walking, SameWalk
  <2>2. walk.listed \subseteq issued
    BY <1>7 DEF IInv, CursorDivides
  <2>3. ASSUME Walking PROVE row.id \notin walk.stable /\ row.id \notin walk.listed
    <3>1. walk.stable \subseteq {m.id : m \in MembersOf(walk.organization)}
      BY <1>7, <2>3 DEF IInv, CursorDivides
    <3>2. walk.stable \subseteq issued
      BY <1>3, <3>1 DEF MembersOf
    <3>3. QED BY <1>2, <2>2, <3>2
  <2>4. MembersListedOnce'
    BY <1>4, <1>7 DEF IInv, MembersListedOnce, SameWalk
  <2>5. OwnCursor' = OwnCursor
    BY <1>4 DEF OwnCursor, SameWalk
  <2>6. PICK table : table = MembersOf(walk.organization)'
    OBVIOUS
  <2>7. table \subseteq MembersOf(walk.organization) \cup {row}
        /\ MembersOf(walk.organization) \subseteq table
    BY <1>2, <1>4, <2>6 DEF MembersOf, SameWalk
  <2>8. ASSUME Walking
        PROVE  /\ walk.stable \subseteq {m.id : m \in table}
               /\ OwnCursor =>
                    \A m \in table :
                      /\ m.id \in walk.listed => ~Precedes(walk.cursor, m)
                      /\ m.id \in walk.stable => m.id \in walk.listed \/ Precedes(walk.cursor, m)
    <3>1. /\ walk.stable \subseteq {m.id : m \in MembersOf(walk.organization)}
          /\ OwnCursor =>
               \A m \in MembersOf(walk.organization) :
                 /\ m.id \in walk.listed => ~Precedes(walk.cursor, m)
                 /\ m.id \in walk.stable => m.id \in walk.listed \/ Precedes(walk.cursor, m)
      BY <1>7, <2>8 DEF IInv, CursorDivides
    <3>2. QED BY <2>3, <2>7, <2>8, <3>1
  <2>9. Walking => walk.organization \in Organizations /\ (walk.listed # {} <=> OwnCursor)
    BY <1>7 DEF IInv, CursorDivides
  <2>10. CursorDivides'
    BY <1>2, <1>4, <1>7, <2>1, <2>2, <2>5, <2>6, <2>8, <2>9 DEF CursorDivides, SameWalk
  <2>11. OffsetShifts' /\ OffsetErrsByShifts'
    BY <1>4, <1>7 DEF OffsetShifts, OffsetErrsByShifts, SameWalk
  <2>12. QED BY <1>5, <1>6, <2>4, <2>10, <2>11 DEF IInv
<1>8. CASE walk.list = "organizations"
  <2>1. /\ IsFiniteSet(walk.listed) /\ walk.repeated \in SUBSET walk.listed
        /\ IsFiniteSet(walk.stable)
    BY <1>8 DEF IInv, OffsetShifts
  <2>2. Cardinality(walk.repeated) \in Nat
    BY <2>1, FS_Subset, FS_CardinalityType
  <2>3. walk.gained \in Nat /\ walk'.gained \in Nat /\ walk.gained <= walk'.gained
    BY <1>3, <1>4 DEF Walk
  <2>4. OffsetErrsByShifts'
    BY <1>4, <1>8, <2>2, <2>3 DEF IInv, OffsetErrsByShifts, SameWalk
  <2>5. CursorDivides' /\ MembersListedOnce'
    BY <1>4, <1>8 DEF CursorDivides, MembersListedOnce, SameWalk
  <2>6. ASSUME Walking
        PROVE  /\ walk'.stable \subseteq Mine'
               /\ Cardinality((walk'.stable \ walk'.listed) \cap Passed') <= walk'.lost
               /\ Cardinality(walk'.repeated) + Cardinality((walk'.listed \cap Mine') \ Passed')
                    <= walk'.gained
    <3>1. /\ walk.stable \subseteq Mine
          /\ Cardinality((walk.stable \ walk.listed) \cap Passed) <= walk.lost
          /\ Cardinality(walk.repeated) + Cardinality((walk.listed \cap Mine) \ Passed)
               <= walk.gained
      BY <1>8, <2>6 DEF IInv, OffsetShifts
    <3>2. CASE walk.user # u
      <4>1. Mine' = Mine
        BY <1>2, <1>4, <3>2 DEF Mine, OrganizationsOf, MembershipsOf, SameWalk
      <4>2. Passed' = Passed
        BY <1>4, <4>1 DEF Passed, SameWalk
      <4>3. walk'.gained = walk.gained
        BY <1>4, <3>2 DEF Tours
      <4>4. QED BY <1>4, <3>1, <4>1, <4>2, <4>3 DEF SameWalk
    <3>3. CASE walk.user = u
      <4>1. Mine' = Mine \cup {o} /\ o \notin Mine
        BY <1>2, <1>4, <3>3
           DEF Mine, OrganizationsOf, MembershipsOf, MembersOf, IsMember, SameWalk
      <4>2. Mine \in SUBSET Nat /\ IsFiniteSet(Mine) /\ o \in Nat \ Mine /\ walk.offset \in Nat
        BY <1>3, <4>1, OrgsOfRows DEF Mine, Walk
      <4>3. Passed' = Initial(Mine \cup {o}, OrgsBefore(Mine \cup {o}), walk.offset)
        BY <1>4, <4>1 DEF Passed, SameWalk
      <4>4. /\ Passed' \cap Mine \subseteq Passed
            /\ Cardinality((walk.listed \cap (Mine \cup {o})) \ Passed')
                 <= Cardinality((walk.listed \cap Mine) \ Passed) + 1
        BY <2>1, <4>2, <4>3, GainShifts DEF Passed
      <4>5. walk'.gained = walk.gained + 1
        BY <1>4, <1>8, <3>3 DEF Tours
      <4>6. Cardinality((walk.stable \ walk.listed) \cap Passed') <= walk.lost
        <5> DEFINE old == (walk.stable \ walk.listed) \cap Passed
                   new == (walk.stable \ walk.listed) \cap Passed'
        <5>1. new \in SUBSET old /\ old \in SUBSET walk.stable
          BY <3>1, <4>4
        <5>2. IsFiniteSet(old) /\ IsFiniteSet(new)
          BY <2>1, <5>1, FS_Subset
        <5>3. Cardinality(new) <= Cardinality(old)
              /\ Cardinality(new) \in Nat /\ Cardinality(old) \in Nat
          BY <5>1, <5>2, FS_Subset, FS_CardinalityType
        <5>4. walk.lost \in Nat
          BY <1>3 DEF Walk
        <5>5. QED BY <3>1, <5>3, <5>4
      <4>7. Cardinality(walk.repeated) + Cardinality((walk.listed \cap Mine') \ Passed')
              <= walk'.gained
        <5> DEFINE old == (walk.listed \cap Mine) \ Passed
                   new == (walk.listed \cap Mine') \ Passed'
        <5>1. old \in SUBSET walk.listed /\ new \in SUBSET walk.listed
          OBVIOUS
        <5>2. Cardinality(old) \in Nat /\ Cardinality(new) \in Nat
          BY <2>1, <5>1, FS_Subset, FS_CardinalityType
        <5>3. Cardinality(new) <= Cardinality(old) + 1
          BY <4>1, <4>4
        <5>4. Cardinality(walk.repeated) + Cardinality(old) <= walk.gained
          BY <3>1
        <5> HIDE DEF old, new
        <5>5. Cardinality(walk.repeated) + Cardinality(new) <= walk'.gained
          BY <2>2, <2>3, <4>5, <5>2, <5>3, <5>4
        <5>6. QED BY <5>5 DEF new
      <4>8. QED BY <1>4, <3>1, <4>1, <4>6, <4>7 DEF SameWalk
    <3>4. QED BY <3>2, <3>3
  <2>7. OffsetShifts'
    BY <1>4, <1>8, <2>1, <2>6 DEF IInv, OffsetShifts, SameWalk, Walking
  <2>8. QED BY <1>5, <1>6, <2>4, <2>5, <2>7 DEF IInv
<1>9. QED BY <1>3, <1>7, <1>8 DEF Walk

LEMMA LeaveStep ==
  ASSUME IInv, NEW gone \in SUBSET memberships, Leave(gone)
  PROVE  IInv'
<1>1. /\ memberships' = memberships \ gone /\ issued' = issued
      /\ walk \in Walk /\ Rows(memberships)
  BY DEF Leave, IInv, TypeOK, TableOK
<1>2. PICK ids : ids = IF walk.list = "organizations"
                       THEN {m.organizationId : m \in gone \cap MembershipsOf(walk.user)}
                       ELSE {m.id : m \in gone}
  OBVIOUS
<1>3. Cardinality(ids) \in Nat \/ walk.list # "organizations"
  <2> SUFFICES ASSUME walk.list = "organizations" PROVE Cardinality(ids) \in Nat
    OBVIOUS
  <2>1. ids \in SUBSET OrganizationsOf(walk.user)
    BY <1>2 DEF OrganizationsOf
  <2>2. QED BY <1>1, <2>1, OrgsOfRows, FS_Subset, FS_CardinalityType
<1>4. /\ walk' \in Walk /\ SameWalk /\ walk'.stable = walk.stable \ ids
      /\ walk'.gained = walk.gained
      /\ walk'.lost = IF walk.list = "organizations" THEN walk.lost + Cardinality(ids)
                      ELSE walk.lost
  <2>1. PICK lost : lost = IF walk.list = "organizations" THEN walk.lost + Cardinality(ids)
                           ELSE walk.lost
    OBVIOUS
  <2>2. walk' = [walk EXCEPT !.stable = walk.stable \ ids, !.lost = lost]
    BY <1>1, <1>2, <2>1 DEF Leave, Tours, Walk
  <2>3. lost \in Nat
    BY <1>1, <1>3, <2>1 DEF Walk
  <2>4. QED BY <1>1, <2>1, <2>2, <2>3 DEF SameWalk, Walk
<1>5. TypeOK'
  BY <1>1, <1>4 DEF IInv, TypeOK
<1>6. TableOK'
  <2>1. memberships' \in SUBSET memberships
    BY <1>1
  <2>2. IsFiniteSet(memberships')
    BY <1>1, <2>1, FS_Subset DEF Rows
  <2>3. Rows(memberships')
    BY <1>1, <2>1, <2>2 DEF Rows
  <2>4. QED BY <1>1, <2>1, <2>3 DEF IInv, TableOK
<1>7. CASE walk.list = "members"
  <2>1. Walking' = Walking /\ OwnCursor' = OwnCursor
    BY <1>4 DEF Walking, OwnCursor, SameWalk
  <2>2. MembersListedOnce'
    BY <1>4, <1>7 DEF IInv, MembersListedOnce, SameWalk
  <2>3. PICK table : table = MembersOf(walk.organization)'
    OBVIOUS
  <2>4. table = MembersOf(walk.organization) \ gone
    BY <1>1, <1>4, <2>3 DEF MembersOf, SameWalk
  <2>5. ids = {m.id : m \in gone}
    BY <1>2, <1>7
  <2>6. ASSUME Walking
        PROVE  /\ walk.stable \ ids \subseteq {m.id : m \in table}
               /\ OwnCursor =>
                    \A m \in table :
                      /\ m.id \in walk.listed => ~Precedes(walk.cursor, m)
                      /\ m.id \in walk.stable => m.id \in walk.listed \/ Precedes(walk.cursor, m)
    <3>1. /\ walk.stable \subseteq {m.id : m \in MembersOf(walk.organization)}
          /\ OwnCursor =>
               \A m \in MembersOf(walk.organization) :
                 /\ m.id \in walk.listed => ~Precedes(walk.cursor, m)
                 /\ m.id \in walk.stable => m.id \in walk.listed \/ Precedes(walk.cursor, m)
      BY <1>7, <2>6 DEF IInv, CursorDivides
    <3>2. QED BY <2>4, <2>5, <3>1
  <2>7. /\ walk.listed \subseteq issued
        /\ Walking => walk.organization \in Organizations /\ (walk.listed # {} <=> OwnCursor)
    BY <1>7 DEF IInv, CursorDivides
  <2>8. CursorDivides'
    BY <1>1, <1>4, <1>7, <2>1, <2>3, <2>6, <2>7 DEF CursorDivides, SameWalk
  <2>9. OffsetShifts' /\ OffsetErrsByShifts'
    BY <1>4, <1>7 DEF OffsetShifts, OffsetErrsByShifts, SameWalk
  <2>10. QED BY <1>5, <1>6, <2>2, <2>8, <2>9 DEF IInv
<1>8. CASE walk.list = "organizations"
  <2>1. /\ IsFiniteSet(walk.listed) /\ walk.repeated \in SUBSET walk.listed
        /\ IsFiniteSet(walk.stable) /\ IsFiniteSet(walk.stable \ ids)
    BY <1>8, FS_Difference DEF IInv, OffsetShifts
  <2>2. Cardinality(ids) \in Nat /\ walk.lost \in Nat /\ walk.gained \in Nat
        /\ walk'.lost = walk.lost + Cardinality(ids)
    BY <1>1, <1>3, <1>4, <1>8 DEF Walk
  <2>3. OffsetErrsByShifts'
    <3>1. ASSUME walk.pc = "done"
          PROVE  Cardinality((walk.stable \ ids) \ walk.listed) <= walk.lost + Cardinality(ids)
      <4> DEFINE old == walk.stable \ walk.listed
                 new == (walk.stable \ ids) \ walk.listed
      <4>1. Cardinality(old) <= walk.lost
        BY <1>8, <3>1 DEF IInv, OffsetErrsByShifts
      <4>2. new \in SUBSET old /\ IsFiniteSet(old)
        BY <2>1, FS_Difference
      <4>3. Cardinality(new) <= Cardinality(old)
            /\ Cardinality(new) \in Nat /\ Cardinality(old) \in Nat
        BY <4>2, FS_Subset, FS_CardinalityType
      <4>4. QED BY <2>2, <4>1, <4>3
    <3>2. QED
      BY <1>4, <1>8, <2>2, <3>1 DEF IInv, OffsetErrsByShifts, SameWalk
  <2>4. CursorDivides' /\ MembersListedOnce'
    BY <1>4, <1>8 DEF CursorDivides, MembersListedOnce, SameWalk
  <2>5. Mine' = Mine \ ids /\ ids \subseteq Mine
    <3>1. ids = {m.organizationId : m \in gone \cap MembershipsOf(walk.user)}
      BY <1>2, <1>8
    <3>2. Mine' = {m.organizationId : m \in MembershipsOf(walk.user) \ gone}
      BY <1>1, <1>4 DEF Mine, OrganizationsOf, MembershipsOf, SameWalk
    <3>3. \A m, k \in MembershipsOf(walk.user) : m.organizationId = k.organizationId => m = k
      BY DEF IInv, TableOK, MembershipsOf
    <3>4. QED BY <3>1, <3>2, <3>3 DEF Mine, OrganizationsOf
  <2>6. Mine \in SUBSET Nat /\ IsFiniteSet(Mine) /\ walk.offset \in Nat
    BY <1>1, OrgsOfRows DEF Mine, Walk
  <2>7. ASSUME Walking
        PROVE  /\ walk'.stable \subseteq Mine'
               /\ Cardinality((walk'.stable \ walk'.listed) \cap Passed') <= walk'.lost
               /\ Cardinality(walk'.repeated) + Cardinality((walk'.listed \cap Mine') \ Passed')
                    <= walk'.gained
    <3>1. /\ walk.stable \subseteq Mine
          /\ Cardinality((walk.stable \ walk.listed) \cap Passed) <= walk.lost
          /\ Cardinality(walk.repeated) + Cardinality((walk.listed \cap Mine) \ Passed)
               <= walk.gained
      BY <1>8, <2>7 DEF IInv, OffsetShifts
    <3>2. PICK P : P = Mine \ ids
      OBVIOUS
    <3>3. P \in SUBSET Mine /\ Mine \ P = ids /\ Mine' = P
      BY <2>5, <3>2
    <3>4. Passed' = Initial(P, OrgsBefore(P), walk.offset)
      BY <1>4, <3>3 DEF Passed, SameWalk
    <3>5. /\ (walk.listed \cap P) \ Passed' \subseteq (walk.listed \cap Mine) \ Passed
          /\ Cardinality(((walk.stable \ (Mine \ P)) \ walk.listed) \cap Passed')
               <= Cardinality((walk.stable \ walk.listed) \cap Passed) + Cardinality(Mine \ P)
      <4>1. /\ (walk.listed \cap P) \ Initial(P, OrgsBefore(P), walk.offset)
                 \subseteq (walk.listed \cap Mine) \ Initial(Mine, OrgsBefore(Mine), walk.offset)
            /\ Cardinality(((walk.stable \ (Mine \ P)) \ walk.listed)
                             \cap Initial(P, OrgsBefore(P), walk.offset))
                 <= Cardinality((walk.stable \ walk.listed)
                                  \cap Initial(Mine, OrgsBefore(Mine), walk.offset))
                      + Cardinality(Mine \ P)
        <5>1. PICK O, n, listed, stable :
                O = Mine /\ n = walk.offset /\ listed = walk.listed /\ stable = walk.stable
          OBVIOUS
        <5>2. O \in SUBSET Nat /\ IsFiniteSet(O) /\ P \in SUBSET O /\ n \in Nat /\ IsFiniteSet(stable)
          BY <2>1, <2>6, <3>3, <5>1
        <5>3. /\ (listed \cap P) \ Initial(P, OrgsBefore(P), n)
                   \subseteq (listed \cap O) \ Initial(O, OrgsBefore(O), n)
              /\ Cardinality(((stable \ (O \ P)) \ listed) \cap Initial(P, OrgsBefore(P), n))
                   <= Cardinality((stable \ listed) \cap Initial(O, OrgsBefore(O), n))
                        + Cardinality(O \ P)
          BY <5>2, LossShifts
        <5>4. QED BY <5>1, <5>3
      <4>2. QED BY <3>4, <4>1 DEF Passed
    <3>6. Cardinality(((walk.stable \ ids) \ walk.listed) \cap Passed')
            <= walk.lost + Cardinality(ids)
      <4> DEFINE old == (walk.stable \ walk.listed) \cap Passed
                 new == ((walk.stable \ ids) \ walk.listed) \cap Passed'
      <4>1. old \in SUBSET walk.stable /\ new \in SUBSET walk.stable
        OBVIOUS
      <4>2. Cardinality(old) \in Nat /\ Cardinality(new) \in Nat
        BY <2>1, <4>1, FS_Subset, FS_CardinalityType
      <4>3. Cardinality(new) <= Cardinality(old) + Cardinality(ids) /\ Cardinality(old) <= walk.lost
        BY <3>1, <3>3, <3>5
      <4> HIDE DEF old, new
      <4>4. Cardinality(new) <= walk.lost + Cardinality(ids)
        BY <2>2, <4>2, <4>3
      <4>5. QED BY <4>4 DEF new
    <3>7. Cardinality(walk.repeated) + Cardinality((walk.listed \cap P) \ Passed') <= walk.gained
      <4> DEFINE old == (walk.listed \cap Mine) \ Passed
                 new == (walk.listed \cap P) \ Passed'
      <4>1. old \in SUBSET walk.listed /\ new \in SUBSET old
        BY <3>5
      <4>2. IsFiniteSet(old)
        BY <2>1, <4>1, FS_Subset
      <4>3. Cardinality(new) <= Cardinality(old)
            /\ Cardinality(new) \in Nat /\ Cardinality(old) \in Nat
        BY <4>1, <4>2, FS_Subset, FS_CardinalityType
      <4>4. Cardinality(walk.repeated) \in Nat
        BY <2>1, FS_Subset, FS_CardinalityType
      <4>5. Cardinality(walk.repeated) + Cardinality(old) <= walk.gained
        BY <3>1
      <4> HIDE DEF old, new
      <4>6. Cardinality(walk.repeated) + Cardinality(new) <= walk.gained
        BY <2>2, <4>3, <4>4, <4>5
      <4>7. QED BY <4>6 DEF new
    <3>8. walk'.stable \subseteq Mine'
      BY <1>4, <2>5, <3>1
    <3>9. QED BY <1>4, <2>2, <3>3, <3>6, <3>7, <3>8 DEF SameWalk
  <2>8. OffsetShifts'
    BY <1>4, <1>8, <2>1, <2>7 DEF IInv, OffsetShifts, SameWalk, Walking
  <2>9. QED BY <1>5, <1>6, <2>3, <2>4, <2>8 DEF IInv
<1>9. QED BY <1>1, <1>7, <1>8 DEF Walk

-----------------------------------------------------------------------------

LEMMA LeavesAreRows ==
  ASSUME Leaves
  PROVE  \E gone \in SUBSET memberships : Leave(gone)
<1>1. CASE \E m \in memberships : Leave({m})
  BY <1>1
<1>2. CASE \E u \in Users : Leave(MembershipsOf(u))
  <2>1. PICK u \in Users : Leave(MembershipsOf(u))
    BY <1>2
  <2>2. MembershipsOf(u) \in SUBSET memberships
    BY DEF MembershipsOf
  <2>3. QED BY <2>1, <2>2
<1>3. CASE \E o \in Organizations : Leave(MembersOf(o))
  <2>1. PICK o \in Organizations : Leave(MembersOf(o))
    BY <1>3
  <2>2. MembersOf(o) \in SUBSET memberships
    BY DEF MembersOf
  <2>3. QED BY <2>1, <2>2
<1>4. QED BY <1>1, <1>2, <1>3 DEF Leaves

LEMMA StepKeeps == IInv /\ [Next]_vars => IInv'
<1> SUFFICES ASSUME IInv, [Next]_vars PROVE IInv'
  OBVIOUS
<1>1. ASSUME NEW u \in Users, NEW o \in Organizations, NEW id \in Ids, NEW t \in Times,
             Join(u, o, id, t)
      PROVE  IInv'
  BY <1>1, JoinStep
<1>2. CASE Leaves
  BY <1>2, LeavesAreRows, LeaveStep
<1>3. ASSUME NEW u \in Users, NEW o \in Organizations, BeginMembers(u, o) PROVE IInv'
  BY <1>3, BeginMembersStep
<1>4. ASSUME NEW o \in Organizations, Redirect(o) PROVE IInv'
  BY <1>4, RedirectStep
<1>5. CASE AdmitMember \/ AdmitUser \/ LoseAnswer
  BY <1>5, AdmitStep
<1>6. ASSUME NEW limit \in Limits, ListMembers(limit) PROVE IInv'
  BY <1>6, ListMembersStep
<1>7. ASSUME NEW limit \in Limits, ListMine(limit) PROVE IInv'
  BY <1>7, ListMineStep
<1>8. ASSUME NEW u \in Users, BeginOrganizations(u) PROVE IInv'
  BY <1>8, BeginOrganizationsStep
<1>9. CASE UNCHANGED vars
  <2>1. memberships' = memberships /\ issued' = issued /\ walk' = walk
    BY <1>9 DEF vars
  <2>2. TypeOK' /\ TableOK' /\ MembersListedOnce' /\ OffsetErrsByShifts'
    BY <2>1 DEF IInv, TypeOK, TableOK, MembersListedOnce, OffsetErrsByShifts
  <2>3. CursorDivides'
    BY <2>1 DEF IInv, CursorDivides, Walking, OwnCursor, MembersOf
  <2>4. Mine' = Mine /\ Passed' = Passed
    BY <2>1 DEF Mine, Passed, OrganizationsOf, MembershipsOf
  <2>5. OffsetShifts'
    BY <2>1, <2>4 DEF IInv, OffsetShifts, Walking
  <2>6. QED BY <2>2, <2>3, <2>5 DEF IInv
<1>10. QED
  BY <1>1, <1>2, <1>3, <1>4, <1>5, <1>6, <1>7, <1>8, <1>9 DEF Next

(* The position in the cursor divides the members listed from those still  *)
(* to come, and what an offset passes over unlisted is paid for by losses: *)
(* the invariant that makes the two lists right, for any size of a page    *)
(* and any change of the Membership table at any time.                     *)
THEOREM Invariance == Spec => []IInv
  BY InitHolds, StepKeeps, PTL DEF Spec

(* Cursors, offsets and counters keep their types, and the cursor that is  *)
(* handed out is always the position of a row that was there.              *)
THEOREM TypeCorrect == Spec => []TypeOK
<1>1. IInv => TypeOK
  BY DEF IInv
<1>2. QED BY <1>1, Invariance, PTL

(* The cursor list misses no lasting member and lists no membership twice, *)
(* for any number of members, clocks that run apart, and any changes       *)
(* between the pages.                                                      *)
THEOREM ListedOnce == Spec => []MembersListedOnce
<1>1. IInv => MembersListedOnce
  BY DEF IInv
<1>2. QED BY <1>1, Invariance, PTL

(* The offset list errs by the shifts under it and by no more, for any     *)
(* number of organizations and pages of any size.                          *)
THEOREM ErrsByShifts == Spec => []OffsetErrsByShifts
<1>1. IInv => OffsetErrsByShifts
  BY DEF IInv
<1>2. QED BY <1>1, Invariance, PTL
=============================================================================
