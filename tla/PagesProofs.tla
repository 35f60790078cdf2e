------------------------------ MODULE PagesProofs ------------------------------
(***************************************************************************)
(* What the pages and cursors of Pages are, for rows of any number.        *)
(***************************************************************************)
EXTENDS Pages, FiniteSetTheorems, WellFoundedInduction, TLAPS

Rows == [at : Nat, id : Nat]

\* Two rows are the same if date and id are.
LEMMA RowsEqual == ASSUME NEW a \in Rows, NEW b \in Rows, a.at = b.at, a.id = b.id PROVE a = b
  BY DEF Rows

\* The order of a list is strict and total, whichever way it goes.
LEMMA BeforeIsOrder ==
    ASSUME NEW order, NEW a \in Rows, NEW b \in Rows
    PROVE  /\ ~Before(order, a, a)
           /\ Before(order, a, b) => ~Before(order, b, a)
           /\ Before(order, a, b) \/ Before(order, b, a) \/ a = b
           /\ \A c \in Rows : Before(order, a, b) /\ Before(order, b, c) => Before(order, a, c)
<1>1. /\ ~Before(order, a, a)
      /\ Before(order, a, b) => ~Before(order, b, a)
      /\ \A c \in Rows : Before(order, a, b) /\ Before(order, b, c) => Before(order, a, c)
  BY DEF Before, Rows
<1>2. a.at # b.at \/ a.id # b.id => Before(order, a, b) \/ Before(order, b, a)
  BY DEF Before, Rows
<1> QED
  BY <1>1, <1>2, RowsEqual

\* A strict order on a finite set has a first element.
LEMMA Minimal ==
    ASSUME NEW S, IsFiniteSet(S), S # {}, NEW R,
           \A a \in S : <<a, a>> \notin R,
           \A a, b, c \in S : <<a, b>> \in R /\ <<b, c>> \in R => <<a, c>> \in R
    PROVE  \E e \in S : \A d \in S : <<d, e>> \notin R
<1> DEFINE Below(e) == {d \in S : <<d, e>> \in R}
           Family == {Below(e) : e \in S}
<1>1. Family \subseteq FiniteSubsetsOf(S) /\ Family # {}
  <2>1. \A e \in S : Below(e) \in SUBSET S
    OBVIOUS
  <2>2. PICK e \in S : TRUE
    OBVIOUS
  <2>3. Below(e) \in Family
    BY <2>2
  <2> HIDE DEF Below
  <2> QED
    BY <2>1, <2>3, FS_FiniteSubsetsOfFinite
<1>2. PICK m \in Family : \A x \in Family : <<x, m>> \notin StrictSubsetOrdering(S)
  <2>1. IsWellFoundedOn(StrictSubsetOrdering(S), FiniteSubsetsOf(S))
    BY FS_StrictSubsetOrderingWellFounded
  <2> QED
    BY <1>1, <2>1, WFMin
<1>3. PICK e \in S : m = Below(e)
  OBVIOUS
<1>4. ASSUME NEW d \in S, <<d, e>> \in R PROVE FALSE
  <2>1. Below(d) \subseteq Below(e) /\ d \in Below(e) /\ d \notin Below(d)
    BY <1>4
  <2>2. <<Below(d), Below(e)>> \in StrictSubsetOrdering(S)
    BY <2>1 DEF StrictSubsetOrdering
  <2> QED
    BY <1>2, <1>3, <2>2
<1> QED
  BY <1>4

\* Rows have a first one in the order of a list.
LEMMA FirstRow ==
    ASSUME NEW order, NEW rows \in SUBSET Rows, IsFiniteSet(rows), rows # {}
    PROVE  \E e \in rows : \A d \in rows : ~Before(order, d, e)
<1> DEFINE R == {p \in rows \X rows : Before(order, p[1], p[2])}
<1>1. \A a, b \in rows : <<a, b>> \in R <=> Before(order, a, b)
  OBVIOUS
<1> HIDE DEF R
<1>2. /\ \A a \in rows : <<a, a>> \notin R
      /\ \A a, b, c \in rows : <<a, b>> \in R /\ <<b, c>> \in R => <<a, c>> \in R
  BY <1>1, BeforeIsOrder
<1>3. \E e \in rows : \A d \in rows : <<d, e>> \notin R
  BY <1>2, Minimal
<1> QED
  BY <1>1, <1>3

\* And a last one, which Last finds.
LEMMA LastRow ==
    ASSUME NEW order, NEW page \in SUBSET Rows, IsFiniteSet(page), page # {}
    PROVE  /\ Last(page, order) \in page
           /\ \A d \in page : d = Last(page, order) \/ Before(order, d, Last(page, order))
<1> DEFINE R == {p \in page \X page : Before(order, p[2], p[1])}
<1>1. \A a, b \in page : <<a, b>> \in R <=> Before(order, b, a)
  OBVIOUS
<1> HIDE DEF R
<1>2. /\ \A a \in page : <<a, a>> \notin R
      /\ \A a, b, c \in page : <<a, b>> \in R /\ <<b, c>> \in R => <<a, c>> \in R
  BY <1>1, BeforeIsOrder
<1>3. \E e \in page : \A d \in page : <<d, e>> \notin R
  BY <1>2, Minimal
<1>4. \E e \in page : \A d \in page : d = e \/ Before(order, d, e)
  BY <1>1, <1>3, BeforeIsOrder
<1> QED
  BY <1>4 DEF Last

\* The rows before one of a finite set.
LEMMA BeforeFinite ==
    ASSUME NEW order, NEW rows, IsFiniteSet(rows), NEW e
    PROVE  LET below == {d \in rows : Before(order, d, e)}
           IN  /\ IsFiniteSet(below) /\ Cardinality(below) \in Nat
               /\ Cardinality(below) <= Cardinality(rows)
<1> DEFINE below == {d \in rows : Before(order, d, e)}
<1>1. below \in SUBSET rows
  OBVIOUS
<1> HIDE DEF below
<1>2. IsFiniteSet(below) /\ Cardinality(below) <= Cardinality(rows)
  BY <1>1, FS_Subset
<1>3. Cardinality(below) \in Nat
  BY <1>2, FS_CardinalityType
<1> QED
  BY <1>2, <1>3 DEF below

\* LIMIT cuts a list where its order says: a row of the page comes before all rows
\* that are not on it, and nothing is cut from a page with fewer rows.
LEMMA LimitedIsPage ==
    ASSUME NEW order, NEW rows \in SUBSET Rows, IsFiniteSet(rows), NEW limit \in Nat
    PROVE  LET page == Limited(rows, order, limit)
           IN  /\ page \subseteq rows /\ IsFiniteSet(page)
               /\ \A d \in page, e \in rows \ page : Before(order, d, e)
               /\ Cardinality(page) < limit => page = rows
               /\ Cardinality(rows) < limit => page = rows
<1> DEFINE Below(e) == {d \in rows : Before(order, d, e)}
           page == Limited(rows, order, limit)
<1>1. \A e \in rows : e \in page <=> Cardinality(Below(e)) < limit
  BY DEF Limited
<1>2. page \subseteq rows /\ IsFiniteSet(page)
  <2>1. page \in SUBSET rows
    BY DEF Limited
  <2> QED
    BY <2>1, FS_Subset
<1>3. \A e \in rows : IsFiniteSet(Below(e)) /\ Cardinality(Below(e)) \in Nat
                        /\ Cardinality(Below(e)) <= Cardinality(rows)
  BY BeforeFinite
<1>4. ASSUME NEW d \in page, NEW e \in rows \ page PROVE Before(order, d, e)
  <2>1. SUFFICES ASSUME Before(order, e, d) PROVE FALSE
    BY <1>2, <1>4, BeforeIsOrder
  <2>2. d \in rows /\ e \in rows /\ d \in Rows /\ e \in Rows
    BY <1>2
  <2>3. \A c \in rows : Before(order, c, e) => Before(order, c, d)
    BY <2>1, <2>2, BeforeIsOrder
  <2>4. Below(e) \in SUBSET Below(d)
    BY <2>3
  <2> HIDE DEF Below
  <2>5. Cardinality(Below(e)) <= Cardinality(Below(d))
    BY <1>3, <2>2, <2>4, FS_Subset
  <2> QED
    BY <1>1, <1>3, <1>4, <2>2, <2>5
<1>5. ASSUME Cardinality(page) < limit PROVE page = rows
  <2> DEFINE left == rows \ page
  <2>1. SUFFICES ASSUME left # {} PROVE FALSE
    BY <1>2
  <2>2. left \in SUBSET Rows /\ left \in SUBSET rows
    OBVIOUS
  <2>3. IsFiniteSet(left)
    BY <2>2, FS_Subset
  <2>4. PICK e \in left : \A d \in left : ~Before(order, d, e)
    BY <2>1, <2>2, <2>3, FirstRow
  <2>5. Below(e) \in SUBSET page
    BY <2>4
  <2> HIDE DEF Below, page
  <2>6. Cardinality(Below(e)) <= Cardinality(page)
    BY <1>2, <2>5, FS_Subset
  <2>7. Cardinality(page) \in Nat
    BY <1>2, FS_CardinalityType
  <2> QED
    BY <1>1, <1>3, <1>5, <2>4, <2>6, <2>7
<1>6. ASSUME Cardinality(rows) < limit PROVE page = rows
  <2>1. Cardinality(rows) \in Nat
    BY FS_CardinalityType
  <2> HIDE DEF Below, page
  <2> QED
    BY <1>1, <1>2, <1>3, <1>6, <2>1
<1> QED
  BY <1>2, <1>4, <1>5, <1>6

\* LIMIT: a page has no more rows than asked for.
LEMMA PageSize ==
    ASSUME NEW order, NEW rows \in SUBSET Rows, IsFiniteSet(rows), NEW limit \in Nat
    PROVE  Cardinality(Limited(rows, order, limit)) <= limit
<1> DEFINE page == Limited(rows, order, limit)
<1>1. page \in SUBSET rows /\ page \in SUBSET Rows
  BY DEF Limited
<1>2. IsFiniteSet(page) /\ Cardinality(page) \in Nat
  BY <1>1, FS_Subset, FS_CardinalityType
<1>3. CASE page = {}
  BY <1>3, FS_EmptySet
<1>4. CASE page # {}
  <2> DEFINE last == Last(page, order)
             Below == {d \in rows : Before(order, d, last)}
  <2>1. last \in page /\ \A d \in page : d = last \/ Before(order, d, last)
    BY <1>1, <1>2, <1>4, LastRow
  <2>2. Cardinality(Below) < limit
    BY <2>1 DEF Limited
  <2>3. IsFiniteSet(Below) /\ Cardinality(Below) \in Nat
    BY BeforeFinite
  <2>4. page \ {last} \in SUBSET Below
    BY <1>1, <2>1
  <2> HIDE DEF page, last, Below
  <2>5. Cardinality(page \ {last}) <= Cardinality(Below)
    BY <2>3, <2>4, FS_Subset
  <2>6. Cardinality(page \ {last}) = Cardinality(page) - 1
    BY <1>2, <2>1, FS_RemoveElement
  <2> QED
    BY <1>2, <2>2, <2>3, <2>5, <2>6 DEF page
<1> QED
  BY <1>3, <1>4

\* A full page has a last row.
LEMMA FullPage ==
    ASSUME NEW order, NEW page \in SUBSET Rows, IsFiniteSet(page),
           NEW limit \in Nat \ {0}, limit <= Cardinality(page)
    PROVE  /\ page # {} /\ Last(page, order) \in page
           /\ \A d \in page : d = Last(page, order) \/ Before(order, d, Last(page, order))
<1>1. page # {}
  BY FS_EmptySet
<1> QED
  BY <1>1, LastRow

\* The cursor answered with a page: none if rows are fewer than the limit.
LEMMA NextIsLast ==
    ASSUME NEW order, NEW page \in SUBSET Rows, IsFiniteSet(page), NEW limit \in Nat \ {0}
    PROVE  LET next == NextCursor(page, order, limit)
           IN  /\ next = None <=> Cardinality(page) < limit
               /\ next # None =>
                    /\ next = Last(page, order) /\ next \in page
                    /\ \A d \in page : d = next \/ Before(order, d, next)
                    /\ limit <= Cardinality(page)
<1>1. Cardinality(page) \in Nat
  BY FS_CardinalityType
<1>2. CASE Cardinality(page) < limit
  BY <1>2 DEF NextCursor
<1>3. CASE limit <= Cardinality(page)
  <2>1. /\ Last(page, order) \in page
        /\ \A d \in page : d = Last(page, order) \/ Before(order, d, Last(page, order))
    BY <1>3, FullPage
  <2>2. Last(page, order) # None
    BY <2>1, NoneAssumption DEF Rows
  <2> QED
    BY <1>1, <1>3, <2>1, <2>2 DEF NextCursor
<1> QED
  BY <1>1, <1>2, <1>3

=============================================================================
