--------------------------- MODULE PagedWalkProofs ---------------------------
(* Proofs about PagedWalk. *)
EXTENDS PagedWalk, TLAPS

IInv == TypeOK /\ ShownIsBehind /\ StayedIsAhead /\ NothingTwice

\* Changes of the list leave the client where he is.
LEMMA ChurnKeeps == IInv /\ Churn => IInv'
  BY DEF IInv, Churn, TypeOK, ShownIsBehind, StayedIsAhead, NothingTwice, Precedes

\* A page shows nothing again, and moves the cursor behind all it has shown.
LEMMA FetchKeeps == ASSUME IsOrder, IInv, NEW page \in SUBSET listed, Fetch(page) PROVE IInv'
<1> USE DEF IsOrder
<1>1. page \subseteq Rest /\ page \subseteq Item /\ ~over
  BY DEF Fetch, IsPage, IInv, TypeOK
<1>2. page \cap shown = {}
  BY <1>1 DEF Rest, IInv, ShownIsBehind
<1>3. TypeOK'
  BY <1>1 DEF Fetch, IInv, TypeOK
<1>4. NothingTwice'
  BY <1>2 DEF Fetch, IInv, NothingTwice
<1>5. CASE over' = TRUE
  <2>1. ShownIsBehind'
    BY <1>5 DEF ShownIsBehind
  <2>2. StayedIsAhead'
    BY <1>1, <1>5 DEF Fetch, IInv, TypeOK, StayedIsAhead, Rest
  <2> QED
    BY <1>3, <1>4, <2>1, <2>2 DEF IInv
<1>6. CASE over' = FALSE
  <2>1. /\ cursor' \in page /\ cursor' # Start
        /\ \A e \in page : e # cursor' => <<e, cursor'>> \in Order
        /\ shown' = shown \cup page /\ listed' = listed /\ stayed' = stayed
    BY <1>1, <1>6 DEF Fetch
  <2>2. cursor # Start => <<cursor, cursor'>> \in Order
    BY <1>1, <2>1 DEF Rest, Precedes
  <2>3. ASSUME NEW e \in shown' PROVE <<cursor', e>> \notin Order
    <3>1. CASE e \in page
      <4>1. e \in Item /\ cursor' \in Item
        BY <1>1, <2>1, <3>1
      <4>2. <<cursor', e>> \in Order => <<e, e>> \in Order
        BY <2>1, <3>1, <4>1
      <4> QED
        BY <4>1, <4>2
    <3>2. CASE e \in shown
      <4>1. cursor # Start /\ <<cursor, e>> \notin Order
        BY <1>1, <3>2 DEF IInv, ShownIsBehind, Precedes
      <4>2. cursor \in Item /\ cursor' \in Item /\ e \in Item
        BY <1>1, <2>1, <3>2, <4>1 DEF IInv, TypeOK
      <4> QED
        BY <2>2, <4>1, <4>2
    <3> QED
      BY <2>1, <3>1, <3>2
  <2>4. ShownIsBehind'
    BY <2>1, <2>3 DEF ShownIsBehind, Precedes
  <2>5. ASSUME NEW e \in stayed', e \notin shown' PROVE Precedes(cursor', e)
    <3>1. e \in stayed /\ e \notin shown /\ e \notin page /\ e \in listed
      BY <2>1, <2>5 DEF IInv, TypeOK
    <3>2. e \in Rest
      BY <1>1, <3>1 DEF IInv, StayedIsAhead, Rest
    <3>3. <<e, cursor'>> \notin Order /\ e # cursor'
      BY <2>1, <3>1, <3>2 DEF Fetch, IsPage
    <3> QED
      BY <1>1, <2>1, <3>2, <3>3 DEF Precedes, Rest, IInv, TypeOK
  <2>6. StayedIsAhead'
    BY <1>6, <2>5 DEF StayedIsAhead, Precedes
  <2> QED
    BY <1>3, <1>4, <2>4, <2>6 DEF IInv
<1> QED
  BY <1>5, <1>6 DEF Fetch

\* Every reachable state of a walk satisfies the inductive invariant, whatever
\* the list does meanwhile.
THEOREM Invariance == ASSUME IsOrder PROVE Spec => []IInv
<1>1. Init => IInv
  BY DEF IsOrder, Init, IInv, TypeOK, ShownIsBehind, StayedIsAhead, NothingTwice, Precedes
<1>2. IInv /\ [Next]_vars => IInv'
  <2> SUFFICES ASSUME IInv, [Next]_vars PROVE IInv'
    OBVIOUS
  <2>1. CASE Next
    BY <2>1, ChurnKeeps, FetchKeeps DEF Next
  <2>2. CASE UNCHANGED vars
    BY <2>2 DEF vars, IInv, TypeOK, ShownIsBehind, StayedIsAhead, NothingTwice, Precedes
  <2> QED
    BY <2>1, <2>2
<1> QED
  BY <1>1, <1>2, PTL DEF Spec

\* A client who follows the cursors to the end misses nothing that was listed all
\* the time: for every order, every page size and every change of the list.
THEOREM NothingMissedHolds == ASSUME IsOrder PROVE Spec => []NothingMissed
<1>1. IInv => NothingMissed
  BY DEF IInv, StayedIsAhead, NothingMissed
<1> QED
  BY <1>1, Invariance, PTL

\* Nor is anything shown to him by two pages.
THEOREM NothingTwiceHolds == ASSUME IsOrder PROVE Spec => []NothingTwice
<1>1. IInv => NothingTwice
  BY DEF IInv
<1> QED
  BY <1>1, Invariance, PTL

=============================================================================
