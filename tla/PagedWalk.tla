------------------------------ MODULE PagedWalk ------------------------------
(***************************************************************************)
(* What a paged list promises a client who follows its cursors to the end, *)
(* while the list changes under him: each page is the next entries after   *)
(* the last one shown, in the order of the list.                           *)
(***************************************************************************)
CONSTANTS
    Item,    \* everything a list may ever contain, with its place in the order
    Order,   \* the pairs <<d, e>> of entries with d before e
    Start     \* the cursor of the first page, before every entry

Precedes(d, e) == d = Start \/ <<d, e>> \in Order

\* What the constants are to be: a strict total order, and a place before all.
IsOrder ==
    /\ Start \notin Item
    /\ \A e \in Item : <<e, e>> \notin Order
    /\ \A d, e \in Item : d # e => <<d, e>> \in Order \/ <<e, d>> \in Order
    /\ \A c, d, e \in Item : <<c, d>> \in Order /\ <<d, e>> \in Order => <<c, e>> \in Order

VARIABLES
    listed,   \* the entries of the list now
    stayed,   \* history: those that have been listed since the walk began
    shown,    \* the entries the client has been shown
    repeated, \* history: whether one of them was shown by two pages
    cursor,   \* the last of them, or Start
    over      \* the client has seen the last page

vars == <<listed, stayed, shown, repeated, cursor, over>>

Init ==
    /\ listed \subseteq Item /\ stayed = listed
    /\ shown = {} /\ repeated = FALSE
    /\ cursor = Start
    /\ over = FALSE

\* The list changes for reasons of its own.
Churn ==
    /\ listed' \subseteq Item
    /\ stayed' = stayed \cap listed'
    /\ UNCHANGED <<shown, repeated, cursor, over>>

Rest == {e \in listed : Precedes(cursor, e)}

\* A page holds entries of the rest and skips none that comes before one of them.
IsPage(page) ==
    /\ page \subseteq Rest
    /\ \A e \in page, d \in Rest : <<d, e>> \in Order => d \in page

\* Only a page that holds all of the rest may end the walk; any other goes on
\* from its last entry.
Fetch(page) ==
    /\ ~over
    /\ IsPage(page)
    /\ shown' = shown \cup page
    /\ repeated' = (repeated \/ page \cap shown # {})
    /\ \/ over' = TRUE /\ page = Rest /\ UNCHANGED cursor
       \/ /\ over' = FALSE
          /\ cursor' \in page
          /\ \A e \in page : e # cursor' => <<e, cursor'>> \in Order
    /\ UNCHANGED <<listed, stayed>>

Next == Churn \/ \E page \in SUBSET listed : Fetch(page)

Spec == Init /\ [][Next]_vars

-----------------------------------------------------------------------------

TypeOK ==
    /\ listed \subseteq Item /\ stayed \subseteq listed
    /\ shown \subseteq Item
    /\ cursor \in Item \cup {Start}
    /\ repeated \in BOOLEAN /\ over \in BOOLEAN

\* At the end of the walk every entry that was listed all the time was shown.
NothingMissed == over => stayed \subseteq shown

\* No entry is shown by two pages.
NothingTwice == ~repeated

\* Why both hold: what was shown is behind the cursor, and what has stayed is
\* shown or ahead of it.
ShownIsBehind == over \/ \A e \in shown : cursor # Start /\ ~Precedes(cursor, e)
StayedIsAhead == \A e \in stayed : e \in shown \/ (~over /\ Precedes(cursor, e))

=============================================================================
