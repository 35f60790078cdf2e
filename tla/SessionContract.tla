--------------------------- MODULE SessionContract ---------------------------
(***************************************************************************)
(* What sessions promise: a device of a user has one from a login until it *)
(* logs out or the user withdraws, and nothing else opens or closes it.    *)
(* Who is logging in, logging out or withdrawing is the environment's.     *)
(***************************************************************************)
VARIABLES
    sessions,  \* the pairs <<user, device>> that are logged in
    entering,  \* the pairs whose login is about to be stored
    leaving,   \* the pairs logging out
    closing    \* the users withdrawing

Init == sessions = {}

Enter(k) == k \in entering /\ sessions' = sessions \cup {k}
Leave(k) == k \in leaving /\ sessions' = sessions \ {k}
Close(u) == u \in closing /\ sessions' = {k \in sessions : k[1] # u}

Next ==
    \/ \E k \in entering : Enter(k)
    \/ \E k \in leaving : Leave(k)
    \/ \E u \in closing : Close(u)

Spec == Init /\ [][Next]_sessions

=============================================================================
