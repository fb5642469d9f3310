---------------------------- MODULE LeaseContract ----------------------------
(****************************************************************************)
(* What a lease lock promises: every key has at most one holder, a key is   *)
(* granted only while it is free, and leases end one or several at a time   *)
(* (release, expiry, the holder's crash).                                   *)
(****************************************************************************)
EXTENDS Naturals

CONSTANTS Keys, Clients, None

VARIABLE holder

Init == holder = [k \in Keys |-> None]

Grant(c, k) ==
    /\ holder[k] = None
    /\ holder' = [holder EXCEPT ![k] = c]

End(ended) ==
    holder' = [k \in Keys |-> IF k \in ended THEN None ELSE holder[k]]

Next ==
    \/ \E c \in Clients, k \in Keys : Grant(c, k)
    \/ \E ended \in SUBSET Keys : End(ended)

Spec == Init /\ [][Next]_holder

=============================================================================
