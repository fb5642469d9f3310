-------------------------- MODULE DeliveryContract --------------------------
(****************************************************************************)
(* What the adapters and the middlewares promise together, at least once:   *)
(* the broker may forget a message only after a handler has processed or    *)
(* acknowledged it, or after all its attempts, and it forgets it for good.  *)
(****************************************************************************)
CONSTANT Messages

VARIABLES
    handled,      \* messages a handler has processed, or acknowledged itself
    spent,        \* messages whose attempts are used up
    forgotten     \* messages the broker will not hand out again

cVars == <<handled, spent, forgotten>>

Init == handled = {} /\ spent = {} /\ forgotten = {}

HandleIt(m) ==
    /\ handled' = handled \cup {m}
    /\ UNCHANGED <<spent, forgotten>>

Spend(m) ==
    /\ spent' = spent \cup {m}
    /\ UNCHANGED <<handled, forgotten>>

Forget(m) ==
    /\ m \in handled \cup spent
    /\ forgotten' = forgotten \cup {m}
    /\ UNCHANGED <<handled, spent>>

Next == \E m \in Messages : HandleIt(m) \/ Spend(m) \/ Forget(m)

Spec == Init /\ [][Next]_cVars

=============================================================================
