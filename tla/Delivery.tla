------------------------------ MODULE Delivery ------------------------------
(***************************************************************************)
(* What the shop promises of a paid purchase, free of webhooks, retries,   *)
(* locks and transactions: it is delivered, or it is given up and left to  *)
(* an administrator; what has been delivered stays delivered, what is held *)
(* for somebody stays held for that person, and money never leads to a     *)
(* purchase nobody has paid for.                                           *)
(***************************************************************************)
CONSTANTS
    Purchase,   \* purchases
    User,       \* who can receive one
    NoUser      \* "nobody yet"

VARIABLES
    phase,      \* [Purchase -> "due", "paid", "held", "delivered", "failed"]
    owner       \* [Purchase -> User or NoUser], who it is bound to

vars == <<phase, owner>>

Init ==
    /\ phase = [p \in Purchase |-> "due"]
    /\ owner = [p \in Purchase |-> NoUser]

Move(p, from, to, u) ==
    /\ phase[p] \in from
    /\ phase' = [phase EXCEPT ![p] = to]
    /\ owner' = [owner EXCEPT ![p] = u]

\* The owner does not change once there is one.
Keeps(p, u) == owner[p] = NoUser \/ owner[p] = u

Pay(p) == Move(p, {"due"}, "paid", NoUser)

\* Held for a user who has to activate it, or who claimed a gift.  A purchase
\* that was not paid so far may be held in the same step.
Hold(p, u) == Keeps(p, u) /\ Move(p, {"due", "paid"}, "held", u)

\* A purchase given up may still be delivered by a task that was under way.
Deliver(p, u) == Keeps(p, u) /\ Move(p, {"paid", "held", "failed"}, "delivered", u)

GiveUp(p) == Move(p, {"due", "paid", "held"}, "failed", owner[p])

Next ==
    \E p \in Purchase :
        \/ Pay(p) \/ GiveUp(p)
        \/ \E u \in User : Hold(p, u) \/ Deliver(p, u)
        \/ Deliver(p, NoUser)

Spec == Init /\ [][Next]_vars
=============================================================================
