---------------------------- MODULE TopUpLedger ----------------------------
(***************************************************************************)
(* What a top-up provider integration promises, free of webhooks, polling, *)
(* locks and statuses: a payment whose money has moved at the provider is  *)
(* credited to its owner's balance at most once and by exactly its amount, *)
(* and a balance pays for something only out of what it holds.             *)
(***************************************************************************)
EXTENDS Integers

CONSTANTS
    Payment,    \* payments
    User,       \* account holders
    Owner,      \* [Payment -> User], who is credited
    Amount,     \* [Payment -> Nat], the amount of the invoice
    Opening,    \* [User -> Nat], the balances at the start
    Price       \* what a balance may be charged at once

VARIABLES
    settled,    \* payments whose money has moved at the provider
    credited,   \* payments with a deposit in the ledger
    balance     \* [User -> Nat]

vars == <<settled, credited, balance>>

TypeOK ==
    /\ settled \subseteq Payment
    /\ credited \subseteq Payment
    /\ balance \in [User -> Nat]

Init ==
    /\ settled = {}
    /\ credited = {}
    /\ balance = Opening

Settle(p) ==
    /\ settled' = settled \cup {p}
    /\ UNCHANGED <<credited, balance>>

Credit(p) ==
    /\ p \in settled \ credited
    /\ credited' = credited \cup {p}
    /\ balance' = [balance EXCEPT ![Owner[p]] = @ + Amount[p]]
    /\ UNCHANGED settled

Spend(u, a) ==
    /\ a <= balance[u]
    /\ balance' = [balance EXCEPT ![u] = @ - a]
    /\ UNCHANGED <<settled, credited>>

Next ==
    \/ \E p \in Payment : Settle(p) \/ Credit(p)
    \/ \E u \in User, a \in Price : Spend(u, a)

Spec == Init /\ [][Next]_vars
============================================================================
