---------------------------- MODULE AutopayProofs ----------------------------
(***************************************************************************)
(* Proofs about Autopay: for every number of subscriptions, cards and      *)
(* webhooks, and every price, minimum and period.                          *)
(***************************************************************************)
EXTENDS Autopay, FiniteSetTheorems, WellFoundedInduction, TLAPS

(* The inductive invariant.                                                *)

Amounts == {Shortage(b) : b \in 0 .. Price - 1}

\* What the pass is about to charge is what was short, for a day that has come.
PassFacts ==
    pass.pc = "charge" => pass.amount \in Amounts /\ pass.date <= day

\* No payment is made for a day to come, and one only under each key.
Keys ==
    /\ \A p \in Payment : Known(p) => p.day <= day
    /\ \A p, q \in Payment : Known(p) /\ Known(q) /\ q \in SameKey(p) => p = q

\* A call for s of day d gave nothing, or the cards changed that day.
Excused(s, d) == <<s, d>> \in doubt \/ d \in recarded

\* A day's payments for a subscription are made with one card, ...
OneCard ==
    \A p, q \in Payment :
        Known(p) /\ Known(q) /\ p.sub = q.sub /\ p.day = q.day
            => p.card = q.card \/ Excused(p.sub, p.day)

\* ... today's with the card saved last, ...
TodaysCard ==
    \A p \in Payment :
        Known(p) /\ p.day = day => p.card = Max(cards) \/ Excused(p.sub, day)

\* ... and the pass is about to use the one that was used.
PassCard ==
    pass.pc = "charge" /\ ~Excused(pass.s, pass.date) =>
        /\ pass.date = day => pass.cards = cards
        /\ \A p \in Payment :
              Known(p) /\ p.sub = pass.s /\ p.day = pass.date
                  => p.card = Max(pass.cards)

\* A webhook that is crediting found a success without a deposit, and is the
\* only one on its row.
Crediting ==
    /\ \A w \in Hook :
          hook[w].pc = "user" => prov[hook[w].p] = "succeeded" /\ hook[w].p \notin txns
    /\ \A v, w \in Hook :
          hook[v].pc = "user" /\ hook[w].pc = "user" /\ hook[v].p = hook[w].p => v = w

IInv ==
    /\ TypeOK /\ PassFacts
    /\ Keys /\ OneCard /\ TodaysCard /\ PassCard
    /\ Crediting

-----------------------------------------------------------------------------
(* Cards and jobs.                                                         *)

\* Every finite set of numbers but the empty one has a greatest element: one
\* without it would contain a smaller one without it.
LEMMA MaxIsMember ==
    ASSUME NEW S \in SUBSET Nat, IsFiniteSet(S), S # {}
    PROVE  Max(S) \in S
  <1> DEFINE HasMax(U) == \E x \in U : \A y \in U : x >= y
             T == {U \in SUBSET S : U # {} /\ ~HasMax(U)}
             R == StrictSubsetOrdering(S)
  <1>1. T = {}
    <2> SUFFICES ASSUME T # {} PROVE FALSE
      OBVIOUS
    <2>1. IsWellFoundedOn(R, SUBSET S)
      BY FS_StrictSubsetOrderingWellFounded, FS_FiniteSubsetsOfFinite
    <2>2. PICK U \in T : \A V \in T : <<V, U>> \notin R
      <3>1. T \subseteq SUBSET S
        OBVIOUS
      <3> HIDE DEF T, R
      <3> QED
        BY <2>1, <3>1, WFMin
    <2>3. PICK x : x \in U
      OBVIOUS
    <2>4. U \ {x} \in SUBSET S /\ <<U \ {x}, U>> \in R
      BY <2>3 DEF StrictSubsetOrdering
    <2>5. U \ {x} \notin T
      BY <2>2, <2>4
    <2>6. CASE U \ {x} = {}
      BY <2>3, <2>6
    <2>7. CASE HasMax(U \ {x})
      BY <2>3, <2>7
    <2> QED
      BY <2>4, <2>5, <2>6, <2>7
  <1>2. HasMax(S)
    BY <1>1
  <1> QED
    BY <1>2 DEF Max

\* What a pass carries, by what it is doing.
LEMMA PassKinds ==
    ASSUME pass \in Pass
    PROVE  /\ pass.pc \in {"renew", "topup"} =>
                  /\ pass.todo \subseteq Sub
                  /\ \A S \in SUBSET Sub : [pass EXCEPT !.todo = S] = [pc |-> pass.pc, todo |-> S]
           /\ pass.pc \in {"extend", "mark"} => pass.s \in Sub /\ pass.todo \subseteq Sub
           /\ pass.pc = "charge" =>
                  /\ pass.s \in Sub /\ pass.amount \in Nat /\ pass.date \in Day
                  /\ pass.cards \subseteq Card /\ pass.todo \subseteq Sub
                  /\ pass = [pc |-> "charge", s |-> pass.s, amount |-> pass.amount,
                             date |-> pass.date, cards |-> pass.cards, todo |-> pass.todo]
           /\ pass.pc = "store" => pass.p \in Payment /\ pass.todo \subseteq Sub
  BY DEF Pass, Idle

LEMMA HookKinds ==
    ASSUME hook \in [Hook -> Job], NEW w \in Hook, hook[w] # Idle
    PROVE  /\ hook[w].pc \in {"load", "key", "process", "user", "answer"}
           /\ hook[w].p \in Payment
           /\ \A pc : [hook[w] EXCEPT !.pc = pc] = [pc |-> pc, p |-> hook[w].p]
  BY DEF Job, Idle

LEMMA HookGoesOn ==
    ASSUME hook \in [Hook -> Job], NEW w \in Hook, hook[w].pc # "idle",
           NEW pc \in {"load", "key", "process", "user", "answer"}, Become(w, pc)
    PROVE  /\ hook' \in [Hook -> Job]
           /\ hook[w].p \in Payment
           /\ hook'[w].pc = pc /\ hook'[w].p = hook[w].p
           /\ \A v \in Hook \ {w} : hook'[v] = hook[v]
  <1>1. /\ hook[w].p \in Payment
        /\ [hook[w] EXCEPT !.pc = pc] = [pc |-> pc, p |-> hook[w].p]
    BY HookKinds DEF Idle
  <1>2. [pc |-> pc, p |-> hook[w].p] \in Job
    BY <1>1 DEF Job
  <1> QED
    BY <1>1, <1>2 DEF Become

\* A shortage is a number.
LEMMA AmountType ==
    /\ \A b \in 0 .. Price - 1 : Shortage(b) \in Nat
    /\ Amounts \subseteq Nat
    /\ \A p \in Payment :
          /\ p.sub \in Sub /\ p.card \in Card /\ p.day \in Day
          /\ p.amount \in Amounts /\ p.amount \in Nat
  BY ConstantsAssumption DEF Shortage, MaxOf, Amounts, Payment

\* The payment asked for is one, under its own key.
LEMMA AskedIsPayment ==
    ASSUME IInv, pass.pc = "charge", pass.cards # {}
    PROVE  /\ Asked \in Payment /\ Asked \in SameKey(Asked)
           /\ Asked.sub = pass.s /\ Asked.day = pass.date /\ Asked.card = Max(pass.cards)
           /\ Max(pass.cards) \in pass.cards
  <1>1. /\ pass.s \in Sub /\ pass.date \in Day /\ pass.cards \subseteq Card
        /\ pass.amount \in Amounts
    BY PassKinds DEF IInv, TypeOK, PassFacts
  <1>2. pass.cards \in SUBSET Nat /\ IsFiniteSet(pass.cards)
    BY <1>1, ConstantsAssumption, FS_Subset
  <1>3. Max(pass.cards) \in pass.cards
    BY <1>2, MaxIsMember
  <1> QED
    BY <1>1, <1>3 DEF Asked, SameKey, Payment, Amounts

-----------------------------------------------------------------------------
(* Steps of two shapes.                                                    *)

\* The pass goes on and charges no card: it neither pays nor looks at a day.
LEMMA PassQuiet ==
    ASSUME IInv, TypeOK', UNCHANGED <<day, cards, prov, txns, doubt, recarded>>,
           pass'.pc # "charge",
           \/ UNCHANGED hook
           \/ \E w \in Hook : hook' = [hook EXCEPT ![w] = Idle]
    PROVE  IInv'
  <1>1. PassFacts' /\ PassCard'
    BY DEF PassFacts, PassCard
  <1>2. Keys' /\ OneCard' /\ TodaysCard'
    BY DEF IInv, Keys, OneCard, TodaysCard, Known, Excused
  <1>3. \A w \in Hook : hook'[w].pc = "user" => hook'[w] = hook[w]
    BY DEF IInv, TypeOK, Idle
  <1>4. Crediting'
    BY <1>3 DEF IInv, Crediting
  <1> QED
    BY <1>1, <1>2, <1>4 DEF IInv

\* A webhook goes on: only its deposit could matter, to the others.
LEMMA HookQuiet ==
    ASSUME IInv, TypeOK', UNCHANGED <<day, cards, prov, pass, doubt, recarded>>,
           Crediting'
    PROVE  IInv'
  <1>1. PassFacts' /\ Keys' /\ OneCard' /\ TodaysCard' /\ PassCard'
    BY DEF IInv, PassFacts, Keys, OneCard, TodaysCard, PassCard, Known, Excused
  <1> QED
    BY <1>1 DEF IInv

-----------------------------------------------------------------------------
(* The pass.                                                               *)

\* The types of all that does not change.
LEMMA Types ==
    ASSUME IInv
    PROVE  /\ day \in Day /\ left \in [Sub -> Int]
           /\ balance \in Nat /\ cards \subseteq Card
           /\ prov \in [Payment -> {"none", "pending", "succeeded", "canceled"}]
           /\ acked \subseteq Payment /\ rows \subseteq Payment /\ txns \subseteq Payment
           /\ guard \in [date : Day \cup {-1}, done : SUBSET Sub]
           /\ pass \in Pass /\ held \in BOOLEAN
           /\ hook \in [Hook -> Job]
           /\ doubt \subseteq Sub \X Day /\ recarded \subseteq Day
           /\ faults \in 0 .. MaxFaults
  BY DEF IInv, TypeOK

LEMMA FaultType ==
    ASSUME IInv, Fault
    PROVE  faults' \in 0 .. MaxFaults
  BY Types, ConstantsAssumption DEF Fault

LEMMA BeginStep ==
    ASSUME IInv, Begin
    PROVE  IInv'
  <1> DEFINE j == [pc |-> "renew", todo |-> {s \in Sub : Renewable(s)}]
  <1>1. j \in Pass /\ j.pc = "renew"
    BY DEF Pass
  <1>2. pass' = j
    BY DEF Begin
  <1> HIDE DEF j
  <1>3. TypeOK'
    BY <1>1, <1>2 DEF IInv, TypeOK, Begin, provider, ledger, history
  <1> QED
    BY <1>1, <1>2, <1>3, PassQuiet DEF Begin, provider, ledger, history

LEMMA RenewStep ==
    ASSUME IInv, NEW s \in Sub, Renew(s)
    PROVE  IInv'
  <1>1. pass.pc = "renew" /\ pass.todo \subseteq Sub
    BY Types, PassKinds DEF Renew
  <1>2. /\ pass' \in {[pc |-> "extend", s |-> s, todo |-> pass.todo \ {s}],
                      [pc |-> "renew", todo |-> pass.todo \ {s}]}
        /\ balance' \in Nat /\ held' \in BOOLEAN
    <2>1. CASE Affordable
      <3>1. /\ balance' = balance - Price /\ held' = FALSE
            /\ pass' = [pc |-> "extend", s |-> s, todo |-> pass.todo \ {s}]
        BY <2>1 DEF Renew
      <3>2. balance' \in Nat
        BY <2>1, <3>1, Types, ConstantsAssumption DEF Affordable
      <3> QED
        BY <3>1, <3>2
    <2>2. CASE ~Affordable
      <3>1. [pass EXCEPT !.todo = @ \ {s}] = [pc |-> "renew", todo |-> pass.todo \ {s}]
        BY <1>1, Types, PassKinds
      <3> QED
        BY <2>2, <3>1, Types DEF Renew
    <2> QED
      BY <2>1, <2>2
  <1>3. pass' \in Pass /\ pass'.pc # "charge"
    BY <1>1, <1>2 DEF Pass
  <1>4. TypeOK'
    BY <1>2, <1>3 DEF IInv, TypeOK, Renew, provider, history
  <1> QED
    BY <1>3, <1>4, PassQuiet DEF Renew, provider, history

LEMMA ExtendStep ==
    ASSUME IInv, Extend
    PROVE  IInv'
  <1>1. pass.s \in Sub /\ pass.todo \subseteq Sub
    BY Types, PassKinds DEF Extend
  <1>2. pass' \in Pass /\ pass'.pc # "charge"
    BY <1>1 DEF Extend, Pass
  <1>3. left' \in [Sub -> Int]
    BY <1>1, Types, ConstantsAssumption DEF Extend, MaxOf
  <1>4. TypeOK'
    BY <1>2, <1>3 DEF IInv, TypeOK, Extend, provider, ledger, history
  <1> QED
    BY <1>2, <1>4, PassQuiet DEF Extend, provider, ledger, history

LEMMA RefundStep ==
    ASSUME IInv, Refund
    PROVE  IInv'
  <1>1. pass.todo \subseteq Sub
    BY Types, PassKinds DEF Refund
  <1>2. pass' \in Pass /\ pass'.pc # "charge"
    BY <1>1 DEF Refund, Pass
  <1>3. balance' \in Nat /\ faults' \in 0 .. MaxFaults
    BY Types, FaultType, ConstantsAssumption DEF Refund
  <1>4. TypeOK'
    BY <1>2, <1>3 DEF IInv, TypeOK, Refund, provider, history
  <1> QED
    BY <1>2, <1>4, PassQuiet DEF Refund, provider, history

LEMMA StartTopUpsStep ==
    ASSUME IInv, StartTopUps
    PROVE  IInv'
  <1>1. pass' \in Pass /\ pass'.pc # "charge"
    BY DEF StartTopUps, Pass
  <1>2. guard' \in [date : Day \cup {-1}, done : SUBSET Sub]
    BY Types DEF StartTopUps
  <1>3. TypeOK'
    BY <1>1, <1>2 DEF IInv, TypeOK, StartTopUps, provider, ledger, history
  <1> QED
    BY <1>1, <1>3, PassQuiet DEF StartTopUps, provider, ledger, history

LEMMA SkipStep ==
    ASSUME IInv, NEW s \in Sub, Skip(s)
    PROVE  IInv'
  <1>1. pass.pc = "topup" /\ pass.todo \subseteq Sub
    BY Types, PassKinds DEF Skip
  <1>2. pass' = [pc |-> "topup", todo |-> pass.todo \ {s}]
    BY <1>1, Types, PassKinds DEF Skip
  <1>3. pass' \in Pass /\ pass'.pc # "charge"
    BY <1>1, <1>2 DEF Pass
  <1>4. held' \in BOOLEAN
    BY DEF Skip
  <1>5. TypeOK'
    BY <1>3, <1>4 DEF IInv, TypeOK, Skip, provider, ledger, history
  <1> QED
    BY <1>3, <1>5, PassQuiet DEF Skip, provider, ledger, history

\* The day's payments, if there are any, were made with the card that will be
\* tried first.
LEMMA AssessStep ==
    ASSUME IInv, NEW s \in Sub, Assess(s)
    PROVE  IInv'
  <1>1. pass.todo \subseteq Sub
    BY Types, PassKinds DEF Assess
  <1>2. Shortage(balance) \in Amounts /\ Shortage(balance) \in Nat
    <2>1. balance \in 0 .. Price - 1
      BY Types, ConstantsAssumption DEF Assess, Affordable
    <2> QED
      BY <2>1, AmountType DEF Amounts
  <1>3. pass' = [pc |-> "charge", s |-> s, amount |-> Shortage(balance), date |-> day,
                 cards |-> cards, todo |-> pass.todo \ {s}]
    BY DEF Assess
  <1>4. pass' \in Pass
    BY <1>1, <1>2, <1>3, Types DEF Pass
  <1>5. /\ pass'.s = s /\ pass'.amount = Shortage(balance)
        /\ pass'.date = day /\ pass'.cards = cards
    BY <1>3
  <1>6. TypeOK'
    BY <1>4 DEF IInv, TypeOK, Assess, provider, ledger, history
  <1>7. PassFacts'
    BY <1>2, <1>5, Types DEF PassFacts, Assess, Amounts, Day
  <1>8. Keys' /\ OneCard' /\ TodaysCard' /\ Crediting'
    BY DEF IInv, Keys, OneCard, TodaysCard, Crediting, Known, Excused, Assess, provider,
           ledger, history
  <1>9. PassCard'
    BY <1>5 DEF IInv, TodaysCard, PassCard, Known, Excused, Assess, provider, history
  <1> QED
    BY <1>6, <1>7, <1>8, <1>9 DEF IInv

-----------------------------------------------------------------------------
(* Cards are charged.                                                      *)

\* A new payment, of whatever status: with the card of the day's others.
LEMMA NewPayment ==
    ASSUME IInv, pass.pc = "charge", pass.cards # {},
           \A q \in SameKey(Asked) : ~Known(q),
           NEW st \in {"pending", "succeeded", "canceled"},
           prov' = [prov EXCEPT ![Asked] = st],
           UNCHANGED <<day, cards, recarded>>,
           doubt \subseteq doubt'
    PROVE  /\ prov' \in [Payment -> {"none", "pending", "succeeded", "canceled"}]
           /\ \A p \in Payment : prov[p] = "succeeded" => prov'[p] = "succeeded"
           /\ Keys' /\ OneCard' /\ TodaysCard'
  <1>1. /\ Asked \in Payment /\ Asked \in SameKey(Asked)
        /\ Asked.sub = pass.s /\ Asked.day = pass.date /\ Asked.card = Max(pass.cards)
    BY AskedIsPayment
  <1> DEFINE a == Asked
  <1>2. /\ a \in Payment /\ a.sub = pass.s /\ a.day = pass.date /\ a.card = Max(pass.cards)
        /\ ~Known(a) /\ \A q \in SameKey(a) : ~Known(q)
        /\ prov' = [prov EXCEPT ![a] = st]
    BY <1>1
  <1> HIDE DEF a
  <1>3. /\ prov' \in [Payment -> {"none", "pending", "succeeded", "canceled"}]
        /\ prov'[a] = st /\ \A p \in Payment : p # a => prov'[p] = prov[p]
    BY <1>2, Types
  <1>4. \A p \in Payment : Known(p)' => Known(p) \/ p = a
    BY <1>3 DEF Known
  <1>5. \A p \in Payment : prov[p] = "succeeded" => prov'[p] = "succeeded"
    BY <1>2, <1>3 DEF Known
  <1>6. Keys'
    <2>1. a.day <= day
      BY <1>2 DEF IInv, PassFacts
    <2>2. \A p \in Payment : Known(p) => p \notin SameKey(a) /\ a \notin SameKey(p)
      BY <1>2 DEF SameKey
    <2> QED
      BY <1>4, <2>1, <2>2 DEF IInv, Keys, SameKey
  <1>7. \A p \in Payment :
            Known(p) /\ p.sub = a.sub /\ p.day = a.day
                => p.card = a.card \/ Excused(a.sub, a.day)
    BY <1>2 DEF IInv, PassCard
  <1>8. \A s, d : Excused(s, d) => Excused(s, d)'
    BY DEF Excused
  <1>9. OneCard'
    BY <1>4, <1>7, <1>8 DEF IInv, OneCard
  <1>10. a.day = day => a.card = Max(cards) \/ Excused(a.sub, day)
    BY <1>2 DEF IInv, PassCard
  <1>11. TodaysCard'
    BY <1>4, <1>8, <1>10 DEF IInv, TodaysCard
  <1> QED
    BY <1>3, <1>5, <1>6, <1>9, <1>11

LEMMA StoreType ==
    ASSUME IInv, pass.pc = "charge", pass.cards # {}, Store(Asked)
    PROVE  pass' \in Pass /\ pass'.pc = "store"
  <1>1. Asked \in Payment /\ pass.todo \subseteq Sub
    BY AskedIsPayment, PassKinds, Types
  <1>2. pass' = [pc |-> "store", p |-> Asked, todo |-> pass.todo]
    BY DEF Store
  <1> QED
    BY <1>1, <1>2 DEF Pass

\* The next card is tried, for the same day and amount; and that is on record.
LEMMA NextCardType ==
    ASSUME IInv, pass.pc = "charge", pass.cards # {}, NextCard
    PROVE  /\ pass' \in Pass /\ pass'.pc = "charge"
           /\ pass'.s = pass.s /\ pass'.date = pass.date /\ pass'.amount = pass.amount
           /\ doubt' \subseteq Sub \X Day /\ doubt \subseteq doubt'
           /\ <<pass'.s, pass'.date>> \in doubt'
  <1>1. /\ pass.s \in Sub /\ pass.date \in Day /\ pass.cards \subseteq Card
        /\ pass.amount \in Nat /\ pass.todo \subseteq Sub
        /\ pass = [pc |-> "charge", s |-> pass.s, amount |-> pass.amount,
                   date |-> pass.date, cards |-> pass.cards, todo |-> pass.todo]
    BY Types, PassKinds
  <1>2. pass' = [pc |-> "charge", s |-> pass.s, amount |-> pass.amount,
                 date |-> pass.date, cards |-> pass.cards \ {Max(pass.cards)},
                 todo |-> pass.todo]
    BY <1>1 DEF NextCard
  <1>3. pass' \in Pass
    BY <1>1, <1>2 DEF Pass
  <1> QED
    BY <1>1, <1>2, <1>3, Types DEF NextCard

LEMMA ChargeStep ==
    ASSUME IInv, Charge
    PROVE  IInv'
  <1>1. pass' \in Pass /\ pass'.pc = "store"
    BY StoreType DEF Charge
  <1>2. PICK st \in {"pending", "succeeded", "canceled"} : prov' = [prov EXCEPT ![Asked] = st]
    BY DEF Charge
  <1>3. /\ prov' \in [Payment -> {"none", "pending", "succeeded", "canceled"}]
        /\ \A p \in Payment : prov[p] = "succeeded" => prov'[p] = "succeeded"
        /\ Keys' /\ OneCard' /\ TodaysCard'
    BY <1>2, NewPayment DEF Charge, history
  <1>4. TypeOK'
    BY <1>1, <1>3 DEF IInv, TypeOK, Charge, ledger, history
  <1>5. PassFacts' /\ PassCard'
    BY <1>1 DEF PassFacts, PassCard
  <1>6. Crediting'
    BY <1>3, Types, HookKinds DEF IInv, Crediting, Charge, ledger, Idle
  <1> QED
    BY <1>3, <1>4, <1>5, <1>6 DEF IInv

LEMMA ChargeLostStep ==
    ASSUME IInv, ChargeLost
    PROVE  IInv'
  <1>1. /\ pass' \in Pass /\ pass'.pc = "charge"
        /\ pass'.s = pass.s /\ pass'.date = pass.date /\ pass'.amount = pass.amount
        /\ doubt' \subseteq Sub \X Day /\ doubt \subseteq doubt'
        /\ <<pass'.s, pass'.date>> \in doubt'
    BY NextCardType DEF ChargeLost
  <1>2. PICK st \in {"pending", "succeeded", "canceled"} : prov' = [prov EXCEPT ![Asked] = st]
    BY DEF ChargeLost
  <1>3. /\ prov' \in [Payment -> {"none", "pending", "succeeded", "canceled"}]
        /\ \A p \in Payment : prov[p] = "succeeded" => prov'[p] = "succeeded"
        /\ Keys' /\ OneCard' /\ TodaysCard'
    BY <1>1, <1>2, NewPayment DEF ChargeLost
  <1>4. TypeOK'
    BY <1>1, <1>3, FaultType DEF IInv, TypeOK, ChargeLost, ledger
  <1>5. PassFacts' /\ PassCard'
    BY <1>1 DEF IInv, PassFacts, PassCard, Excused, ChargeLost
  <1>6. Crediting'
    BY <1>3, Types, HookKinds DEF IInv, Crediting, ChargeLost, ledger, Idle
  <1> QED
    BY <1>3, <1>4, <1>5, <1>6 DEF IInv

LEMMA ChargeAgainStep ==
    ASSUME IInv, ChargeAgain
    PROVE  IInv'
  <1>1. pass' \in Pass /\ pass'.pc = "store"
    BY StoreType DEF ChargeAgain
  <1>2. TypeOK'
    BY <1>1 DEF IInv, TypeOK, ChargeAgain, provider, ledger, history
  <1> QED
    BY <1>1, <1>2, PassQuiet DEF ChargeAgain, provider, ledger, history

LEMMA ChargeRefusedStep ==
    ASSUME IInv, ChargeRefused
    PROVE  IInv'
  <1>1. /\ pass' \in Pass /\ pass'.pc = "charge"
        /\ pass'.s = pass.s /\ pass'.date = pass.date /\ pass'.amount = pass.amount
        /\ doubt' \subseteq Sub \X Day /\ doubt \subseteq doubt'
        /\ <<pass'.s, pass'.date>> \in doubt'
    BY NextCardType DEF ChargeRefused
  <1>2. TypeOK'
    BY <1>1 DEF IInv, TypeOK, ChargeRefused, provider, ledger
  <1>3. PassFacts' /\ PassCard'
    BY <1>1 DEF IInv, PassFacts, PassCard, Excused, ChargeRefused
  <1>4. Keys' /\ OneCard' /\ TodaysCard' /\ Crediting'
    BY <1>1 DEF IInv, Keys, OneCard, TodaysCard, Crediting, Known, Excused, ChargeRefused,
                provider, ledger
  <1> QED
    BY <1>2, <1>3, <1>4 DEF IInv

-----------------------------------------------------------------------------
(* The payment is stored, and the pass ends.                               *)

LEMMA StoredType ==
    ASSUME IInv, pass.pc = "store", Stored
    PROVE  /\ pass' \in Pass /\ pass'.pc = "mark"
           /\ rows' \subseteq Payment /\ held' \in BOOLEAN
  <1>1. pass.p \in Payment /\ pass.p.sub \in Sub /\ pass.todo \subseteq Sub
    BY Types, PassKinds, AmountType
  <1>2. pass' = [pc |-> "mark", s |-> pass.p.sub, todo |-> pass.todo]
    BY DEF Stored
  <1>3. pass' \in Pass /\ pass'.pc = "mark"
    BY <1>1, <1>2 DEF Pass
  <1>4. rows' \subseteq Payment
    BY <1>1, Types DEF Stored
  <1>5. held' \in BOOLEAN
    BY DEF Stored
  <1> QED
    BY <1>3, <1>4, <1>5

LEMMA NotStoredType ==
    ASSUME IInv, pass.pc = "store", NotStored
    PROVE  /\ pass' \in Pass /\ pass'.pc = "mark"
           /\ rows' \subseteq Payment /\ held' \in BOOLEAN
  <1>1. pass.p \in Payment /\ pass.p.sub \in Sub
    BY Types, PassKinds, AmountType
  <1>2. pass' = [pc |-> "mark", s |-> pass.p.sub, todo |-> {}]
    BY DEF NotStored
  <1>3. pass' \in Pass /\ pass'.pc = "mark"
    BY <1>1, <1>2 DEF Pass
  <1> QED
    BY <1>3, Types DEF NotStored

LEMMA StoreRowStep ==
    ASSUME IInv, StoreRow
    PROVE  IInv'
  <1>1. /\ pass' \in Pass /\ pass'.pc = "mark"
        /\ rows' \subseteq Payment /\ held' \in BOOLEAN
    BY StoredType DEF StoreRow
  <1>2. TypeOK'
    BY <1>1 DEF IInv, TypeOK, StoreRow, provider, ledger, history
  <1> QED
    BY <1>1, <1>2, PassQuiet DEF StoreRow, provider, ledger, history

LEMMA DeadlockStep ==
    ASSUME IInv, Deadlock
    PROVE  IInv'
  <1>1. PICK w \in Inserting(pass.p) :
            \/ Stored /\ hook' = [hook EXCEPT ![w] = Idle]
            \/ NotStored /\ UNCHANGED hook
    BY DEF Deadlock
  <1>2. /\ pass' \in Pass /\ pass'.pc = "mark"
        /\ rows' \subseteq Payment /\ held' \in BOOLEAN
    BY <1>1, StoredType, NotStoredType DEF Deadlock
  <1>3. w \in Hook /\ hook' \in [Hook -> Job]
    BY <1>1, Types DEF Inserting, Job
  <1>4. TypeOK'
    BY <1>2, <1>3 DEF IInv, TypeOK, Deadlock, provider, ledger, history
  <1> QED
    BY <1>1, <1>2, <1>3, <1>4, PassQuiet DEF Deadlock, provider, ledger, history

LEMMA StoreErrorStep ==
    ASSUME IInv, StoreError
    PROVE  IInv'
  <1>1. /\ pass' \in Pass /\ pass'.pc = "mark"
        /\ rows' \subseteq Payment /\ held' \in BOOLEAN
    BY NotStoredType DEF StoreError
  <1>2. TypeOK'
    BY <1>1, FaultType DEF IInv, TypeOK, StoreError, provider, ledger, history
  <1> QED
    BY <1>1, <1>2, PassQuiet DEF StoreError, provider, ledger, history

LEMMA MarkStep ==
    ASSUME IInv, Mark
    PROVE  IInv'
  <1>1. pass.s \in Sub /\ pass.todo \subseteq Sub
    BY Types, PassKinds DEF Mark
  <1>2. pass' \in Pass /\ pass'.pc # "charge"
    BY <1>1 DEF Mark, Pass
  <1>3. guard' \in [date : Day \cup {-1}, done : SUBSET Sub]
    BY <1>1, Types DEF Mark
  <1>4. TypeOK'
    BY <1>2, <1>3 DEF IInv, TypeOK, Mark, provider, ledger, history
  <1> QED
    BY <1>2, <1>4, PassQuiet DEF Mark, provider, ledger, history

LEMMA EndPassStep ==
    ASSUME IInv, EndPass
    PROVE  IInv'
  <1>1. pass' \in Pass /\ pass'.pc # "charge"
    BY DEF EndPass, Pass, Idle
  <1>2. TypeOK'
    BY <1>1 DEF IInv, TypeOK, EndPass, provider, ledger, history
  <1> QED
    BY <1>1, <1>2, PassQuiet DEF EndPass, provider, ledger, history

-----------------------------------------------------------------------------
(* The webhooks.                                                           *)

\* One webhook takes a step, and is not crediting after it.
LEMMA NotCrediting ==
    ASSUME IInv, NEW w \in Hook, hook'[w].pc # "user",
           \A v \in Hook \ {w} : hook'[v] = hook[v],
           UNCHANGED <<prov, txns>>
    PROVE  Crediting'
  BY DEF IInv, Crediting

LEMMA DeliverStep ==
    ASSUME IInv, NEW w \in Hook, NEW p \in Payment, Deliver(w, p)
    PROVE  IInv'
  <1> DEFINE j == [pc |-> "load", p |-> p]
  <1>1. j \in Job /\ j.pc # "user"
    BY DEF Job
  <1>2. hook' = [hook EXCEPT ![w] = j]
    BY DEF Deliver
  <1> HIDE DEF j
  <1>3. /\ hook' \in [Hook -> Job] /\ hook'[w].pc # "user"
        /\ \A v \in Hook \ {w} : hook'[v] = hook[v]
    BY <1>1, <1>2, Types
  <1>4. TypeOK'
    BY <1>3 DEF IInv, TypeOK, Deliver, provider, ledger, history
  <1>5. Crediting'
    BY <1>3, NotCrediting DEF Deliver, provider, ledger
  <1> QED
    BY <1>4, <1>5, HookQuiet DEF Deliver, provider, history

LEMMA LoadStep ==
    ASSUME IInv, NEW w \in Hook, Load(w)
    PROVE  IInv'
  <1>1. PICK pc \in {"process", "key"} : Become(w, pc)
    BY DEF Load
  <1>2. /\ hook' \in [Hook -> Job] /\ hook'[w].pc # "user"
        /\ \A v \in Hook \ {w} : hook'[v] = hook[v]
    BY <1>1, Types, HookGoesOn DEF Load
  <1>3. TypeOK'
    BY <1>2 DEF IInv, TypeOK, Load, provider, ledger, history
  <1>4. Crediting'
    BY <1>2, NotCrediting DEF Load, provider, ledger
  <1> QED
    BY <1>3, <1>4, HookQuiet DEF Load, provider, history

LEMMA RestoreStep ==
    ASSUME IInv, NEW w \in Hook, Restore(w)
    PROVE  IInv'
  <1>1. /\ hook' \in [Hook -> Job] /\ hook'[w].pc # "user" /\ hook[w].p \in Payment
        /\ \A v \in Hook \ {w} : hook'[v] = hook[v]
    BY Types, HookGoesOn DEF Restore
  <1>2. rows' \subseteq Payment
    BY <1>1, Types DEF Restore
  <1>3. TypeOK'
    BY <1>1, <1>2 DEF IInv, TypeOK, Restore, provider, ledger, history
  <1>4. Crediting'
    BY <1>1, NotCrediting DEF Restore, provider, ledger
  <1> QED
    BY <1>3, <1>4, HookQuiet DEF Restore, provider, history

LEMMA ProcessStep ==
    ASSUME IInv, NEW w \in Hook, Process(w)
    PROVE  IInv'
  <1> DEFINE pc == IF prov[hook[w].p] = "succeeded" /\ hook[w].p \notin txns
                   THEN "user" ELSE "answer"
  <1>1. /\ hook' \in [Hook -> Job]
        /\ hook'[w].pc = pc /\ hook'[w].p = hook[w].p
        /\ \A v \in Hook \ {w} : hook'[v] = hook[v]
    BY Types, HookGoesOn DEF Process
  <1>2. TypeOK'
    BY <1>1 DEF IInv, TypeOK, Process, provider, ledger, history
  <1>3. hook'[w].pc = "user" => prov[hook[w].p] = "succeeded" /\ hook[w].p \notin txns
    BY <1>1
  <1>4. \A v \in Hook \ {w} : ~(hook[v].pc = "user" /\ hook[v].p = hook[w].p)
    BY DEF Process, RowFree
  <1>5. Crediting'
    BY <1>1, <1>3, <1>4 DEF IInv, Crediting, Process, provider, ledger
  <1> QED
    BY <1>2, <1>5, HookQuiet DEF Process, provider, history

LEMMA CreditStep ==
    ASSUME IInv, NEW w \in Hook, Credit(w)
    PROVE  IInv'
  <1>1. /\ hook' \in [Hook -> Job] /\ hook'[w].pc = "answer" /\ hook[w].p \in Payment
        /\ \A v \in Hook \ {w} : hook'[v] = hook[v]
    BY Types, HookGoesOn DEF Credit
  <1>2. txns' \subseteq Payment
    BY <1>1, Types DEF Credit
  <1>3. balance' \in Nat
    BY <1>1, AmountType, Types DEF Credit
  <1>4. TypeOK'
    BY <1>1, <1>2, <1>3 DEF IInv, TypeOK, Credit, provider, history
  <1>5. \A v \in Hook \ {w} : hook[v].pc = "user" => hook[v].p # hook[w].p
    BY DEF IInv, Crediting, Credit
  <1>6. Crediting'
    BY <1>1, <1>5 DEF IInv, Crediting, Credit, provider
  <1> QED
    BY <1>4, <1>6, HookQuiet DEF Credit, provider, history

LEMMA AnswerStep ==
    ASSUME IInv, NEW w \in Hook, Answer(w)
    PROVE  IInv'
  <1>1. /\ hook' \in [Hook -> Job] /\ hook'[w].pc # "user"
        /\ \A v \in Hook \ {w} : hook'[v] = hook[v]
    BY Types DEF Answer, Job, Idle
  <1>2. acked' \subseteq Payment
    BY HookKinds, Types DEF Answer, Idle
  <1>3. TypeOK'
    BY <1>1, <1>2 DEF IInv, TypeOK, Answer, ledger, history
  <1>4. Crediting'
    BY <1>1, NotCrediting DEF Answer, ledger
  <1> QED
    BY <1>3, <1>4, HookQuiet DEF Answer, history

LEMMA FailStep ==
    ASSUME IInv, NEW w \in Hook, Fail(w)
    PROVE  IInv'
  <1>1. /\ hook' \in [Hook -> Job] /\ hook'[w].pc # "user"
        /\ \A v \in Hook \ {w} : hook'[v] = hook[v]
    BY Types DEF Fail, Job, Idle
  <1>2. TypeOK'
    BY <1>1, FaultType DEF IInv, TypeOK, Fail, provider, ledger, history
  <1>3. Crediting'
    BY <1>1, NotCrediting DEF Fail, provider, ledger
  <1> QED
    BY <1>2, <1>3, HookQuiet DEF Fail, provider, history

-----------------------------------------------------------------------------
(* What surrounds them.                                                    *)

\* A decided payment is known as before, and no success is taken back.
LEMMA ResolveStep ==
    ASSUME IInv, NEW r \in Payment, Resolve(r)
    PROVE  IInv'
  <1>1. PICK st \in {"succeeded", "canceled"} : prov' = [prov EXCEPT ![r] = st]
    BY DEF Resolve
  <1>2. /\ prov' \in [Payment -> {"none", "pending", "succeeded", "canceled"}]
        /\ \A p \in Payment : Known(p)' = Known(p)
        /\ \A p \in Payment : prov[p] = "succeeded" => prov'[p] = "succeeded"
    BY <1>1, Types DEF Known, Resolve
  <1>3. TypeOK'
    BY <1>2 DEF IInv, TypeOK, Resolve, ledger, history
  <1>4. PassFacts' /\ Keys' /\ OneCard' /\ TodaysCard' /\ PassCard'
    BY <1>2 DEF IInv, PassFacts, Keys, OneCard, TodaysCard, PassCard, Excused, Resolve, history
  <1>5. Crediting'
    BY <1>2, Types, HookKinds DEF IInv, Crediting, Resolve, ledger, Idle
  <1> QED
    BY <1>3, <1>4, <1>5 DEF IInv

LEMMA SpendStep ==
    ASSUME IInv, Spend
    PROVE  IInv'
  <1>1. balance' \in Nat
    BY Types DEF Spend
  <1>2. TypeOK'
    BY <1>1 DEF IInv, TypeOK, Spend, provider, history
  <1>3. Crediting'
    BY DEF IInv, Crediting, Spend, provider
  <1> QED
    BY <1>2, <1>3, HookQuiet DEF Spend, provider, history

\* Changed cards excuse the day, and only the day's payments are compared with them.
LEMMA RecardStep ==
    ASSUME IInv, Recard
    PROVE  IInv'
  <1>1. recarded' = recarded \cup {day} /\ cards' \subseteq Card
    BY Types DEF Recard
  <1>2. TypeOK'
    BY <1>1, Types DEF IInv, TypeOK, Recard, provider, ledger
  <1>3. PassFacts' /\ Keys' /\ OneCard' /\ Crediting'
    BY <1>1 DEF IInv, PassFacts, Keys, OneCard, Crediting, Known, Excused, Recard, provider, ledger
  <1>4. TodaysCard' /\ PassCard'
    BY <1>1 DEF IInv, TodaysCard, PassCard, Known, Excused, Recard, provider
  <1> QED
    BY <1>2, <1>3, <1>4 DEF IInv

\* The new day has no payments yet, and no pass has read its date.
LEMMA TickStep ==
    ASSUME IInv, Tick
    PROVE  IInv'
  <1>1. day \in Nat /\ day' = day + 1 /\ day' \in Day
    BY Types, ConstantsAssumption DEF Tick, Day
  <1>2. left' \in [Sub -> Int]
    BY Types DEF Tick
  <1>3. TypeOK'
    BY <1>1, <1>2 DEF IInv, TypeOK, Tick, provider, ledger, history
  <1>4. pass.pc = "charge" => pass.date \in Nat /\ pass.date < day'
    BY <1>1, Types, PassKinds DEF IInv, PassFacts, Day
  <1>5. \A p \in Payment : p.day \in Nat /\ (Known(p) => p.day < day')
    BY <1>1, AmountType DEF IInv, Keys, Day
  <1>6. PassFacts' /\ PassCard'
    BY <1>4 DEF IInv, PassFacts, PassCard, Known, Excused, Tick, provider, history
  <1>7. Keys' /\ TodaysCard'
    BY <1>1, <1>5 DEF IInv, Keys, TodaysCard, Known, Tick, provider
  <1>8. OneCard' /\ Crediting'
    BY DEF IInv, OneCard, Crediting, Known, Excused, Tick, provider, ledger, history
  <1> QED
    BY <1>3, <1>6, <1>7, <1>8 DEF IInv

LEMMA CrashStep ==
    ASSUME IInv, Crash
    PROVE  IInv'
  <1>1. hook' \in [Hook -> Job] /\ \A w \in Hook : hook'[w].pc # "user"
    BY DEF Crash, Job, Idle
  <1>2. pass' \in Pass /\ pass'.pc # "charge"
    BY DEF Crash, Pass, Idle
  <1>3. guard' \in [date : Day \cup {-1}, done : SUBSET Sub]
    BY DEF Crash, NoGuard
  <1>4. TypeOK'
    BY <1>1, <1>2, <1>3, FaultType DEF IInv, TypeOK, Crash, provider, ledger, history
  <1>5. PassFacts' /\ PassCard' /\ Crediting'
    BY <1>1, <1>2 DEF PassFacts, PassCard, Crediting
  <1>6. Keys' /\ OneCard' /\ TodaysCard'
    BY DEF IInv, Keys, OneCard, TodaysCard, Known, Excused, Crash, provider, history
  <1> QED
    BY <1>4, <1>5, <1>6 DEF IInv

-----------------------------------------------------------------------------
(* The invariant.                                                          *)

LEMMA Initially == Init => IInv
  <1> SUFFICES ASSUME Init PROVE IInv
    OBVIOUS
  <1>1. day \in Day /\ guard \in [date : Day \cup {-1}, done : SUBSET Sub]
    BY ConstantsAssumption DEF Init, Day, NoGuard
  <1>2. left \in [Sub -> Int] /\ balance \in Nat /\ faults \in 0 .. MaxFaults
    BY ConstantsAssumption DEF Init
  <1>3. /\ prov \in [Payment -> {"none", "pending", "succeeded", "canceled"}]
        /\ \A p \in Payment : ~Known(p)
    BY DEF Init, Known
  <1>4. hook \in [Hook -> Job] /\ \A w \in Hook : hook[w].pc # "user"
    BY DEF Init, Job, Idle
  <1>5. pass \in Pass /\ pass.pc # "charge"
    BY DEF Init, Pass, Idle
  <1>6. TypeOK
    BY <1>1, <1>2, <1>3, <1>4, <1>5 DEF Init, TypeOK
  <1>7. PassFacts /\ Keys /\ OneCard /\ TodaysCard /\ PassCard /\ Crediting
    BY <1>3, <1>4, <1>5 DEF PassFacts, Keys, OneCard, TodaysCard, PassCard, Crediting
  <1> QED
    BY <1>6, <1>7 DEF IInv

LEMMA Inductive == IInv /\ [Next]_vars => IInv'
  <1> SUFFICES ASSUME IInv, [Next]_vars PROVE IInv'
    OBVIOUS
  <1>1. CASE PassStep
    BY <1>1, RenewStep, SkipStep, AssessStep, ExtendStep, RefundStep, StartTopUpsStep,
       ChargeStep, ChargeAgainStep, ChargeRefusedStep, ChargeLostStep, StoreRowStep,
       DeadlockStep, StoreErrorStep, MarkStep, EndPassStep DEF PassStep
  <1>2. ASSUME NEW w \in Hook, HookStep(w) \/ Fail(w) \/ \E p \in Payment : Deliver(w, p)
        PROVE  IInv'
    BY <1>2, LoadStep, RestoreStep, ProcessStep, CreditStep, AnswerStep, FailStep,
       DeliverStep DEF HookStep
  <1>3. CASE UNCHANGED vars
    BY <1>3 DEF vars, provider, ledger, history, IInv, TypeOK, PassFacts, Keys, OneCard,
                TodaysCard, PassCard, Crediting, Known, Excused
  <1> QED
    BY <1>1, <1>2, <1>3, BeginStep, ResolveStep, SpendStep, RecardStep, TickStep, CrashStep
       DEF Next

LEMMA Invariance == Spec => []IInv
  BY Initially, Inductive, PTL DEF Spec

\* Type correctness; with it, that no charge overdraws the balance.
THEOREM TypeCorrect == Spec => []TypeOK
  <1>1. IInv => TypeOK
    BY DEF IInv
  <1> QED
    BY <1>1, Invariance, PTL

\* A subscription is charged for by one card a day, whatever becomes of the
\* pass and the process, unless a call gave no answer or the cards changed.
THEOREM OneChargeADay == Spec => []ChargedOnce
  <1>1. IInv => ChargedOnce
    <2> SUFFICES ASSUME IInv, NEW p \in Payment, NEW q \in Payment,
                        Known(p), Known(q), p.sub = q.sub, p.day = q.day, p # q
                 PROVE  Excused(p.sub, p.day)
      BY DEF ChargedOnce, Excused, Known
    <2>1. CASE p.card = q.card
      <3>1. q \in SameKey(p)
        BY <2>1 DEF SameKey
      <3> QED
        BY <3>1 DEF IInv, Keys
    <2> QED
      BY <2>1 DEF IInv, OneCard
  <1> QED
    BY <1>1, Invariance, PTL

-----------------------------------------------------------------------------
(* The ledger.                                                             *)

Paid == {p \in Payment : prov[p] = "succeeded"}
\* What the pass holds back until the extension is decided.
Kept == IF pass.pc = "extend" THEN Price ELSE 0
Purse == [u \in {"user"} |-> balance + Kept]

LEMMA LedgerState ==
    /\ Ledger!vars = <<Paid, txns, Purse>>
    /\ \A p \in Payment :
          Paid' = Paid \cup {p} /\ UNCHANGED <<txns, balance, Kept>> => [Ledger!Next]_(Ledger!vars)
    /\ UNCHANGED <<Paid, txns, Purse>> => UNCHANGED Ledger!vars
  <1>1. Ledger!vars = <<Paid, txns, Purse>>
    BY DEF Ledger!vars, Paid, Purse, Kept
  <1>2. ASSUME NEW p \in Payment, Paid' = Paid \cup {p}, UNCHANGED <<txns, balance, Kept>>
        PROVE  [Ledger!Next]_(Ledger!vars)
    <2>1. Ledger!Settle(p)
      BY <1>2 DEF Ledger!Settle, Paid, Kept
    <2> QED
      BY <2>1 DEF Ledger!Next
  <1>3. UNCHANGED <<Paid, txns, Purse>> => UNCHANGED Ledger!vars
    BY DEF Ledger!vars, Paid, Purse, Kept
  <1> QED
    BY <1>1, <1>2, <1>3

\* A payment made or decided on moves money or does not.
LEMMA StatusRefines ==
    ASSUME IInv, NEW p \in Payment, prov[p] # "succeeded",
           NEW st \in {"pending", "succeeded", "canceled"},
           prov' = [prov EXCEPT ![p] = st],
           UNCHANGED <<txns, balance, Kept>>
    PROVE  [Ledger!Next]_(Ledger!vars)
  <1>1. prov'[p] = st /\ \A q \in Payment : q # p => prov'[q] = prov[q]
    BY Types
  <1>2. CASE st = "succeeded"
    <2>1. Paid' = Paid \cup {p}
      BY <1>1, <1>2 DEF Paid
    <2> QED
      BY <2>1, LedgerState
  <1>3. CASE st # "succeeded"
    <2>1. Paid' = Paid
      BY <1>1, <1>3 DEF Paid
    <2> QED
      BY <2>1, LedgerState DEF Purse
  <1> QED
    BY <1>2, <1>3

LEMMA ChargeRefines ==
    ASSUME IInv, Charge \/ ChargeLost
    PROVE  [Ledger!Next]_(Ledger!vars)
  <1>1. pass.pc = "charge" /\ pass.cards # {} /\ \A q \in SameKey(Asked) : ~Known(q)
    BY DEF Charge, ChargeLost
  <1>2. Asked \in Payment /\ prov[Asked] # "succeeded"
    BY <1>1, AskedIsPayment DEF Known
  <1>3. PICK st \in {"pending", "succeeded", "canceled"} : prov' = [prov EXCEPT ![Asked] = st]
    BY DEF Charge, ChargeLost
  <1>4. pass'.pc # "extend"
    BY <1>1, StoreType, NextCardType DEF Charge, ChargeLost
  <1>5. UNCHANGED <<txns, balance, Kept>>
    BY <1>1, <1>4 DEF Charge, ChargeLost, ledger, Kept
  <1> HIDE DEF Asked
  <1> QED
    BY <1>2, <1>3, <1>5, StatusRefines

\* The deposit of a webhook is the ledger's: a success, not yet credited.
LEMMA CreditRefines ==
    ASSUME IInv, NEW w \in Hook, Credit(w)
    PROVE  [Ledger!Next]_(Ledger!vars)
  <1> DEFINE p == hook[w].p
  <1>1. p \in Payment
    BY Types, HookKinds DEF Credit, Idle
  <1>2. p \in Paid \ txns
    BY <1>1 DEF IInv, Crediting, Credit, Paid
  <1>3. /\ txns' = txns \cup {p} /\ balance' = balance + p.amount
        /\ Paid' = Paid /\ Kept' = Kept
    BY DEF Credit, provider, Paid, Kept
  <1> HIDE DEF p
  <1>4. p.amount \in Nat /\ balance \in Nat /\ Kept \in Nat
    BY <1>1, AmountType, Types, ConstantsAssumption DEF Kept
  <1>5. Purse' = [Purse EXCEPT !["user"] = @ + p.amount]
    BY <1>3, <1>4 DEF Purse
  <1>6. Ledger!Credit(p)
    BY <1>1, <1>2, <1>3, <1>5 DEF Ledger!Credit, Paid, Purse, Kept
  <1> QED
    BY <1>1, <1>6 DEF Ledger!Next

\* The purse pays an amount the ledger knows.
LEMMA PurseRefines ==
    ASSUME IInv, NEW a \in {1, Price}, a <= balance + Kept,
           balance' + Kept' = balance + Kept - a, UNCHANGED <<prov, txns>>
    PROVE  [Ledger!Next]_(Ledger!vars)
  <1>1. Purse' = [Purse EXCEPT !["user"] = @ - a]
    <2>1. /\ Purse["user"] = balance + Kept
          /\ \A m : [Purse EXCEPT !["user"] = m] = [u \in {"user"} |-> m]
      BY DEF Purse
    <2>2. Purse' = [u \in {"user"} |-> balance + Kept - a]
      <3> DEFINE x == balance + Kept - a
      <3>1. x = balance' + Kept'
        OBVIOUS
      <3>2. Purse' = [u \in {"user"} |-> balance' + Kept']
        BY DEF Purse
      <3> QED
        BY <3>1, <3>2
    <2> QED
      BY <2>1, <2>2
  <1>2. Ledger!Spend("user", a)
    BY <1>1 DEF Ledger!Spend, Purse, Kept
  <1> QED
    BY <1>2 DEF Ledger!Next

\* A renewal holds the price back, ...
LEMMA RenewRefines ==
    ASSUME IInv, NEW s \in Sub, Renew(s)
    PROVE  [Ledger!Next]_(Ledger!vars)
  <1>1. balance \in Nat /\ Price \in Nat /\ Kept = 0
    BY Types, ConstantsAssumption DEF Renew, Kept
  <1>2. balance' + Kept' = balance
    <2>1. CASE Affordable
      <3>1. balance' = balance - Price /\ pass'.pc = "extend"
        BY <2>1 DEF Renew
      <3> QED
        BY <1>1, <3>1 DEF Kept
    <2>2. CASE ~Affordable
      <3>1. balance' = balance /\ pass'.pc = "renew"
        BY <2>2, Types, PassKinds DEF Renew
      <3> QED
        BY <1>1, <3>1 DEF Kept
    <2> QED
      BY <2>1, <2>2
  <1>3. Paid' = Paid /\ txns' = txns /\ Purse' = Purse
    BY <1>1, <1>2 DEF Renew, Paid, Purse, provider
  <1> QED
    BY <1>3, LedgerState

\* ... an extension, or a crash before it, spends it, a refund gives it back.
LEMMA ExtendRefines ==
    ASSUME IInv, Extend \/ Refund \/ Crash
    PROVE  [Ledger!Next]_(Ledger!vars)
  <1>1. balance \in Nat /\ Price \in Nat /\ pass'.pc # "extend" /\ Kept' = 0
    BY Types, ConstantsAssumption DEF Extend, Refund, Crash, Kept, Idle
  <1>2. Paid' = Paid /\ txns' = txns /\ prov' = prov
    BY DEF Extend, Refund, Crash, Paid, provider, ledger
  <1>3. CASE balance' = balance /\ pass.pc = "extend"
    <2>1. Price <= balance + Kept /\ balance' + Kept' = balance + Kept - Price
      BY <1>1, <1>3 DEF Kept
    <2> QED
      BY <1>2, <2>1, PurseRefines
  <1>4. CASE Refund
    <2>1. balance' + Kept' = balance + Kept
      BY <1>1, <1>4 DEF Refund, Kept
    <2>2. Purse' = Purse
      BY <2>1 DEF Purse
    <2> QED
      BY <1>2, <2>2, LedgerState
  <1>5. CASE balance' = balance /\ pass.pc # "extend"
    <2>1. Purse' = Purse
      BY <1>1, <1>5 DEF Purse, Kept
    <2> QED
      BY <1>2, <2>1, LedgerState
  <1> QED
    BY <1>3, <1>4, <1>5 DEF Extend, Crash, ledger

\* What neither pays nor credits nor spends leaves the ledger as it is.
LEMMA StepStutters ==
    ASSUME IInv, UNCHANGED <<prov, txns, balance>>,
           pass.pc # "extend", pass'.pc # "extend"
    PROVE  [Ledger!Next]_(Ledger!vars)
  BY LedgerState DEF Paid, Purse, Kept

LEMMA PassStutters ==
    ASSUME IInv,
           \/ Begin \/ StartTopUps \/ ChargeAgain \/ ChargeRefused
           \/ StoreRow \/ Deadlock \/ StoreError \/ Mark \/ EndPass
           \/ \E s \in Sub : Skip(s) \/ Assess(s)
    PROVE  [Ledger!Next]_(Ledger!vars)
  <1>1. UNCHANGED <<prov, txns, balance>>
    BY DEF Begin, StartTopUps, ChargeAgain, ChargeRefused, StoreRow, Deadlock, StoreError,
           Mark, EndPass, Skip, Assess, provider, ledger
  <1>2. pass.pc # "extend"
    BY DEF Begin, StartTopUps, ChargeAgain, ChargeRefused, StoreRow, Deadlock, StoreError,
           Mark, EndPass, Skip, Assess, Idle
  <1>3. pass'.pc # "extend"
    <2>1. CASE \E s \in Sub : Skip(s)
      BY <2>1, Types, PassKinds DEF Skip
    <2>2. CASE ChargeAgain \/ ChargeRefused
      BY <2>2, StoreType, NextCardType DEF ChargeAgain, ChargeRefused
    <2>3. CASE StoreRow \/ Deadlock \/ StoreError
      BY <2>3, StoredType, NotStoredType DEF StoreRow, Deadlock, StoreError
    <2>4. CASE Begin \/ StartTopUps \/ Mark \/ EndPass \/ \E s \in Sub : Assess(s)
      BY <2>4 DEF Begin, StartTopUps, Mark, EndPass, Assess, Idle
    <2> QED
      BY <2>1, <2>2, <2>3, <2>4
  <1> QED
    BY <1>1, <1>2, <1>3, StepStutters

LEMMA QuietRefines ==
    ASSUME UNCHANGED <<prov, txns, balance, pass>>
    PROVE  [Ledger!Next]_(Ledger!vars)
  BY LedgerState DEF Paid, Purse, Kept

LEMMA StepRefines ==
    ASSUME IInv, [Next]_vars
    PROVE  [Ledger!Next]_(Ledger!vars)
  <1>1. CASE PassStep
    BY <1>1, RenewRefines, ExtendRefines, ChargeRefines, PassStutters DEF PassStep
  <1>2. CASE \E w \in Hook : HookStep(w) \/ Fail(w) \/ \E p \in Payment : Deliver(w, p)
    <2>1. CASE \E w \in Hook : Credit(w)
      BY <2>1, CreditRefines
    <2>2. ASSUME NEW w \in Hook, \/ Load(w) \/ Restore(w) \/ Process(w) \/ Answer(w) \/ Fail(w)
                                 \/ \E p \in Payment : Deliver(w, p)
          PROVE  [Ledger!Next]_(Ledger!vars)
      BY <2>2, QuietRefines
         DEF Load, Restore, Process, Answer, Fail, Deliver, provider, ledger
    <2> QED
      BY <1>2, <2>1, <2>2 DEF HookStep
  <1>3. ASSUME NEW p \in Payment, Resolve(p)
        PROVE  [Ledger!Next]_(Ledger!vars)
    BY <1>3, StatusRefines DEF Resolve, ledger, Kept
  <1>4. CASE Spend
    <2>1. 1 <= balance + Kept /\ balance' + Kept' = balance + Kept - 1
      BY <1>4, Types, ConstantsAssumption DEF Spend, Kept
    <2> QED
      BY <1>4, <2>1, PurseRefines DEF Spend, provider
  <1>5. CASE Recard \/ Tick \/ UNCHANGED vars
    BY <1>5, QuietRefines DEF Recard, Tick, vars, provider, ledger
  <1> QED
    BY <1>1, <1>2, <1>3, <1>4, <1>5, ExtendRefines, PassStutters DEF Next

\* Beside renewals, refunds, repeated webhooks, lost rows and crashes, only a
\* payment whose money moved is credited, once and by its amount.
THEOREM ImplementsLedger == Spec => LedgerSpec
  <1>1. ASSUME Init PROVE Ledger!Init
    <2>1. Paid = {} /\ txns = {}
      BY <1>1 DEF Init, Paid
    <2>2. pass.pc # "extend" /\ balance = Opening /\ Opening \in Nat
      BY <1>1, ConstantsAssumption DEF Init, Idle
    <2>3. Purse = [u \in {"user"} |-> Opening]
      BY <2>2 DEF Purse, Kept
    <2> QED
      BY <2>1, <2>3 DEF Ledger!Init, Paid, Purse, Kept
  <1>2. IInv /\ [Next]_vars => [Ledger!Next]_(Ledger!vars)
    BY StepRefines
  <1> QED
    BY <1>1, <1>2, Invariance, PTL DEF Spec, LedgerSpec, Ledger!Spec

=============================================================================
