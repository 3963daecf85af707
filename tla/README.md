# Verification of GorecBot

TLA+ models, model-checking runs and machine-checked proofs about the bot in
`src/app`. The bot sells VPN subscriptions through Telegram and a web cabinet,
takes money through some 25 payment providers, and keeps the accounts of a
Remnawave panel in step with what was bought. It is one Python process (aiogram
and FastAPI on one event loop, background loops as asyncio tasks) over
PostgreSQL at READ COMMITTED, with Redis for caches and queues.

Contents: [1 inventory](#1-the-system), [2 plan](#2-plan),
[3 TabPay](#3-tabpay-top-up), [4 Grace](#4-grace-access), [5 receipts](#5-receipts),
[6 guest purchases](#6-guest-purchases), [7 daily subscriptions](#7-daily-subscriptions),
[8 referral](#8-referral), [9 recurrent payments](#9-recurrent-payments),
[10 panel synchronisation](#10-panel-synchronisation), [11 wheel](#11-wheel-of-fortune),
[12 runs](#12-runs), [13 proofs](#13-proofs), [14 findings](#14-what-the-violation-runs-show),
[15 other behaviours](#15-what-else-the-models-show), [16 not modelled](#16-what-is-not-modelled).

## 1. The system

| Component | State it keeps | Operations | Made hard by | Correct when |
|---|---|---|---|---|
| TabPay top-up (`services/payment/tabpay.py`, `crud/tabpay.py`, `webserver/payments.py`, `payment_verification_service.py`) | payment row, deposit transactions, balance | create invoice, webhook, API check, credit | answer sent before the work; duplicate and late webhooks; API answers older than the lock | money that moved is credited at most once, by its amount, and eventually |
| Grace access (`grace_access_service.py`, `grace_access_runtime.py`, `tools/grace_access.py`, `panel_sync/`) | sessions, suppression and date markers of the subscription, the panel account | observe, activate, reconcile, restore, restore-all, drain | no common transaction with the panel; checkpoints release the lock; payments, admins and imports at any moment | no overlay left behind, paid access untouched, one grace per end date, every session ends |
| Guest purchases, gifts (`guest_purchase_service.py`, `payment/common.py`, `gift_*`) | purchase row: pending, paid, delivered, pending_activation, failed | webhook, retry, claim, activation, expiry of retries | retry of what was partly committed; panel calls inside the transaction | a paid purchase is delivered exactly once or reported |
| NaloGO receipts (`nalogo_service.py`, `nalogo_queue_service.py`) | Redis queue, markers `created`/`queued`, verification list | create, queue loop, forced run, manual verification | timeouts with unknown outcome, pop before work, no common lock | one receipt per payment, none forgotten |
| Daily subscriptions (`daily_subscription_service.py`, the pause switches, `try_resume_disabled_daily_after_topup`) | status, pause, dates, `last_daily_charge_at`, balance | charge, suspend, revive, pause, resume, resume after a top-up | the subscription's row is never locked; lists and images are older than the charge | one charge per day, exactly if the day is given; nothing due is left |
| Balance, purchase, renewal (`crud/user.py`, `subscription_renewal_service.py`, `user_cart_service.py`) | `users.balance_kopeks`, subscription dates, cart | charge, deposit, extend | identity-map images | balance is the sum of the ledger |
| Referral rewards and withdrawals (`referral_service.py`, `referral_withdrawal_service.py`, bot and cabinet administration) | first-top-up flag, earnings, requests, the partner's balance | reward, request, approve, reject, complete, cancel | credit and earning are two commits; decisions on images read before the lock | one bonus, earnings backed by money, nothing withdrawn that was not earned |
| Recurrent payments (`recurrent_payment_service.py`, monitoring's autopay, YooKassa's webhook) | cards, provider payments, rows, the day's guard, balance | renew, top up by card, store, restore, credit, refund | answer lost after the charge; the user's row held during the call; webhook racing the pass | one charge a day, credited once and in the end |
| Panel synchronisation (`remnawave_service.py`, `panel_sync/`, webhooks, `remnawave_retry_queue.py`) | remote ids, dates, statuses | import, push, adopt, retry | snapshots older than purchases | an import never undoes a purchase |
| Wheel of fortune (`wheel_service.py`, `crud/wheel.py`, `handlers/stars_payments.py`) | spins of the day, balance, days | spin from the balance, by days, by Stars; refund | pushes commit in mid-spin; messages about Stars repeat | limit kept, one prize per charge |
| Promo codes, coupons, raffle, contests | counters, limits | activate, draw | limit checks before the lock | limits hold under concurrency |
| Reachability, broadcast, e-mail retry, account merge, maintenance, backup | job rows, progress | schedule, run, resume | restart in mid-job | every job ends |
| Interface: handlers, keyboards, cabinet, web API, localization | dialogue state | - | - | stateless over the services |

How they meet. A webhook route answers 200 and hands the work to a task; the
task goes to its provider's mixin, which credits the balance and then lets the
auto-purchase spend it. A purchase commits the subscription in the database and
afterwards pushes it to the panel, under the subscription's advisory lock when
grace may be running. Imports go the other way, from panel to database: the
full synchronisation, monitoring, and the panel's webhooks. Grace takes an
expired subscription's account away from the ordinary writers for a while and
must give it back to whoever is right by then.

## 2. Plan

| | Module | Composes | States | Status |
|---|---|---|---|---|
| 1 | `TopUpLedger`, `TabPay`, `MCTabPay` | TabPay implements TopUpLedger | one provider in full, in place of all | done |
| 2 | `BalanceProofs` | TabPay, Wheel | types, safety, refinement; what fills and what spends a balance | done |
| 3 | `Grace`, `MCGrace`, `GraceProofs` | worker, panel, payments, imports in one state | grace sessions; proved | done |
| 4 | `Receipts`, `MCReceipts`, `ReceiptsProofs` | handler, queue loop, forced run, administrator | NaloGO receipts; proved | done |
| 5 | `Delivery`, `GuestPurchase`, `MCGuestPurchase`, `GuestProofs` | webhook, loop, claims; implements Delivery | what a paid purchase may become; proved | done |
| 6 | `Daily`, `MCDaily`, `DailyProofs` | loop, switches, top-ups, panel, monitoring | daily charges; proved | done |
| 7 | `Referral`, `MCReferral`, `ReferralProofs` | rewards, requests, two administrations | entitlement, rewards; proved | done |
| 8 | `Autopay`, `MCAutopay`, `AutopayProofs` | monitoring's pass, YooKassa, webhooks; implements TopUpLedger | card charges and their credit; proved | done |
| 9 | `PanelSync`, `MCPanelSync`, `PanelSyncProofs` | renewal, push, retry queue, the panel, three kinds of import | both directions between bot and panel; proved | done |
| 10 | `Wheel`, `MCWheel` (`BalanceProofs`) | spins of the cabinet, messages about Stars | limit, charge and prize; proved | done |
| 11 | promo codes; reachability jobs | | limits; every job ends | open |

The order is that of the damage a mistake does: money first, then access. Every
module is written without RECURSIVE operators, with its parameters as CONSTANTS
under a named assumption, so that it can be proved about. Runs are kept few: one
per component where one instance serves safety and liveness alike, two where it
does not (Grace), and violation runs only for a statement of the repository that the
code does not keep.

## 3. TabPay top-up

`TabPay.tla` splits a worker exactly where the code lets others see the database
change: between the unlocked read of the payment and its row lock, around the
API call, and between the row lock and the user's. What lies between two such
points is one transaction and one action.

| In the model | In the code |
|---|---|
| `row`, `txns`, `balance` | `TabPayPayment`, deposit `Transaction`s, `users.balance_kopeks` |
| `prov`, `sent`, `kind` | the provider: status of the payment, statuses announced, honest / sandbox / wrong amount |
| `recent` | creation date against `PENDING_MAX_AGE` |
| `job[w]` | locals of a webhook task (`Hook`) or of an API check (`Checker`): loop or cabinet |
| `Deliver`, `Hook...` | `tabpay_webhook`, `process_tabpay_callback` and `_apply_tabpay_success`, one action per early return |
| `CheckLoad`, `CheckFetch`, `Check...` | the loop's list, the API call, `check_tabpay_payment_status` |
| `BeginCredit`, `FinalizeCommit`, `StampCredited` | `_finalize_tabpay_payment`: flush, lock of the user, commit; later the metadata stamp |
| `Fail`, `Crash` | any exception up to the commit; death of the process with its tasks |
| `Spend` | `subtract_user_balance`, for any other service |

Worth knowing: SQLAlchemy's identity map keeps the image read before a lock
unless it is refreshed, so the model distinguishes what a worker remembers
(`job[w].was`, the unlocked read) from what the locked read gave. An unlocked
UPDATE waits for the row lock; a status written by `CheckSync` therefore never
lands within another worker's credit. A uniqueness constraint on (external_id,
method) backs the ledger. The manual check in the cabinet takes recent payments
that are pending or processing, a subset of what the loop takes.

`TopUpLedger.tla` is the promise: money that has moved is credited at most once,
by exactly its amount, to its owner, and a balance is charged only for what it
holds. `LedgerSpec` says that TabPay implements it (settled = live payments the
provider announced as SUCCESS, credited = deposits).

## 4. Grace access

When a subscription expires its account may be put into a restricted squad for
`Duration`, so that the user can still reach the payment page. `Grace.tla`
follows one subscription and its account.

| In the model | In the code |
|---|---|
| `billing`, `suppressed`, `mark`, `tail` | the `Subscription` row: status, end_date, tariff; `grace_suppressed_until`, `grace_overlay_expire_at`, `grace_tail_expire_at` |
| `session`, `granted` | the open `GraceAccessSession` row; incidents with a row |
| `panel` | the Remnawave account: status, expireAt, limits and squads, external squad |
| `job[w]`, `lock` | a worker between two awaits; `pg_advisory_xact_lock` |
| `Observe`, `Retry`, `Create`, `Resume` | processing of a candidate; the PENDING checkpoint; lock and session taken again |
| `Activate`, `Detach`, `Overlay`, `Confirm` | `_activate_pending`, `apply_overlay` |
| `Reconcile` = `Supersede`, `ActivatePending`, `Abandon`, `Withdraw` | `_reconcile_one` |
| `ApplyLive`, `ApplyExpired`, `PatchBack`, `Recheck`, `Finish`, `Keep` | `apply_billing_state`, `restore_snapshot`, `_restore_and_complete`, `_complete`, a pass that leaves the session open |
| `Call` | a panel call: succeeds, fails before the panel, or its answer is lost |
| `Crash`, `Restart` | rollback of what was not committed; the mode is read at start-up only |
| `Bill`, `Push`, `Disable`, `Enable` | renewal, change of tariff, deactivation; `update_remnawave_user`; the administrator in the bot |
| `PanelExpires`, `PanelEdit` | the panel's scheduler; the administrator in the panel |
| `ReadPanel`, `SyncRow`, `KeepAlive` | the full synchronisation, its rows read and written in one step (`PanelSync` parts the two); monitoring before it expires a row |

A date carries its origin (`by`), because in the code two dates computed in
different places never coincide to the microsecond, and the markers rely on
that. `Stamp` is `updated_at`: every write to the row makes an earlier snapshot
stale. Workers are the bot's reconciler (`Bot`) and `restore-all` run beside it
(`Cli`), which closes whatever it finds.

Abstractions. PostgreSQL only (on it the version check of `save` is redundant
under the lock). Limits, squads and reset strategy of a tariff are one value.
The GET and the PATCH of one restore are one step, detaching the external squad
is a step of its own. `Push` is one step, billing read under the lock and the
PATCH: other writers are kept out by the same lock. A blocked user is a
disabled subscription. Completion reasons, notifications, observe mode and the
traffic-limit variant of grace are left out.

## 5. Receipts

Russian law wants a fiscal receipt for every payment. `Receipts.tla` follows
payments from the moment they are credited.

| In the model | In the code |
|---|---|
| `issued` | the tax service; the bot cannot ask whether a receipt exists |
| `created`, `flag`, `queue`, `pending` | Redis: `nalogo:created:*`, `nalogo:queued:*`, the queue, the verification list |
| `job[w]` | a handler that has credited a payment, the queue's loop, the forced run, an administrator |
| `Look`, `Send`, `Mark`, `Save` | `create_receipt`; login happens between `Look` and `Send` |
| `QueueLook`, `Flag`, `Push` | `_queue_receipt` |
| `Start`, `Pop`, `Unflag`, `Requeue` | `_process_pending_receipts`, run by the loop and by `force_process` |
| `Retry`, `Verified`, `ReadBack`, `Delete`, `Rewrite`, `Clear` | `retry_pending_receipt`, `mark_pending_as_verified`, `clear_pending_verification` |
| `Fault` in `Mark`, `Save`, `Flag`, `Push`, `Unflag`, `Requeue`, `Crash` | errors of Redis, which `app/utils/cache.py` swallows, and the death of the process |

Every await on Redis is a point where another task may run, so every Redis call
is a step. The verification list is a set: nothing depends on its order, and
every search in it is by payment. `unknown` is a history variable: payments with a request whose answer
was lost. Keys do not expire in the model (7 and 30 days in the code, longer
than the 12 hours the queue keeps trying), and delivering the receipt to the buyer is left out.

## 6. Guest purchases

A purchase is a row that the provider's webhook, the monitoring loop, the
buyer's landing page and those who claim a gift all work on. `Delivery.tla` is
the promise; `GuestPurchase.tla` the tasks.

| In the model | In the code |
|---|---|
| `kind`, `status`, `owner`, `tries`, `recent` | the `GuestPurchase` row: gift or not, paid how, `status`, `user_id`, `retry_count`, `paid_at` within 24 h |
| `provider` | the provider's own payment row, which recovery consults |
| `sub`, `granted` | a user's subscription; what was committed for a purchase, and to whom |
| `task[t]` | a web request or bot update (`Task`) or the loop (`Monitor`) between two commits |
| `WebhookMismatch`, `WebhookGift`, `WebhookFulfil`, `Recover` | `try_fulfill_guest_purchase` and its recovery session |
| `Fulfil`, `CommitGrant`, `Delivered` | `fulfill_purchase`: until the grant commits (and frees the row), and after |
| `Activate`, `Flush`, `PanelAnswers`, `PanelFails`, `Mark` | `activate_purchase`; `create_remnawave_user` commits, or rolls back and answers None |
| `LandingActivate`, `Claim`, `RegisterWithGift` | the landing page, `gift_claim_service`, `registration_invite_service` |
| `WalletLook`, `WalletBuy` | `purchase_gift_from_balance`: the unlocked look for the key, the charge with its unique index |
| `RecoverPending`, `Pick`, `RetryPaid`, `RetryHeld`, `FailExhausted` | `_retry_stuck_guest_purchases`, one phase after the other |
| `Raises`, `Crash`, `Age`, `BuyElsewhere`, `Lapse`, `MarkExpired` | exceptions, death of the process, the 24 hours, the recipient's other purchases and his expiry |

`doubt` is a history variable: purchases on which two tasks overlapped, one
broke off after a commit, or the panel failed. `OnceUnlessDoubt` is as much as
the code keeps (section 15). Left out: multi-tariff mode, replacement
subscriptions, amounts in foreign currency, notifications.

## 7. Daily subscriptions

`Daily.tla` follows one subscription charged by the day.

| In the model | In the code |
|---|---|
| `row` | `status`, `is_daily_paused`, `last_daily_charge_at`, `end_date`, and how old `updated_at` is |
| `bill`, `doubt` | charges of today; today a task acted on an outdated row, broke off, or the service was cut |
| `List`, `Revive`, `LoopCharge`, `Suspend` | `DailySubscriptionService`: lists, automatic resumption, charge, want of money |
| `MiniApp`; `Look`, `Cabinet`, `Apply`; `Bot`, `BotResume` | the three pause switches, each with the order of reading, lock and charge that it has |
| `TopUp`, `TopUpLook`, `Pay`, `Activate`, `Refund`, `Stamp` | `try_resume_disabled_daily_after_topup`: guard of 60 seconds, charge, activation, refund, time stamp, each a commit |
| `MonitorLists`, `MonitorExpires` | monitoring's expiry, decided again under the row's UPDATE |
| `PanelLimits`, `PanelEnables`, `Deactivate`, `Disable`, `BuyElse` | panel webhooks, administrators, leaving the channel, other purchases |
| `Minute`, `Tick` | the clock against the guard, against the 24 hours |

A day is a unit, and the moment within it is kept only as far as the guard of 60
seconds needs it (`touched`). Left out: resets of bought traffic, discounts of
100 %, changes of tariff, several subscriptions of one user.

## 8. Referral

`Referral.tla` follows one partner and one person he invited.

| In the model | In the code |
|---|---|
| `flag`, `earned`, `credited`, `bonuses` | `has_made_first_topup`; sum and number of `ReferralEarning`s; rewards paid (history) |
| `request`, `last`, `cool` | `WithdrawalRequest`s; the cooldown of the latest |
| `FirstReward`, `NextReward`, `Bonus`, `Credit`, `CreditFails`, `Note` | `process_referral_topup`: the flag, the limit, then two commits per reward |
| `Ask`, `Create`, `Refuse`, `Entitlement`, `Available` | `create_withdrawal_request` and the statistics it rests on |
| `CabinetDecides`, `Cancel`; `BotOpens`, `BotDecides` | decisions: the cabinet reads under the lock, the bot before it |
| `charged`, `stale` | withdrawal transactions; requests decided on by an outdated image |
| `Spend`, `OwnTopUp` | the partner's other uses of his balance |

`Sum` counts the amounts of a set of requests unit by unit, which is what the
proofs of section 13 add up; no amount exceeds `Most` (`TypeOK`).

Left out: the scheme of levels and rewards in days, attaching a referrer, the
risk analysis, contests.

## 9. Recurrent payments

`Autopay.tla` puts together monitoring's pass, YooKassa and its webhooks.

| In the model | In the code |
|---|---|
| `left[s]` | days until `end_date`; the status follows it |
| `prov`, `acked` | YooKassa: payments by idempotence key and amount; final webhooks answered by 200 |
| `rows`, `txns` | `YooKassaPayment`s, deposit `Transaction`s with their link |
| `guard` | `_daily_guard`, in memory |
| `pass`, `held` | position of `_monitoring_cycle`; its transaction holds the user's row |
| `Begin`, `Renew`, `Extend`, `Refund` | `_process_autopayments`: list, charge (a commit), extension (a commit), compensating refund |
| `StartTopUps`, `Skip`, `Assess` | `process_recurrent_payments`, `_process_single_subscription` up to the cards |
| `Charge`, `ChargeAgain`, `ChargeRefused`, `ChargeLost` | `create_autopayment`: new payment, the one there is, None, answer lost |
| `StoreRow`, `StoreError`, `Deadlock`, `Mark`, `EndPass` | `create_yookassa_payment`, its swallowed error, `mark_processed` |
| `Deliver`, `Load`, `Restore`, `Process`, `Credit`, `Answer`, `Fail` | `yookassa_webhook`: confirmation, row or its restoration, status, credit, 200 or 500 |
| `Resolve`, `Spend`, `Recard`, `Tick`, `Crash` | the bank, other services, the owner's cards, the day, death of the process |

The user's row is locked for pricing before the card is charged and stays so
during the call (30 s), because nothing commits in between. A webhook that
restores the same payment's row waits for it by its foreign key while the pass
waits for the webhook's insert: a deadlock, of which PostgreSQL aborts one side.
`LedgerSpec` and `ChargedIsCredited` hold either way.

Abstractions. One user; one price for all subscriptions. The local status is
not kept, since the credit goes by what the provider confirms. The first read
of a webhook and its lock are one step where nothing observable lies between. A
key used again with another amount is refused: an assumption about YooKassa. So
is that keys never expire and that it repeats a webhook until it is answered by
200 (it gives up after 24 hours). A charge for a renewal counts in the ledger
when its extension is decided. Left out: trial, simple and guest purchases through YooKassa,
manual renewal, `_notified_users`, promo offers.

## 10. Panel synchronisation

`PanelSync.tla` follows one paid subscription and its account, with grace off as
it is by default (`GRACE_ACCESS_MODE`, `config.py:263`). Then
`lock_grace_sensitive_panel_updates` takes no lock
(`grace_access_runtime.py:1162`), and pushes of one subscription may overtake
each other.

| In the model | In the code |
|---|---|
| `row`, `panel` | status and end date of the `Subscription` and of the Remnawave account |
| `newer`, `recent` | `updated_at` or `last_webhook_update_at` later than `snapshot_taken_at`; a webhook handled within the minute |
| `job[w]` | a request of the user, or the queue's `Loop`, between its awaits |
| `queue`, `batch` | `RemnaWaveRetryQueue._queue` (attempts of each item), and what `process_pending` has taken out |
| `hooks` | webhooks of the panel on their way: lost, late, in any order |
| `Renew`, `ReadRow`, `Delivered`, `Fails`, `TimesOut` | `finalize`: commit, push; `update_remnawave_user`: row read again, PATCH, error swallowed; `asyncio.timeout` |
| `TakeBatch`, `Requeued`, `Enqueued` | `process_pending`, `_requeue`, `enqueue` |
| `PatchStatus`, `Payload`, `Patched` | `resolve_panel_status`, `update_kwargs`, `push_subscription` with `_extinguish_stale_date` |
| `OnExpired`, `OnDisabled`, `OnEnabled`, `OnModified` | the handlers of `remnawave_webhook_service.py`, the last with the policy WEBHOOK |
| `SyncFetch`, `SyncLoad`, `SyncCommit` | `_sync_users_from_panel_multi`: list, rows, commit; the policy PANEL_TRUTH |
| `MonitorAsks`, `MonitorDecides`, `MonitorImports`, `MonitorExpires` | `_expire_if_due`: the panel is asked, the row read again, imported or expired under a condition |
| `Visit`, `VisitExpires` | the subscription middleware |
| `PanelExpires`, `Tick`, `Restart` | the panel's scheduler, the clock, a restart that loses the queue |

`paid` and `lost` are history variables: the date paid for while it lies ahead, and where ("row",
"panel") it was taken away by a cause the code leaves open. A step names itself
as such a cause: a webhook, a visit of the user, an import of a snapshot from before the
renewal; a push overtaken, refused or given up, a restart. `PaidIsKept`
and `PaidReachesPanel` say that there is no other.

Abstractions. A webhook is handled in one step: whatever it overwrites of a write
in between, it also overwrites by arriving later. A push and its answer take
less than a tick. Nobody edits the account by hand. Left out: creation and adoption
of accounts, squads and traffic, trials, several subscriptions of a user, the
callers of a push other than `finalize` and the queue.

## 11. Wheel of fortune

`Wheel.tla` follows one user who spins in the cabinet and by Stars.

| In the model | In the code |
|---|---|
| `money`, `days` | `users.balance_kopeks`; days left of the subscription |
| `spins`, `seen` | `WheelSpin`s of the day; their `telegram_charge_id`s, which are unique |
| `lock` | `FOR UPDATE` of the user's row |
| `play[t]` | a request or a message between its locks and commits, with the days its session remembers |
| `Ask`, `Start` | `check_availability`; `lock_user_for_update`, the second count, the funds checks |
| `PayDays` | `_process_days_payment` with its push |
| `WinNothing`, `WinMoney`, `WinDays`, `Record` | `_apply_prize` and `create_wheel_spin`: one commit, or two if the prize is pushed |
| `Message`, `Refund`, `Accept`, `RollsBack` | `_handle_wheel_spin_payment`: charge id, refund, count without a lock, `IntegrityError` |
| `Breaks` | a push that fails, or the death of the process |

The comment in `spin` calls the whole spin one transaction under the lock. Two
things in the code are otherwise, and make the model: `update_remnawave_user`
commits, so that a payment by days and a prize of days or traffic give the lock
away before the spin is recorded; and `add_user_balance` reads the row again
(`populate_existing`, with `autoflush=False`), so that a charge of the balance
that was not flushed yet is forgotten. A push that fails rolls back, which
expires the rows the spin goes on with; their next use fails outside the
session, and the spin ends there.

`owed`, `forgiven`, `forfeited`, `apart` and `hasty` are history variables: they
count what the exemptions of `ChargedForPrize`, `LimitUnlessApart` and
`OncePerCharge` name. Left out: multi-tariff mode, a wheel without limit,
subscriptions by the day or without a traffic limit (their prizes are money), the
choice of the prize, the prize's promo code once it is made.

## 12. Runs

| Run | Asks | Properties | Instance, states |
|---|---|---|---|
| TabPay | can a webhook task, a check and a spender make row, ledger and balance disagree, and is a pending payment credited without webhooks? | TypeOK, PaidMeansDeposited, LedgerSpec, WebhooksKeepFinal, PendingIsReconciled | 1 payment, 1 user with an opening balance of 1, 1 hook, 1 checker, price 1; 0.2 million |
| GraceSafety | can any interleaving leave, revive or misread an overlay? | TypeOK, OverlayIsNoRenewal, PaidAccessStays, NothingLeftBehind, SuppressedNeverActivated | 2 tariffs, 3 ticks, 2 edits, 1 fault, disable and extend in the panel; 2 million |
| GraceLive | does every session end? | SessionsEnd | 1 tariff, 3 ticks, 1 edit, 1 fault; 96 thousand |
| ReceiptsSafety | can tasks that share nothing but Redis queue, forget or issue a receipt twice, and does the queue drain? | TypeOK, SecondNeedsDoubt, QueuedIsKept, QueueDrains | 2 payments, 1 handler, loop, button, 1 administrator, 2 attempts, 2 faults; 0.4 million |
| Guest | can webhooks, claims and the loop grant twice, to two, or for nothing, and is a purchase paid for settled? | TypeOK, OneRecipient, GrantedIsPaidFor, OnceUnlessDoubt, ImplementsDelivery, PaidIsSettled | 1 purchase of any kind, 3 users, 2 tasks and the loop, 2 requests, 1 retry; 0.2 million |
| DailySafety | is a day charged once and given, and is what is due settled? | TypeOK, DayIsPaidOnce, DueIsSettled | 2 tasks, loop, monitor, price 2, balance 2, 3 days, 2 requests, 1 act, 1 fault |
| DailyDisabled | section 14 | LoopChargesDue | 2 days, 1 act |
| ReferralSafety | do rewards, requests and decisions stay within what was earned? | TypeOK, WithinEntitlement, ChargedIfApproved, BonusOnce, LimitIsKept | 2 tasks, 2 requests, commission 1, limit 1, 3 top-ups, symmetry; 1.9 million; deadlock checked |
| AutopaySafety | is a card charged once a day, and its money credited once and in the end? | TypeOK, ChargedOnce, LedgerSpec, ChargedIsCredited | 1 subscription, 2 cards, 2 webhooks, 2 days, 1 change of cards, 1 fault; 0.3 million |
| PanelSafety | does what was paid for stay in the row, and reach the panel? | TypeOK, PaidIsKept, PaidReachesPanel | 1 request, 2 renewals, 1 tick, 2 attempts, 1 webhook under way, 1 importer at a time, 2 faults; 0.7 million |
| PanelSwallowed | section 14 | FailedSyncIsQueued | 1 renewal, 1 fault, no webhooks or imports |
| Wheel | do spins keep the limit, and charges and prizes together? | WheelTypeOK, LimitUnlessApart, ChargedForPrize, OncePerCharge | 2 tasks, 5 requests, 2 payments by Stars, limit 2, balance 3, 3 days, 1 fault; 0.3 million |

**Bounds.** One payment suffices for TabPay's runs: payments meet only in the
user's balance, and `Spend` already moves that balance concurrently; the proofs
cover any number. A hook, a checker and a spender are every pair of racing kinds
of worker (two hooks were run as well, 0.9 million states, without another result). Grace follows one subscription because the code locks and decides
by subscription. Three ticks with a grace of two and a renewal of two are
enough for: expiry, grant, renewal in mid-grace, end of the grace, and the
account's expiry in the panel. Two edits let a payment meet a disable, or an
edit meet a restart in drain; one fault is a crash or a lost answer anywhere.
Larger instances (four ticks, then two faults) were run while the model was
written. For receipts, two payments let one be sent while the other moves in the
queue; two faults are a lost answer and a Redis error or a crash; three faults
and two handlers were run once, without another result. `Window` is the interval in which the code leaves a date for the
panel to expire. `Tick` waits for an import in progress: an import takes less
than a tick.

Guest purchases meet only in the buyer's balance, and a second purchase by the
same key is the same row; two tasks and the loop are three workers on one row,
two requests a payment and a claim, or two claims. Three requests (0.65 million
states), and two retries (0.5 million), were run once, without another result. Daily: three days let a day
pass unpaid and the next one begin; two requests are a pause and a top-up, or a
double click. Referral: two tasks give every race of two rewards, two requests
or two decisions, and three top-ups cross the limit of one commission; with a
bonus as well the instance has 9.5 million states and was run once. Autopay: two
cards give a next card, two days a guard that is reset, two webhooks a
repetition beside its first; a fault is a lost answer, a lost row, a failed
webhook, a failed extension or a crash. Two subscriptions with one card, and a
price of two with an opening balance of one, were run once for safety.

PanelSync: the first term ends at the first tick, so that a renewal comes before
or after the end; two faults are a timeout and a refused retry, or a retry given
up; of two renewals one overtakes the other's retry. Two ticks (2.3 million
states), and two requests with one fault (0.9 million), were run once, without another
result. `MaxReaders = 1` keeps the full synchronisation, monitoring and a visit
apart; two at a time (4.9 million states, for safety) gave nothing else, and the
proof covers any number.

Wheel: two tasks are a request beside another or beside a message about Stars;
five requests exceed the limit of two in every way of paying and repeat a
message; a fault is a failed push or the death of the process. GraceLive's
administrators do not extend accounts in the panel: a session then waits for the
new date to pass, and the bounded clock ends before.

**Deadlock** is checked for ReferralSafety only: elsewhere (CHECK_DEADLOCK
FALSE), when the payments are final and nothing is running, or the clock and the
edits are used up, the system has nothing left to do.

**Fairness.** TabPay: the reconciliation loop visits every pending payment
and its checks are served, strongly fair because an API error or a crash sends a
check back to its start and the code only promises to try again; it does not
promise webhooks, and none is assumed. Nothing is assumed about spenders. A
payment older than `PENDING_MAX_AGE` is out of the promise, as in the code.
GraceLive: the loop runs again and again in either mode (`_run_loop` swallows
errors and sleeps); a worker that can go on does; taking the contended advisory
lock is strongly fair, PostgreSQL queues the waiters; the panel's scheduler
expires accounts; time passes. Nobody is obliged to run restore-all, to push or
to edit. ReceiptsSafety: the loop comes back to the queue, a running pass and a
handler about to push go on (`_process_queue_loop` catches every error); the
button is never obliged to be pressed. Guest, DailySafety: a task that runs
goes on (asyncio schedules it, errors end it in `Raises`), and the loop comes
round, since monitoring and the daily service catch what a pass raises; no
webhook, claim or top-up is obliged to come. AutopaySafety: a running pass goes
on; a webhook goes on and gets the locks it waits for (strong, PostgreSQL queues
the waiters); YooKassa repeats what was not answered by 200 (strong, since a
delivery may fail). A new pass, a new day or the bank's decision are not assumed.
PanelSafety: the push of a request and the queue's loop go on (`_run_loop` and
`process_pending` catch what a retry raises); nothing is assumed about renewals,
imports, webhooks, the panel or the clock.
Faults are bounded, which is the assumption that not every attempt fails.

Each property of a passing run has a mutant in the module (a definition named
`X_...` right before `X`), a plausible slip in that piece of code which the run
then catches.

## 13. Proofs

Checked by TLAPS for every value of the constants, from each module's
`ConstantsAssumption` (`WheelAssumption`) only.

`BalanceProofs.tla` extends two modules, which therefore name their parts differently.
Of TabPay, for every number of payments, users, handlers and checks:

- `TypeCorrect`: `Spec => []TypeOK`, with balances never negative.
- `PaidExactlyWhenDeposited`: the safety invariant `PaidMeansDeposited`;
  `LockProtectsCredit`: what a crediting worker remembers is what the row holds
  (`LockedImageIsCurrent`, which no run checks by itself).
- `ImplementsLedger`: `Spec => LedgerSpec`, each step being a step of the ledger
  or a stutter.
- `WebhooksRespectFinal`: the action property `WebhooksKeepFinal`.

The invariants are not inductive: that a row becomes paid in the transaction
that makes its deposit depends on what the crediting worker remembers. `IInv`
adds `RowFacts` (a paid row belongs to a live payment the provider announced;
an unborn row has nothing), `JobFacts` (what a worker between two steps knows
still holds: its row exists, and in `credit` the image is that of the row, the
row unpaid, the payment live) and `Exclusive` (one crediting worker per row).
`JobStep`, `RowStep` and `CreditStep` prove preservation once for each shape of
step; `HookInv`, `CheckInv`, `FinalizeInv` and `NextInv` apply them action by
action. Refinement follows because only `FinalizeCommit` changes deposits, and
`JobFacts` gives the guard of the ledger's `Credit`. `WebhooksRespectFinal`
needs one invariant more, `HookCredit`: a webhook handler that is crediting
found a status that is not final.

Of Wheel, in the same module, for every number of tasks, payments by Stars, spins
and calls, and every limit and price: all that the run checks.

- `WheelTypeCorrect`: `WheelTypeOK`, no overdraft of balance or days. `LimitUnderLock`:
  `LimitUnlessApart`. `StarsWinOnce`: `OncePerCharge`.
- `ChargesFollowPrizes`: `ChargedForPrize`, from the library's facts about finite sets.

Its `WheelInv` adds to `WheelTypeOK` that a spin still to be paid for holds the lock and
can be paid (`Payable`), that as long as no lock was given away every running
spin holds it and has counted fewer than the limit (`UnderLock`), and that a
prize not pushed is on record (`Recognised`). `QuietStep` and `SettledStep` prove
preservation for two shapes of step, the other lemmas action by action. For
`ChargesFollowPrizes`, `AccountStep` shows that a step adds to the account what it
adds to the spins that owe a prize (`PendingMoves`), and each action is an
instance. That there are finitely many tasks is an assumption of the module.

`GraceProofs.tla`, for every number of tariffs, every length of a grace and of a
renewal, every set of acts in the panel and every bound: all that GraceSafety checks.

- `TypeCorrect`: `TypeOK`. `NoRenewalByOverlay`: `OverlayIsNoRenewal`.
- `OverlayIsCovered`: the action property `NothingLeftBehind`. `PaidIsServed`:
  `PaidAccessStays`. `DisableHasPriority`: `SuppressedNeverActivated`.

All of it rests on two things: who holds the advisory lock knows the session as it is
(`Locking`, `Working`; `Creating` for one that is not committed), and where dates of
overlays can be. `Known` says of a date in the panel or in a snapshot that it is the
marked one or belongs to an earlier grace, `Bought` of a date in billing that it is
earlier than the mark; both survive a new mark because two incidents are then
granted (`MarkMoves`). `Calm` (an account the panel expired carries no date of an
overlay to come) is needed so that a restore brings no overlay back (`Restored`).
`Going` says what `Stays` and `Untouched` found and the lock preserves: an account
that is not alive, unless extended in the panel, and an incident not suppressed.
`Closed`: a session about to be completed has no overlay running. A worker's steps are
instances of `WorkerStep`, through `Onward` (the session stays), `CallInv` (a panel
call, which may fail either way), `GotoInv` and `CommitInv`; everyone else's are of
`EnvStep`. `PanelMoves` and `SessionEnds` then leave few steps for the action properties.

Two of the properties had to be stated anew for this: in their first form they were
true of the run's two edits and, as a run with three edits and longer graces shows,
false in general (section 15, Grace, the last two behaviours).

`ReferralProofs.tla`, for every number of tasks and requests and every limit:

- `OneRequestIsOpen`: `OneOpenRequest`, one request at most waits for a decision
  (proved only, no run repeats it). `ChargesFollowApproval`: `ChargedIfApproved`.
- `FirstBonusOnce`: `BonusOnce`. `LimitOvershootBounded`: `LimitIsKept`.
- `NoOverdraft`: no decision, stale or not, overdraws the balance.
- `TypeCorrect`: `TypeOK`, with its bounds. `WithdrawnIsEarned`: `WithinEntitlement`.

Its `IInv` consists of `Types` (without the bounds of the run), `OnlyLastIsOpen`
(a pending request is the latest one: a new one is created only if that one is
decided), `ChargedIfApproved`, `BonusFacts` (as long as no overlap is noted, a
bonus paid or on its way needs the flag, and one task at most has it in hand)
and `LimitIsKept`, where a reward that starts counts fewer than the limit and
the others in progress are fewer than the tasks.
The last two theorems rest on a second invariant, `AInv`, inductive as long as
`IInv` holds. `Accounts` gives every top-up one bonus, one reward and one earning
at most, by counting the tasks that still have one to bring (`Starting`, `ToPay`,
`ToNote`, and the earnings credited and not noted), so that balance and credits
stay below `Most`. `Amounts` says that requests and what tasks saw were once in
the balance. `Entitled` is about sums over sets of requests: a sum is the size of a
set of units (`Units`), so the library's facts about finite sets give that it adds
over disjoint sets (`TotalAdds`), shrinks with the set (`TotalShrinks`) and is
the amount for one request (`TotalOfOne`). A request adds what is left at most
(`CreateEntitled`); a decision by a current image opens nothing (`DecisionAmounts`).

`ReceiptsProofs.tla`, for every number of payments, handlers and administrators
and every limit of attempts: all the run checks but the draining of the queue.

- `TypeCorrect`: `TypeOK`. `NoSecondReceipt`: `SecondNeedsDoubt`.
- `QueuedIsNotForgotten`: the action property `QueuedIsKept`.

That a payment has one receipt follows from its having one claim (`OneClaim`):
as long as no answer was lost, either one entry of the queue or one worker may
still lead to a request for it, and only while it has no receipt. Popping keeps
that because it is atomic, pushing because the worker that pushes gives its own
claim up. `ListedIsUnknown` keeps the administrators out of it (what they send
again is in doubt), `CreatedIsIssued` says what a created key stands for,
`AttemptsLeft` that a pass works on entries with an attempt left. `QuietClaims`,
`MovesOn` and `LetsGo` are the shapes of a step; the lemmas about `Append` and the
queue without its last entry come from the library's facts about sequences.

`AutopayProofs.tla`, for every number of subscriptions, cards and webhooks, and
every price, minimum and period: all the run checks but the final credit.

- `TypeCorrect`: `TypeOK`, no overdraft. `OneChargeADay`: `ChargedOnce`.
- `ImplementsLedger`: `Spec => LedgerSpec`.

`ChargedOnce` is a statement about the provider's payments; what makes it true is
that a day's payments use one card (`OneCard`), today's the card saved last
(`TodaysCard`), and that the pass which is charging will use the same
(`PassCard`), so that the day's idempotence key finds the payment that exists
(`Keys`). `Crediting`, one webhook per row and only for a success without deposit,
gives the refinement. `MaxIsMember`, that a finite set of numbers has a greatest
element, is proved by well-founded minimality on its subsets.

`GuestProofs.tla`, for every number of purchases, users and tasks, and every
limit of retries: all the run checks but the final settlement.

- `TypeCorrect`: `TypeOK`. `GiftHasOneRecipient`: `OneRecipient`.
  `NothingIsFree`: `GrantedIsPaidFor`. `GrantedOnce`: `OnceUnlessDoubt`.
- `DeliveryIsKept`: `Spec => ImplementsDelivery`.

A task writes the status long after it lost the row's lock, so its guard says
nothing of what it overwrites. `IInv` therefore holds, beside what the row says of
payment and owner (`RowFacts`), what a task may rely on with and without its lock
(`JobFacts`: the payment is there; the owner is nobody, or the user it works
for), that a locked row has one holder (`Locks`), that without doubt one task
grants and the count agrees with the status (`OnceFacts`), and that each wallet
gift left its price (`Money`). `RowStep`, `TaskStep` and `QuietStep` are the
shapes of a step; `StepMoves`, `RequestMoves`, `LoopMoves` and `OrderMoves` map
the steps to the promise.

`DailyProofs.tla`, for every price, balance and number of days, requests and
faults: all the run checks but the settlement of what is due.

- `TypeCorrect`: `TypeOK`. `OneChargeADay`: `DayIsPaidOnce`.

Even the type of the balance needs an argument, for a refund could make money:
`Wallet` says that every refund still to come has a charge of its own behind it,
counted by the cardinality of the set of tasks that may refund. `Today` is the
day's account while no task acted on an outdated row: charged for once, by one
task, before it is given, and a day given means service. `JobFacts` says what a
task was started for and that nobody has done it since. `PlainStep`, `ChargeStep`,
`GiveStep` and `ActStep` are the shapes of a step.

`PanelSyncProofs.tla`, for every number of requests, webhooks and readers, every
period and limit of retries:

- `TypeCorrect`: `TypeOK`. `PaidStays`: `PaidIsKept`.
- `PaidIsPushed`: `PushIsPending`, the safety half of `PaidReachesPanel` (no run
  repeats it): as long as none of the causes is met, what the panel does not
  show is in a push that carries it, or in the queue.

A reader writes what it decided on before; what matters is that what was paid for
lies ahead (`PaidAhead`), so that nothing due holds it (`DueIsOver`), that an
image which is not stale takes nothing away, and that the stamp of a renewal is
there as long as the synchronisation is said to see it (`SyncFacts`). For
`PushIsPending` the item the loop is working on counts only by what it carries:
`ArrivalTells` shows that a push which arrives without bringing the paid date was
overtaken, or that another is still to come, and `OthersPush` that it stays.

Only model-checked: the liveness properties (`PendingIsReconciled`, `SessionsEnd`,
`QueueDrains`, `PaidIsSettled`, `DueIsSettled`, `ChargedIsCredited`,
`PaidReachesPanel`), out of reach of the prover. Every invariant and every safety
property of a step that a passing run checks is a theorem.

## 14. What the violation runs show

- **PanelSwallowed**: a renewal the panel refuses is neither in the panel nor in
  the retry queue: `update_remnawave_user` swallows the error and answers None,
  at which `finalize` does not look. Only a timeout is queued.
- **DailyDisabled**: a subscription disabled by leaving the channel or by an
  administrator is taken by the loop for one suspended for want of money; it is
  revived and charged for a day already paid.

Each is quoted with the line that says otherwise in `PROJECT.json`, findings.

## 15. What else the models show

Behaviours the models contain and the properties therefore exempt by name where
they would forbid them.

- TabPay: a check that fetched SUCCESS credits a payment that became refunded or
  canceled before it got the lock (only `is_paid` is looked at again). After
  EXPIRED or FAILED, a SUCCESS lost with the process is never looked for.
- Grace: the closing date reaches the panel, a crash loses its marker, an import
  takes the date for a renewal, and a second grace is granted. An account
  extended in the panel during a grace makes the overlay's squad the tariff's
  own at the next import. An account found active without its overlay may be
  left active when the session is closed as a conflict. An account disabled in
  mid-grace may outlive that session; once a second grace has overwritten the mark,
  an administrator who enables it brings the first overlay back, and nobody takes it
  for one any more (`Running` is about the last mark). A worker that read billing
  before a change of tariff may still push it after that change's own push, until
  the push of the next change (`Overtaken`).
- Receipts: a request that times out after login is listed for verification and
  also put back into the queue, and so may be sent twice.
- Guest purchases: delivered without a grant if the panel fails (the flush is
  rolled back, the caller goes on); granted twice if a task breaks off between
  the grant's commit and DELIVERED, or if two tasks overlap after that commit.
- Referral: two administrators approve one request in the bot; the second goes
  by the image its session read before the lock, and the partner is charged
  twice (`BotOpens`, `BotDecides`; the cabinet reads under the lock). `NoOverdraft`
  holds even so.
- Recurrent payments: a day's subscription may be charged twice after a lost
  answer, after a refused call and a restart, or when the cards change; these
  are `ChargedOnce`'s exemptions. A declined card is an answer too: the search
  ends and the next card is not tried, though the comment at
  `recurrent_payment_service.py:314` speaks of trying cards until one works. A
  subscription expired for 2 to 48 hours is topped up for by card, but autopay,
  which looks back two hours, does not renew it. A crash between charge and
  extension loses the charge.
- Panel synchronisation: a renewal committed after the full synchronisation has
  loaded its rows is overwritten by the older snapshot (`SyncCommit`, `stale`).
  A webhook `user.expired` that comes late expires a renewed row, and the next
  push then disables the account, because an expired row with a date ahead is
  taken for a contradiction (`OnExpired`, `PatchStatus`). The middleware expires
  the row it has loaded without a condition (`VisitExpires`), where monitoring puts it
  into the UPDATE. A retry may bring to the panel what it read before a renewal,
  after that renewal's own push (`Overtaken`). Monitoring's import sets
  `updated_at` to the start of its transaction, which may be earlier than the
  stamp of a renewal it replaces; a synchronisation begun in between then takes
  its older snapshot for the truth (`MonitorImports` withdraws `renewed`). The swallowed None of section 14 is also
  behind the cabinet's purchase (`purchase.py:1169`) and autopay, which relies on
  the retry queue without putting anything there (`monitoring_service.py:1834`).
- Wheel: the limit is exceeded by spins that paid or won days or traffic, although
  the comment at `wheel_service.py:617-625` says that a second spin waits until the first
  is recorded, and by spins for Stars, whose count takes no lock. A spin
  from the balance that wins money is free. A spin by days whose push succeeds
  and which then fails keeps the days without a prize. Two messages about one
  payment by Stars win days twice, as the second's rollback comes after its prize
  was pushed, against the comment at `stars_payments.py:188-190`; and one may write days
  another has just paid. A refund leaves no record, so that a repeated message is
  refunded again.

## 16. What is not modelled

Of TabPay: guest purchases paid through it as seen from its row, deletion of a user, the
branch of a missing user that leaves a half-finished commit, exceptions that are
no database errors after the flush, unknown statuses of the API. An amount that
cannot be parsed is a `Fail`; an unknown status of a webhook changes nothing.

Of Grace: traffic-limit grace and traffic recovery, trial and daily
policies, observe mode, how far back candidates are looked for, deletion of the
panel user, the deletion guard, notifications, the import made by the panel's webhooks
(`PanelSync` has it without grace), pulls on e-mail login and on the administrator's request, a restore
whose GET and PATCH are interrupted by a panel edit. Callers that build a
payload before the lock are hazards without a property.

Of the others, what ends sections 6 to 11, and expiry of the receipts' Redis keys.

Other components: see the table of section 1 and PROJECT.json. Providers other than
TabPay and YooKassa repeat their skeleton; interface code keeps no state of its
own, and with forms, texts and route schemas makes up most of the source;
external clients and the panel appear as the environment. Their hazards are
listed in PROJECT.json and the plan orders them.
