------------------------- MODULE SubscriptionBilling -------------------------
(***************************************************************************)
(* SubscriptionEngine (src/zenic-v2/zenic-subscription): the subscription, *)
(* the trial, the usage limits and the payments of one tenant.  The engine *)
(* keeps each of them in a map of its own and every method takes &mut      *)
(* self, so a call is one action; the calls of the tenant, of the person   *)
(* who verifies payments and of the job that looks for expired trials come *)
(* in any order.  A call that is refused leaves everything as it was,      *)
(* except a refused confirmation.                                          *)
(*                                                                         *)
(* The sagas work on a context of their own, which the engine throws away: *)
(* what is left of them is their guards.                                   *)
(***************************************************************************)
EXTENDS Integers, FiniteSets

CONSTANTS
  Payments,       \* payments the tenant may create
  Limit,          \* a limit of each tier, such as max_actions_per_day
  TrialTicks,     \* TRIAL_DURATION_MS, in ticks
  MaxSignups      \* bound on signups

Tiers == 0..3     \* SubscriptionTierName, as its rank()
Business == 1

ASSUME LimitAssumption ==
  /\ Limit \in [Tiers -> Nat]
  /\ \A a, b \in Tiers : a <= b => Limit[a] <= Limit[b]
ASSUME TrialAssumption == TrialTicks \in Nat /\ MaxSignups \in Nat

VARIABLES
  blStatus,       \* subscription.status, "none" while there is none
  blTier,         \* subscription.tier
  blTrial,        \* trial.status
  blTrialLeft,    \* trial.expires_at_ms - now_ms
  blMeter,        \* the tier whose limits the usage records have
  blUsed,         \* actions of the day that were recorded
  blPayments,     \* UsdtPayment.status, "none" while it is not created
  blApplied,      \* history: the payments that made the subscription Active
  blLowered,      \* history: the tier went down since the last signup
  blSignups

blVars == <<blStatus, blTier, blTrial, blTrialLeft, blMeter, blUsed, blPayments,
            blApplied, blLowered, blSignups>>

PaymentStatuses == {"none", "pending_transfer", "pending_verification", "confirmed"}

BillingTypeOK ==
  /\ blStatus \in {"none", "trial", "active", "cancelled", "expired"}
  /\ blTier \in Tiers
  /\ blTrial \in {"none", "active", "converted", "expired"}
  /\ blTrialLeft \in 0..TrialTicks
  /\ blMeter \in Tiers
  /\ blUsed \in Nat
  /\ blPayments \in [Payments -> PaymentStatuses]
  /\ blApplied \subseteq Payments
  /\ blLowered \in BOOLEAN
  /\ blSignups \in 0..MaxSignups

BillingInit ==
  /\ blStatus = "none"
  /\ blTier = 0
  /\ blTrial = "none"
  /\ blTrialLeft = 0
  /\ blMeter = 0
  /\ blUsed = 0
  /\ blPayments = [p \in Payments |-> "none"]
  /\ blApplied = {}
  /\ blLowered = FALSE
  /\ blSignups = 0

(* has_access() *)
HasAccess == blStatus \in {"trial", "active"}

-----------------------------------------------------------------------------
(* Fault: a trial that was converted may be followed by another. *)
MayTryConverted == blTrial # "active"

(* create_trial: not after an active or a converted trial. *)
MayTry == blTrial \notin {"active", "converted"}

(* signup: the new subscription replaces the one there was. *)
Signup ==
  /\ MayTry
  /\ blSignups < MaxSignups
  /\ blSignups' = blSignups + 1
  /\ blTrial' = "active"
  /\ blTrialLeft' = TrialTicks
  /\ blStatus' = "trial"
  /\ blTier' = Business
  /\ blMeter' = Business
  /\ blUsed' = 0
  /\ blLowered' = FALSE
  /\ UNCHANGED <<blPayments, blApplied>>

(* create_payment: for a subscription of any status.  The payment carries   *)
(* an amount; the tier it was asked for is not kept. *)
CreatePayment(p) ==
  /\ blStatus # "none"
  /\ blPayments[p] = "none"
  /\ blPayments' = [blPayments EXCEPT ![p] = "pending_transfer"]
  /\ UNCHANGED <<blStatus, blTier, blTrial, blTrialLeft, blMeter, blUsed, blApplied,
                 blLowered, blSignups>>

(* submit_payment_tx, with a hash and a wallet that pass the validation. *)
SubmitPaymentTx(p) ==
  /\ blPayments[p] = "pending_transfer"
  /\ blPayments' = [blPayments EXCEPT ![p] = "pending_verification"]
  /\ UNCHANGED <<blStatus, blTier, blTrial, blTrialLeft, blMeter, blUsed, blApplied,
                 blLowered, blSignups>>

(* can_transition_to(Active), of the statuses the engine ever sets. *)
MayActivate == blStatus = "trial"

(* Fault: the limits stay those of the tier before. *)
LimitsAfterPaymentStale == blMeter

(* update_limits_for_tier, with the tier that was paid for. *)
LimitsAfterPayment == Business

(* confirm_payment: the payment is Confirmed first.  A subscription that is *)
(* not in its trial refuses the change to Active, and the call fails with   *)
(* the payment confirmed. *)
ConfirmPayment(p) ==
  /\ blPayments[p] = "pending_verification"
  /\ blPayments' = [blPayments EXCEPT ![p] = "confirmed"]
  /\ IF MayActivate
       THEN /\ blStatus' = "active"
            /\ blTier' = Business
            /\ blTrial' = "converted"
            /\ blMeter' = LimitsAfterPayment
            /\ blApplied' = blApplied \cup {p}
            /\ blLowered' = (blLowered \/ blTier > Business)
       ELSE UNCHANGED <<blStatus, blTier, blTrial, blMeter, blApplied, blLowered>>
  /\ UNCHANGED <<blTrialLeft, blUsed, blSignups>>

(* cancel_subscription: the trial is left as it is. *)
CancelSubscription ==
  /\ HasAccess
  /\ blStatus' = "cancelled"
  /\ UNCHANGED <<blTier, blTrial, blTrialLeft, blMeter, blUsed, blPayments, blApplied,
                 blLowered, blSignups>>

(* renew_subscription: moves the billing period, which nothing reads, and   *)
(* resets the daily counter. *)
RenewSubscription ==
  /\ HasAccess
  /\ blUsed' = 0
  /\ UNCHANGED <<blStatus, blTier, blTrial, blTrialLeft, blMeter, blPayments, blApplied,
                 blLowered, blSignups>>

(* upgrade_subscription *)
UpgradeSubscription(t) ==
  /\ HasAccess
  /\ t > blTier
  /\ blTier' = t
  /\ blMeter' = t
  /\ UNCHANGED <<blStatus, blTrial, blTrialLeft, blUsed, blPayments, blApplied, blLowered,
                 blSignups>>

(* record_usage of k actions, whatever the status. *)
RecordUsage(k) ==
  /\ blStatus # "none"
  /\ blUsed + k <= Limit[blMeter]
  /\ blUsed' = blUsed + k
  /\ UNCHANGED <<blStatus, blTier, blTrial, blTrialLeft, blMeter, blPayments, blApplied,
                 blLowered, blSignups>>

(* transition_to(Expired): legal only from Trial, the error is ignored. *)
Expired == IF blStatus = "trial" THEN "expired" ELSE blStatus

(* check_trial_expirations *)
CheckTrialExpirations ==
  /\ blTrial = "active" /\ blTrialLeft = 0
  /\ blTrial' = "expired"
  /\ blStatus' = Expired
  /\ UNCHANGED <<blTier, blTrialLeft, blMeter, blUsed, blPayments, blApplied, blLowered,
                 blSignups>>

TimePasses ==
  /\ blTrialLeft > 0
  /\ blTrialLeft' = blTrialLeft - 1
  /\ UNCHANGED <<blStatus, blTier, blTrial, blMeter, blUsed, blPayments, blApplied,
                 blLowered, blSignups>>

BillingNext ==
  \/ Signup \/ CancelSubscription \/ RenewSubscription
  \/ \E p \in Payments : CreatePayment(p) \/ SubmitPaymentTx(p) \/ ConfirmPayment(p)
  \/ \E t \in Tiers : UpgradeSubscription(t)
  \/ RecordUsage(1)
  \/ CheckTrialExpirations \/ TimePasses

BillingSpec == BillingInit /\ [][BillingNext]_blVars

-----------------------------------------------------------------------------
(* Properties *)

(* The maps agree: a subscription in its trial has an active trial, an      *)
(* active subscription a converted one.                                     *)
TrialAgrees ==
  /\ blStatus = "trial" => blTrial = "active"
  /\ blStatus = "active" => blTrial = "converted"

(* At most one payment is ever applied to a tenant, and no subscription is  *)
(* active or was converted without one.                                     *)
PaidOnce ==
  /\ Cardinality(blApplied) <= 1
  /\ blTrial = "converted" <=> blApplied # {}
  /\ \A p \in blApplied : blPayments[p] = "confirmed"

(* The usage records have the limits of the subscription's tier, and the    *)
(* usage is within them unless a payment has lowered the tier.              *)
LimitsFollowTier ==
  blStatus # "none" =>
    /\ blMeter = blTier
    /\ ~blLowered => blUsed <= Limit[blTier]

(* What the four maps of the engine say of a tenant fits together after     *)
(* any sequence of calls.                                                   *)
BillingConsistent == TrialAgrees /\ PaidOnce /\ LimitsFollowTier

(* Access that was lost comes back in one way only, with a new trial of a   *)
(* tenant who never paid: no late confirmation, renewal or upgrade revives  *)
(* a cancelled or expired subscription, and a tenant who paid and cancelled *)
(* stays out for ever.                                                      *)
AccessRegained ==
  [][~HasAccess /\ HasAccess' => blApplied = {} /\ blTrial' = "active"]_blVars
=============================================================================
