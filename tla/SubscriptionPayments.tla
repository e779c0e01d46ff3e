------------------------ MODULE SubscriptionPayments ------------------------
(***************************************************************************)
(* Payments for subscriptions (payments/service.ts) on top of              *)
(* SubscriptionLifecycle.  A user asks for a payment intent; the server    *)
(* writes a row, calls the payment adapter outside of any transaction and  *)
(* then saves what the adapter answered.  The provider reports what became *)
(* of the payment in signed events, which arrive at any time, in any order *)
(* and more than once, and which are the only way to a paid period.        *)
(*                                                                         *)
(* The provider is external: it is modelled by the events the server       *)
(* accepts.  An event is its intent and its type, so a second event of the *)
(* same type for one intent is the repetition of the first.                *)
(***************************************************************************)
EXTENDS SubscriptionLifecycle

CONSTANTS
  Intents,   \* bound: the subscription_payment_intents there can be
  Reported   \* bound: the types of event the provider comes to send

VARIABLES
  intents,   \* subscription_payment_intents: the rows
  call,      \* where the call that made the row is
  provider,  \* what the provider knows of the intent
  sent,      \* the events of the provider, as <<intent, type>>
  received,  \* payment_webhook_events, with their processing_status
  adjusted   \* subscription_payment_adjustments, as <<intent, type>>

payVars == <<intents, call, provider, sent, received, adjusted>>
vars    == <<subVars, payVars>>

Live     == {"creating", "requires_action", "succeeded"}
Adjusted == {"refunded", "reversed"}
Types    == {"succeeded", "failed", "cancelled"} \cup Adjusted

ASSUME PaymentAssumption == Reported \subseteq Types

Intent ==
  [user : Users, version : Priced, sub : Subs \cup {None}, renewal : BOOLEAN,
   expected : Nat, number : Nat, saved : BOOLEAN,   \* external_intent_id is set
   status : Live \cup {"failed", "cancelled"} \cup Adjusted]

ASSUME NoneIsNoIntent == None \notin Intent

Made(i) == intents[i] # None

PayInit ==
  /\ Init
  /\ intents = [i \in Intents |-> None]
  /\ call = [i \in Intents |-> "none"]
  /\ provider = [i \in Intents |-> "none"]
  /\ sent = {} /\ received = {} /\ adjusted = {}

-----------------------------------------------------------------------------
(* Making an intent.                                                       *)

NewIntent(i, u, v, s, expected, number) ==
  /\ ~Made(i)
  /\ v \in Priced
  /\ intents' = [intents EXCEPT ![i] =
       [user |-> u, version |-> v, sub |-> s, renewal |-> s # None,
        expected |-> expected, number |-> number, saved |-> FALSE,
        status |-> "creating"]]
  /\ call' = [call EXCEPT ![i] = "open"]
  /\ UNCHANGED <<provider, sent, received, adjusted>>

\* A user without a callable subscription pays for the first period of one.
AskActivation(i, u, v) ==
  /\ CallableOf(u) = {}
  /\ NewIntent(i, u, v, None, 0, 0)
  /\ UNCHANGED subVars

LiveRenewalMutant(s) ==                                  \* only a pending one counts
  \E i \in Intents :
    /\ Made(i) /\ intents[i].renewal /\ intents[i].sub = s
    /\ intents[i].number = subs[s].number /\ intents[i].status = "requires_action"
LiveRenewal(s) ==
  \E i \in Intents :
    /\ Made(i) /\ intents[i].renewal /\ intents[i].sub = s
    /\ intents[i].number = subs[s].number /\ intents[i].status \in Live

\* A user whose period is over pays for the next one; if the worker has not been
\* there yet, the row is put to past_due in the same transaction.  A payment that
\* is under way for that period is given back instead of a new one.
AskRenewal(i, u, s) ==
  /\ s \in CallableOf(u) /\ Free(s) /\ Due(subs[s], now)
  /\ \/ /\ subs[s].status \in {"trial", "active"}
        /\ Advanced(subs[s], now).status = "past_due"
        /\ Advance(s, now, <<"payment-period", s, subs[s].number + 1>>)
        /\ UNCHANGED <<now, clientVars, runs, held>>
     \/ subs[s].status = "past_due" /\ UNCHANGED subVars
  /\ IF LiveRenewal(s) THEN UNCHANGED payVars
     ELSE NewIntent(i, u, Target(subs[s]), s, subs'[s].ver, subs[s].number)

\* The adapter has made the intent at the provider.
AdapterAnswers(i) ==
  /\ call[i] = "open"
  /\ call' = [call EXCEPT ![i] = "answered"]
  /\ provider' = [provider EXCEPT ![i] = "open"]
  /\ UNCHANGED <<subVars, intents, sent, received, adjusted>>

\* The row as it was may have been changed by now.
SaveAnswer(i) ==
  /\ call[i] = "answered"
  /\ call' = [call EXCEPT ![i] = "none"]
  /\ intents' = IF intents[i].status # "creating" THEN intents
                ELSE [intents EXCEPT ![i].saved = TRUE, ![i].status = "requires_action"]
  /\ UNCHANGED <<subVars, provider, sent, received, adjusted>>

\* The adapter or the second transaction fails.
CallFails(i) ==
  /\ call[i] \in {"open", "answered"}
  /\ call' = [call EXCEPT ![i] = "none"]
  /\ intents' = IF intents[i].status # "creating" THEN intents
                ELSE [intents EXCEPT ![i].status = "failed"]
  /\ UNCHANGED <<subVars, provider, sent, received, adjusted>>

\* The server stops between its two transactions.
Crash(i) ==
  /\ call[i] \in {"open", "answered"}
  /\ call' = [call EXCEPT ![i] = "none"]
  /\ UNCHANGED <<subVars, intents, provider, sent, received, adjusted>>

-----------------------------------------------------------------------------
(* The provider: attempts may fail before one succeeds; what is paid may be *)
(* paid back.                                                              *)

Report(i, type, from, to) ==
  /\ provider[i] = from
  /\ type \in Reported /\ <<i, type>> \notin sent
  /\ provider' = [provider EXCEPT ![i] = to]
  /\ sent' = sent \cup {<<i, type>>}
  /\ UNCHANGED <<subVars, intents, call, received, adjusted>>

Provider(i) ==
  \/ Report(i, "succeeded", "open", "paid")
  \/ Report(i, "failed", "open", "open")
  \/ Report(i, "cancelled", "open", "closed")
  \/ \E type \in Adjusted : Report(i, type, "paid", "closed")

-----------------------------------------------------------------------------
(* processPaymentWebhook: one transaction, which is undone when it throws.  *)

Arrived(i, type) ==
  /\ <<i, type>> \in sent
  /\ \A e \in received : <<e.intent, e.type>> # <<i, type>>

Receive(i, type, status) ==
  received' = received \cup {[intent |-> i, type |-> type, status |-> status]}

Settle(i, status) == intents' = [intents EXCEPT ![i].status = status]

\* No row has the external id of the event: the event is put away for good.
WebhookUnknown(i, type) ==
  /\ Arrived(i, type) /\ ~intents[i].saved
  /\ Receive(i, type, "rejected")
  /\ UNCHANGED <<subVars, intents, call, provider, sent, adjusted>>

PaymentKey(i, type) == <<"payment", i, type, "subscription">>

\* The key of a user's command is a hash; the key of an administrator's is taken as
\* it comes, and nobody makes up one in the form of a payment's.
ASSUME KeyAssumption == \A i \in Intents, type \in Types : PaymentKey(i, type) \notin Keys

RenewPaidMutant(i) ==                                    \* the period is left to the worker
  Settle(i, "succeeded") /\ UNCHANGED <<subs, allowances, events>>

\* The paid period, for which the row must be as it was when the intent was made.
RenewPaid(i) ==
  LET p == intents[i]
  IN /\ Transition(p.sub, "renew", None, p.expected, PaymentKey(i, "succeeded"), "payment_adapter")
     /\ Settle(i, "succeeded")

ActivatePaidMutant(i, s) ==                              \* which one is not written down
  LET p == intents[i]
  IN /\ Activate(s, p.user, p.version, FALSE, now, PaymentKey(i, "succeeded"), "payment_adapter")
     /\ Settle(i, "succeeded")
ActivatePaid(i, s) ==
  LET p == intents[i]
  IN /\ Activate(s, p.user, p.version, FALSE, now, PaymentKey(i, "succeeded"), "payment_adapter")
     /\ intents' = [intents EXCEPT ![i].status = "succeeded", ![i].sub = s]

WebhookSucceeded(i) ==
  /\ Arrived(i, "succeeded") /\ intents[i].saved
  /\ intents[i].status \in {"creating", "requires_action"}
  /\ IF intents[i].renewal THEN RenewPaid(i)
     ELSE \E s \in Subs : ActivatePaid(i, s)
  /\ Receive(i, "succeeded", "processed")
  /\ UNCHANGED <<now, clientVars, runs, held, call, provider, sent, adjusted>>

WebhookFailed(i, type) ==
  /\ type \in {"failed", "cancelled"}
  /\ Arrived(i, type) /\ intents[i].saved
  /\ IF intents[i].status = "succeeded" THEN UNCHANGED intents
     ELSE Settle(i, type)
  /\ Receive(i, type, "processed")
  /\ UNCHANGED <<subVars, call, provider, sent, adjusted>>

\* revokeSubscriptionForAdjustment; the plan change that is pending stays.
Revoked(r) == [r EXCEPT !.status = "cancelled", !.renewal = FALSE, !.ver = @ + 1]

Revoke(i, type) ==
  LET s == intents[i].sub
  IN /\ Free(s)
     /\ IF subs[s].status = "cancelled" THEN UNCHANGED subs
        ELSE /\ TriggerAccepts(subs[s], Revoked(subs[s]))
             /\ subs' = [subs EXCEPT ![s] = Revoked(@)]
     /\ events' = events \cup
          {Event(PaymentKey(i, type), s, "payment_adapter", subs[s].number, FALSE)}

WebhookAdjusted(i, type) ==
  /\ type \in Adjusted
  /\ Arrived(i, type) /\ intents[i].saved
  /\ intents[i].sub # None /\ intents[i].status \in {"succeeded"} \cup Adjusted
  /\ Revoke(i, type)
  /\ adjusted' = adjusted \cup {<<i, type>>}
  /\ Settle(i, type)
  /\ Receive(i, type, "processed")
  /\ UNCHANGED <<now, allowances, clientVars, runs, held, call, provider, sent>>

-----------------------------------------------------------------------------
Ask(i) ==
  \E u \in Users :
    \/ \E v \in Versions : AskActivation(i, u, v)
    \/ \E s \in Subs : AskRenewal(i, u, s)

Webhook(i) ==
  \/ \E type \in Types :
       WebhookUnknown(i, type) \/ WebhookFailed(i, type) \/ WebhookAdjusted(i, type)
  \/ WebhookSucceeded(i)

PayNext ==
  \/ SubscriptionNext /\ UNCHANGED payVars
  \/ \E i \in Intents :
       \/ Ask(i) \/ AdapterAnswers(i) \/ SaveAnswer(i) \/ CallFails(i) \/ Crash(i)
       \/ Provider(i) \/ Webhook(i)

PaySpec == PayInit /\ [][PayNext]_vars

-----------------------------------------------------------------------------
\* Intents and events have the shape the schema gives them: what renews or has
\* been paid names its subscription.
PayTypeOK ==
  /\ TypeOK
  /\ intents \in [Intents -> Intent \cup {None}]
  /\ \A i \in Intents :
       Made(i) /\ (intents[i].renewal \/ intents[i].status \in {"succeeded"} \cup Adjusted)
         => intents[i].sub # None
  /\ call \in [Intents -> {"none", "open", "answered"}]
  /\ provider \in [Intents -> {"none", "open", "paid", "closed"}]
  /\ sent \subseteq Intents \X Types /\ adjusted \subseteq sent
  /\ \A e \in received :
       <<e.intent, e.type>> \in sent /\ e.status \in {"processed", "rejected"}

Taken(i, type) == [intent |-> i, type |-> type, status |-> "processed"] \in received

\* A payment that was taken gives one allowance, to the user and for the version
\* that were paid for, and no allowance comes from a payment that was not taken.
PaymentsGrantOnce ==
  /\ \A i \in Intents :
       Taken(i, "succeeded") =>
         \E e \in events :
           /\ e.key = PaymentKey(i, "succeeded") /\ e.grants /\ e.sub = intents[i].sub
           /\ subs[e.sub].user = intents[i].user
           /\ [sub |-> e.sub, number |-> e.number, version |-> intents[i].version]
                \in allowances
  /\ \A e \in events :
       e.actor = "payment_adapter" /\ e.grants =>
         \E i \in Intents : Taken(i, "succeeded") /\ e.key = PaymentKey(i, "succeeded")

\* Whatever was paid back belongs to a subscription that has ended.
RefundedHasEnded ==
  \A a \in adjusted : subs[intents[a[1]].sub].status = "cancelled"

\* For one period of a subscription there is at most one payment under way or taken.
OneLiveRenewal ==
  \A i, j \in Intents :
    /\ i # j /\ Made(i) /\ Made(j)
    /\ intents[i].renewal /\ intents[j].renewal
    /\ <<intents[i].sub, intents[i].number>> = <<intents[j].sub, intents[j].number>>
    => ~(intents[i].status \in Live /\ intents[j].status \in Live)

\* What is paid and what is given agree: one allowance for each payment that was
\* taken, one payment for each period, and what was paid back has ended.
PaidIsGiven ==
  /\ PayTypeOK
  /\ PaymentsGrantOnce
  /\ OneLiveRenewal
  /\ RefundedHasEnded

\* A renewal payment moves its subscription out of the period it was made for, and
\* out of no other, however late it is reported.
PaymentRenewsItsPeriod ==
  [][\A i \in Intents :
       /\ Made(i) /\ intents[i].renewal
       /\ intents'[i].status = "succeeded" /\ intents[i].status # "succeeded"
       => LET s == intents[i].sub
          IN /\ subs[s].status = "past_due" /\ subs[s].number = intents[i].number
             /\ subs'[s].version = intents[i].version]_vars

(* What the repository says and the code does not do.                      *)

\* "Refunded and reversed are shown as final states."
RefundedIsFinal ==
  [][\A i \in Intents :
       Made(i) /\ intents[i].status \in Adjusted => intents'[i].status \in Adjusted]_vars

\* A refund writes its adjustment and takes the subscription away: the database
\* lets every subscription that was paid for be revoked.
PaidCanBeRevoked ==
  \A i \in Intents :
    Made(i) /\ intents[i].status = "succeeded" =>
      LET r == subs[intents[i].sub]
      IN r.status = "cancelled" \/ TriggerAccepts(r, Revoked(r))

\* A verified success is stored together with the subscription it pays for.
SuccessIsServed ==
  \A e \in received : e.type = "succeeded" => e.status = "processed"
=============================================================================
