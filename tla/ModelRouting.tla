----------------------------- MODULE ModelRouting -----------------------------
(***************************************************************************)
(* Which tier of model a host may call for a task, and what he may record  *)
(* of the call (domain/model_routing.py, ProviderRecord in                 *)
(* domain/records.py).  A tier is its rank, deterministic 0 to frontier 3. *)
(* The host counts his frontier calls himself.                             *)
(***************************************************************************)
EXTENDS Integers, FiniteSets

CONSTANTS
  BaseTiers,         \* task -> tier
  Mandatory,         \* _MANDATORY_FRONTIER_REASONS
  OtherReasons,
  Budgets, MostCalls,   \* frontier_calls_remaining at first; a bound on calls
  Unlimited

ASSUME RoutingConstants ==
  /\ BaseTiers \in [DOMAIN BaseTiers -> 0..3]
  /\ Budgets \subseteq Nat \cup {Unlimited} /\ Unlimited \notin Nat

VARIABLES
  remaining,   \* frontier_calls_remaining
  budget,      \* what it was at first
  calls        \* the records of the calls, numbered

routingVars == <<remaining, budget, calls>>
Frontier == 3

NextTier(tier) == IF tier = Frontier THEN tier ELSE tier + 1
RequiredTier(base, reasons) ==
  IF base = 0 \/ reasons = {} THEN base
  ELSE IF reasons \cap Mandatory # {} THEN Frontier
  ELSE NextTier(base)

(* route_model_task, for a request that its validator lets through.        *)
ValidRequest(r) == BaseTiers[r.task] = 0 => r.reasons = {}
BadRoute(r) ==   \* the budget is not looked at
  LET required == RequiredTier(BaseTiers[r.task], r.reasons) IN
  [task |-> r.task, base |-> BaseTiers[r.task], required |-> required,
   selected |-> IF required > r.maximum THEN {} ELSE {required}]
Route(r) ==
  LET required == RequiredTier(BaseTiers[r.task], r.reasons)
      blocked == required > r.maximum \/ (required = Frontier /\ r.remaining = 0)
  IN [task |-> r.task, base |-> BaseTiers[r.task], required |-> required,
      selected |-> IF blocked THEN {} ELSE {required}]

(* The validator of a ProviderRecord with routing metadata: neither the    *)
(* limits of the request nor the decision it names are looked at again.    *)
ValidRecord(p) ==
  /\ BaseTiers[p.task] # 0 /\ p.base = BaseTiers[p.task]
  /\ p.selected >= p.base
  /\ p.selected > p.base => p.reasons # {}
  /\ p.selected = Route([task |-> p.task, reasons |-> p.reasons, maximum |-> Frontier,
                         remaining |-> Unlimited]).required

-----------------------------------------------------------------------------
RoutingInit == budget \in Budgets /\ remaining = budget /\ calls = {}

(* A host routes a task, calls the model he is given and records the call. *)
CallModel(task, reasons, maximum) ==
  LET request == [task |-> task, reasons |-> reasons, maximum |-> maximum,
                  remaining |-> remaining] IN
  /\ ValidRequest(request) /\ Cardinality(calls) < MostCalls
  /\ \E tier \in Route(request).selected \ {0} :
       /\ calls' = calls \cup {[n |-> Cardinality(calls), task |-> task, reasons |-> reasons,
                                maximum |-> maximum, base |-> BaseTiers[task], selected |-> tier]}
       /\ remaining' = IF tier = Frontier /\ remaining # Unlimited THEN remaining - 1
                       ELSE remaining
  /\ UNCHANGED budget

RoutingNext ==
  \E task \in DOMAIN BaseTiers, reasons \in SUBSET (Mandatory \cup OtherReasons), maximum \in 0..Frontier :
    CallModel(task, reasons, maximum)
-----------------------------------------------------------------------------
(* A host that counts his frontier calls never makes more of them than his *)
(* budget, nor any call above the limit he gave; each call that he is      *)
(* given can be recorded; and for one task, more reasons never led to a    *)
(* lesser model.                                                           *)
CallsKeepTheLimits ==
  /\ budget # Unlimited => Cardinality({c \in calls : c.selected = Frontier}) <= budget
  /\ \A c \in calls : c.selected <= c.maximum /\ ValidRecord(c)
  /\ \A c, d \in calls : c.task = d.task /\ c.reasons \subseteq d.reasons => c.selected <= d.selected
=============================================================================
