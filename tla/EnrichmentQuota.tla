--------------------------- MODULE EnrichmentQuota ---------------------------
(***************************************************************************)
(* The monthly HandyAPI quota: a counter per calendar month in PostgreSQL, *)
(* reserved from with one statement before every request, by the lookup    *)
(* goroutines of all the instances.  Between computing the period and the  *)
(* reservation, and between the reservation and the request, anything may  *)
(* happen: other callers, the turn of the month, a crash.                  *)
(***************************************************************************)
EXTENDS Integers, FiniteSets

CONSTANTS
    Callers,    \* goroutines inside lookupEnrichment, over all instances
    Limit,      \* HANDY_API_MONTHLY_LIMIT, or the default New gives it
    LastMonth   \* bound: the months of a behaviour are 0 .. LastMonth

ASSUME QuotaAssumption ==
    /\ IsFiniteSet(Callers)
    /\ Limit \in Nat \ {0}
    /\ LastMonth \in Nat

Months == 0 .. LastMonth
Stages == {"idle", "reserve", "allowed"}

VARIABLES
    month,    \* the current UTC month
    usage,    \* usage[m]: request_count of the row for m, 0 without a row
    stage,    \* stage[c]: what caller c is about to do
    period,   \* period[c]: the month c computed
    sentFor,  \* history: requests sent on a reservation for each month
    sentIn    \* history: requests sent during each month

vars == <<month, usage, stage, period, sentFor, sentIn>>

Init ==
    /\ month = 0
    /\ usage = [m \in Months |-> 0]
    /\ stage = [c \in Callers |-> "idle"]
    /\ period = [c \in Callers |-> 0]
    /\ sentFor = [m \in Months |-> 0]
    /\ sentIn = [m \in Months |-> 0]

Move(c, s) == stage' = [stage EXCEPT ![c] = s]

BeginMonthEarly(c) ==
    /\ stage[c] = "idle"
    /\ Move(c, "reserve")
    /\ period' = [period EXCEPT ![c] = month - 1]
    /\ UNCHANGED <<month, usage, sentFor, sentIn>>

\* periodStart := startOfUTCMonth(time.Now())
Begin(c) ==
    /\ stage[c] = "idle"
    /\ Move(c, "reserve")
    /\ period' = [period EXCEPT ![c] = month]
    /\ UNCHANGED <<month, usage, sentFor, sentIn>>

(***************************************************************************)
(* INSERT ... ON CONFLICT DO UPDATE ... WHERE request_count < limit        *)
(* RETURNING: one row lock, so the test and the increment are one step.    *)
(***************************************************************************)
HasRoomOffByOne(m) == usage[m] <= Limit
HasRoom(m) == usage[m] < Limit

Consume(m) == usage' = [usage EXCEPT ![m] = @ + 1]

Reserve(c) ==
    /\ stage[c] = "reserve"
    /\ HasRoom(period[c])
    /\ Consume(period[c])
    /\ Move(c, "allowed")
    /\ UNCHANGED <<month, period, sentFor, sentIn>>

Denied(c) ==
    /\ stage[c] = "reserve"
    /\ ~HasRoom(period[c])
    /\ Move(c, "idle")
    /\ UNCHANGED <<month, usage, period, sentFor, sentIn>>

\* The statement fails, before or after PostgreSQL applied it.
FailedOpen(c) ==
    /\ stage[c] = "reserve"
    /\ UNCHANGED usage
    /\ Move(c, "allowed")
    /\ UNCHANGED <<month, period, sentFor, sentIn>>

ReserveFails(c) ==
    /\ stage[c] = "reserve"
    /\ \/ UNCHANGED usage
       \/ HasRoom(period[c]) /\ Consume(period[c])
    /\ Move(c, "idle")
    /\ UNCHANGED <<month, period, sentFor, sentIn>>

\* handyapi.Client.Lookup lets the request out ...
Send(c) ==
    /\ stage[c] = "allowed"
    /\ sentFor' = [sentFor EXCEPT ![period[c]] = @ + 1]
    /\ sentIn' = [sentIn EXCEPT ![month] = @ + 1]
    /\ Move(c, "idle")
    /\ UNCHANGED <<month, usage, period>>

\* ... or refuses it: circuit open, limiter empty, context cancelled.  The
\* reservation is not returned.
Refuse(c) ==
    /\ stage[c] = "allowed"
    /\ Move(c, "idle")
    /\ UNCHANGED <<month, usage, period, sentFor, sentIn>>

\* The instance of the caller dies.
Crash(c) ==
    /\ stage[c] # "idle"
    /\ Move(c, "idle")
    /\ UNCHANGED <<month, usage, period, sentFor, sentIn>>

NextMonth ==
    /\ month < LastMonth
    /\ month' = month + 1
    /\ UNCHANGED <<usage, stage, period, sentFor, sentIn>>

CallerStep(c) ==
    \/ Begin(c) \/ Reserve(c) \/ Denied(c) \/ ReserveFails(c)
    \/ Send(c) \/ Refuse(c) \/ Crash(c)

Next == (\E c \in Callers : CallerStep(c)) \/ NextMonth

Spec == Init /\ [][Next]_vars

-----------------------------------------------------------------------------
\* Every variable has its type.
TypeOK ==
    /\ month \in Months
    /\ usage \in [Months -> Nat]
    /\ stage \in [Callers -> Stages]
    /\ period \in [Callers -> Months]
    /\ sentFor \in [Months -> Nat]
    /\ sentIn \in [Months -> Nat]

\* The callers that hold an unused reservation for a month.
Holding(m) == {c \in Callers : stage[c] = "allowed" /\ period[c] = m}

\* Every request sent and every request still allowed is covered by the
\* counter, whatever instance sent it and whatever crashed since, and the
\* counter never passes the limit.
ReservedBeforeSent ==
    \A m \in Months :
        /\ sentFor[m] + Cardinality(Holding(m)) <= usage[m]
        /\ usage[m] <= Limit

\* A month sees at most the limit and, from callers that crossed its start,
\* one request each.
OvershootBounded == \A m \in Months : sentIn[m] <= Limit + Cardinality(Callers)

\* README: HANDY_API_MONTHLY_LIMIT is the shared limit per month.  So no
\* calendar month sees more requests than that.
MonthlyCap == \A m \in Months : sentIn[m] <= Limit
=============================================================================
