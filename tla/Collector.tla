------------------------------ MODULE Collector ------------------------------
(***************************************************************************)
(* metrics.Collector, internal/metrics/collector.go, as far as relays and   *)
(* the /stats commands use it: the counters, and the deliveries of the last *)
(* days, of which only the newest are kept.  What is counted per address    *)
(* and per chat, the counters of texts and files and the latency histogram  *)
(* are left out.                                                            *)
(***************************************************************************)
EXTENDS Integers, Sequences, FiniteSets

CONSTANTS MaxStoredDeliveryEvents,   \* 50000
          ReportDays,                \* days the report is asked for
          MaxTime                    \* bound: the clock

ASSUME CollectorAssumption ==
    /\ MaxStoredDeliveryEvents \in Nat \ {0}
    /\ ReportDays \in Int
    /\ MaxTime \in Nat

VARIABLES counters,        \* name -> value
          deliveryEvents,  \* deliveries kept for the report, oldest first
          seen,            \* history: all deliveries, oldest first
          now              \* the wall clock

collectorVars == <<counters, deliveryEvents, seen>>

Counters == {"received", "relayed", "failed", "dlqEnqueued"}

CollectorInit ==
    /\ counters = [c \in Counters |-> 0]
    /\ deliveryEvents = <<>>
    /\ seen = <<>>
    /\ now = 0

\* One Inc call for each of the names.
Inc(names) == counters' = [c \in Counters |-> IF c \in names THEN counters[c] + 1 ELSE counters[c]]

\* Keeps what it has when it is full.
KeepOldest(events) ==
    SubSeq(events, 1, IF Len(events) > MaxStoredDeliveryEvents THEN MaxStoredDeliveryEvents ELSE Len(events))

\* At most so many, the newest ones.
Keep(events) ==
    SubSeq(events, IF Len(events) > MaxStoredDeliveryEvents THEN Len(events) - MaxStoredDeliveryEvents + 1 ELSE 1,
           Len(events))

\* A mail was brought to a chat, or was not.
ObserveDelivery(delivered) ==
    LET event == [at |-> now, delivered |-> delivered]
    IN  /\ deliveryEvents' = Keep(Append(deliveryEvents, event))
        /\ seen' = Append(seen, event)

\* The places of the deliveries with an outcome, and of the ones a report of the
\* last days counts.
Since == now - (IF ReportDays <= 0 THEN 7 ELSE ReportDays)
With(events, delivered) == {i \in DOMAIN events : events[i].delivered = delivered}
Recent(events) == {i \in DOMAIN events : events[i].at >= Since}

Count(events, delivered) == Cardinality(With(events, delivered))

Report(events) ==
    [total     |-> Cardinality(Recent(events)),
     delivered |-> Cardinality(Recent(events) \intersect With(events, TRUE)),
     failed    |-> Cardinality(Recent(events) \intersect With(events, FALSE))]

BuildLastDaysReport == Report(deliveryEvents)

\* A day passes.
Tick ==
    /\ now < MaxTime
    /\ now' = now + 1
-----------------------------------------------------------------------------
\* The report counts every delivery of its days, each once and with its outcome,
\* however many came before them, as long as the kept deliveries reach back beyond
\* those days or none had to be given up.
ReportExact ==
    (Recent(deliveryEvents) # DOMAIN deliveryEvents \/ Len(seen) <= MaxStoredDeliveryEvents)
        => BuildLastDaysReport = Report(seen)
=============================================================================
