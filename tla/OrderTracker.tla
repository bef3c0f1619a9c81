--------------------------- MODULE OrderTracker ---------------------------
(***************************************************************************)
(* order_tracker.py: orders followed from submission to their end by the    *)
(* events of the event engine, and kept on disk.                           *)
(*                                                                         *)
(* The exchange's side of an order (market) and the queue of its events are *)
(* external: an order is filled one unit at a time, each fill queues an     *)
(* order event (with the volume traded so far) and a trade event, and it    *)
(* may be cancelled or rejected.  One event thread handles the queue while  *)
(* the engine's thread is still between send_order and track_order.        *)
(***************************************************************************)
EXTENDS Integers, Sequences, FiniteSets

CONSTANTS Orders, Volume, MaxRecoveries

TrackerAssumption == Volume \in Nat \ {0} /\ MaxRecoveries \in Nat

VARIABLES market,      \* per order: its status at the exchange and the volume traded
          events,      \* events on their way to the tracker, oldest first
          tracked,     \* active_orders and completed_orders together
          active,      \* the keys of active_orders
          known,       \* the keys of vt_to_order
          disk,        \* the files of the persistence directory
          sending,     \* how far the engine's thread is with an order: no, sent, tracked
          handlers,    \* are the event handlers registered?
          recoveries   \* restarts so far

trackerVars == <<market, events, tracked, active, known, disk, sending, handlers, recoveries>>

Open == {"submitted", "not_traded", "partTradedNotQueueing"}
Final == {"filled", "cancelled", "rejected"}
\* What the exchange calls the statuses; "filled" is written allTraded there.
Statuses == Open \cup Final
\* The statuses that cancel_order and _load_from_disk take for an order in flight.
InFlight == {"submitted", "partially_filled", "not_traded"}

Unsent == [status |-> "unsent", traded |-> 0]
None == [status |-> "none", filled |-> 0, trades |-> 0]
Record == [status : Statuses, filled : 0..(2 * Volume), trades : 0..Volume]

TrackerTypeOK ==
    /\ market \in [Orders -> [status : Statuses \cup {"unsent"}, traded : 0..Volume]]
    /\ tracked \in [Orders -> Record \cup {None}] /\ disk \in [Orders -> Record \cup {None}]
    /\ active \in SUBSET Orders /\ known \in SUBSET Orders
    /\ \A o \in active : tracked[o] # None
    /\ sending \in [Orders -> {"no", "sent", "tracked"}]
    /\ handlers \in BOOLEAN /\ recoveries \in 0..MaxRecoveries

TrackerInit ==
    /\ market = [o \in Orders |-> Unsent] /\ events = <<>>
    /\ tracked = [o \in Orders |-> None] /\ active = {} /\ known = {}
    /\ disk = [o \in Orders |-> None] /\ handlers = FALSE /\ recoveries = 0
    /\ sending = [o \in Orders |-> "no"]

-----------------------------------------------------------------------------
\* register_event_handlers, once per tracker (TradingEngine.start).
RegisterEventHandlers ==
    /\ ~handlers /\ handlers' = TRUE
    /\ UNCHANGED <<market, events, tracked, active, known, disk, sending, recoveries>>

\* send_order reaches the exchange; track_order comes after it.
Send(o) ==
    /\ handlers /\ market[o] = Unsent
    /\ market' = [market EXCEPT ![o].status = "submitted"]
    /\ sending' = [sending EXCEPT ![o] = "sent"]
    /\ UNCHANGED <<events, tracked, active, known, disk, handlers, recoveries>>

Submitted == [status |-> "submitted", filled |-> 0, trades |-> 0]

\* track_order, and the _persist_order that the engine calls after it.
TrackOrder(o) ==
    /\ sending[o] = "sent"
    /\ sending' = [sending EXCEPT ![o] = "tracked"]
    /\ tracked' = [tracked EXCEPT ![o] = Submitted]
    /\ active' = active \cup {o} /\ known' = known \cup {o}
    /\ UNCHANGED <<market, events, disk, handlers, recoveries>>

PersistOrder(o) ==
    /\ sending[o] = "tracked"
    /\ sending' = [sending EXCEPT ![o] = "no"]
    /\ disk' = [disk EXCEPT ![o] = Submitted]
    /\ UNCHANGED <<market, events, tracked, active, known, handlers, recoveries>>

-----------------------------------------------------------------------------
\* The exchange (external).
OrderEvent(o, status, traded) == [order |-> o, kind |-> "order", status |-> status, traded |-> traded]
TradeEvent(o, status, traded) == [order |-> o, kind |-> "trade", status |-> status, traded |-> traded]

Acknowledge(o) ==
    /\ market[o].status = "submitted"
    /\ market' = [market EXCEPT ![o].status = "not_traded"]
    /\ events' = Append(events, OrderEvent(o, "not_traded", 0))
    /\ UNCHANGED <<tracked, active, known, disk, sending, handlers, recoveries>>

Fill(o) ==
    /\ market[o].status \in {"not_traded", "partTradedNotQueueing"}
    /\ LET traded == market[o].traded + 1
           status == IF traded = Volume THEN "filled" ELSE "partTradedNotQueueing"
       IN  /\ market' = [market EXCEPT ![o] = [status |-> status, traded |-> traded]]
           /\ events' = events \o <<OrderEvent(o, status, traded), TradeEvent(o, status, 1)>>
    /\ UNCHANGED <<tracked, active, known, disk, sending, handlers, recoveries>>

End(o, status) ==
    /\ market[o].status \in Open
    /\ market' = [market EXCEPT ![o].status = status]
    /\ events' = Append(events, OrderEvent(o, status, market[o].traded))
    /\ UNCHANGED <<tracked, active, known, disk, sending, handlers, recoveries>>

-----------------------------------------------------------------------------
\* An order event of an active order: its status, and for a partial fill the volume
\* the exchange gives; a final status moves the order to completed_orders.
OnOrderEvent(e) ==
    /\ tracked' = [tracked EXCEPT ![e.order] =
           [status |-> e.status, trades |-> tracked[e.order].trades,
            filled |-> IF e.status = "partTradedNotQueueing" THEN e.traded ELSE tracked[e.order].filled]]
    /\ active' = IF e.status \in Final THEN active \ {e.order} ELSE active

\* A trade event adds the trade's volume to whatever is there.
OnTradeEvent(e) ==
    /\ tracked' = [tracked EXCEPT ![e.order] =
           [status |-> tracked[e.order].status, trades |-> tracked[e.order].trades + 1,
            filled |-> tracked[e.order].filled + e.traded]]
    /\ UNCHANGED active

\* The event thread.  An event of an order that is not (or no longer) active, or whose
\* vt_orderid is not known, is dropped.
HandleEvent ==
    /\ events # <<>>
    /\ events' = Tail(events)
    /\ LET e == Head(events)
       IN  IF e.order \in known \cap active
           THEN IF e.kind = "order" THEN OnOrderEvent(e) ELSE OnTradeEvent(e)
           ELSE UNCHANGED <<tracked, active>>
    /\ UNCHANGED <<market, known, disk, sending, handlers, recoveries>>

\* cancel_order, taking the request for its answer.
CancelAtOnce(o) ==
    /\ tracked[o].status \in InFlight
    /\ tracked' = [tracked EXCEPT ![o].status = "cancelled"] /\ active' = active \ {o}
    /\ UNCHANGED <<market, events, known, disk, sending, handlers, recoveries>>

\* cancel_order: asks the exchange, which may have filled the order since; the
\* tracker's own record waits for the event.
CancelOrder(o) ==
    /\ tracked[o].status \in InFlight
    /\ IF market[o].status \in Open
       THEN /\ market' = [market EXCEPT ![o].status = "cancelled"]
            /\ events' = Append(events, OrderEvent(o, "cancelled", market[o].traded))
       ELSE UNCHANGED <<market, events>>
    /\ UNCHANGED <<tracked, active, known, disk, sending, handlers, recoveries>>

\* flush_to_disk, when the engine stops.
FlushToDisk ==
    /\ disk # tracked
    /\ disk' = tracked
    /\ UNCHANGED <<market, events, tracked, active, known, sending, handlers, recoveries>>

\* The process ends and a new tracker loads the files: _load_from_disk.  The maps to
\* the exchange's ids are not restored, and the exchange's events of the time are lost.
Restart ==
    /\ handlers /\ recoveries < MaxRecoveries
    /\ tracked' = disk
    /\ active' = {o \in Orders : disk[o].status \in InFlight}
    /\ known' = {} /\ handlers' = FALSE /\ events' = <<>>
    /\ sending' = [o \in Orders |-> "no"]
    /\ recoveries' = recoveries + 1
    /\ UNCHANGED <<market, disk>>

TrackerNext ==
    \/ \E o \in Orders :
         \/ Send(o) \/ TrackOrder(o) \/ PersistOrder(o) \/ Acknowledge(o) \/ Fill(o)
         \/ CancelOrder(o)
         \/ \E status \in {"cancelled", "rejected"} : End(o, status)
    \/ RegisterEventHandlers \/ HandleEvent \/ FlushToDisk \/ Restart

TrackerFairness == WF_trackerVars(HandleEvent)

TrackerSpec == TrackerInit /\ [][TrackerNext]_trackerVars

-----------------------------------------------------------------------------
\* An order that the tracker calls filled, cancelled or rejected ended that way at the
\* exchange, however a cancel request raced the last fill.
FinalIsTrue ==
    \A o \in Orders : tracked[o].status \in Final => market[o].status = tracked[o].status
=============================================================================
