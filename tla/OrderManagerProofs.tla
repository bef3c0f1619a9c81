------------------------- MODULE OrderManagerProofs -------------------------
(***************************************************************************)
(* Theorems about OrderManager, for every value of its constants.          *)
(***************************************************************************)
EXTENDS OrderManager, TLAPS

\* Program points at which a thread works on an order it has created.
Working == {"query", "submit", "poll", "fill", "notify"}

\* TypeOK is not inductive: a step that writes orders[op[t].oid] needs the order
\* to exist, and one that opens a position needs a side.
IType ==
    /\ TypeOK
    /\ \A t \in Threads :
         /\ pc[t] \in Working => op[t].oid \in OrderIds /\ op[t].side \in Sides
         /\ op[t].kind = "open" => op[t].side \in Sides

LEMMA AbsNat == \A n \in Int : Abs(n) \in Nat
BY DEF Abs

LEMMA FormatNat == \A q \in Nat : FormatQuantity(q) \in Nat
<1> SUFFICES ASSUME NEW q \in Nat PROVE FormatQuantity(q) \in Nat
    OBVIOUS
<1>1. 2 * q + Lot - 1 \in Nat /\ 2 * Lot \in Nat \ {0}
    BY ConstantsAssumption
<1>2. \A a \in Nat, b \in Nat \ {0} : a \div b \in Nat
    OBVIOUS
<1>3. (2 * q + Lot - 1) \div (2 * Lot) \in Nat
    BY <1>1, <1>2
<1>4. \A a \in Nat, b \in Nat : a * b \in Nat
    OBVIOUS
<1> QED BY <1>3, <1>4, ConstantsAssumption DEF FormatQuantity

LEMMA SideOfType == \A n \in Int : /\ SideOf(n) \in Sides \cup {"none"}
                                   /\ n # 0 => SideOf(n) \in Sides
BY DEF SideOf, Sides

PositionType == [size : Int, side : Sides \cup {"none"}]

LEMMA UpdateType ==
    ASSUME NEW p \in PositionType, NEW side \in Sides, NEW q \in Nat
    PROVE  UpdatePosition(p, side, q) \in PositionType
BY DEF UpdatePosition, PositionType, Sides, Sign

LEMMA ReduceType ==
    ASSUME NEW p \in PositionType, NEW q \in Nat
    PROVE  ReducePosition(p, q) \in PositionType
BY DEF ReducePosition, PositionType, Sides

LEMMA FilledType ==
    ASSUME NEW o \in OrderType, NEW q \in Nat, NEW n \in Nat
    PROVE  /\ Filled(o, q) \in OrderType
           /\ [Filled(o, q) EXCEPT !.pnl = n] \in OrderType
BY DEF Filled, OrderType, Statuses

LEMMA InitType == Init => IType
<1> SUFFICES ASSUME Init PROVE IType
    OBVIOUS
<1>1. position \in PositionType /\ exchange \in Int
    BY SideOfType DEF Synced, Init, PositionType
<1> QED
    BY <1>1, ConstantsAssumption
    DEF Synced, Init, IType, TypeOK, PositionType, Unused, NoXOrder, NoOp, OrderType,
        OpType, XOrderType, Statuses, PCs, Working

\* What a thread's own step may do to pc and op without leaving IType.
LEMMA ThreadStep ==
    ASSUME IType, NEW t \in Threads, NEW v \in PCs, NEW r \in OpType,
           pc' = [pc EXCEPT ![t] = v], op' = [op EXCEPT ![t] = r],
           v \in Working => r.oid \in OrderIds /\ r.side \in Sides,
           r.kind = "open" => r.side \in Sides
    PROVE  /\ pc' \in [Threads -> PCs]
           /\ op' \in [Threads -> OpType]
           /\ \A u \in Threads :
                /\ pc'[u] \in Working => op'[u].oid \in OrderIds /\ op'[u].side \in Sides
                /\ op'[u].kind = "open" => op'[u].side \in Sides
BY DEF IType, TypeOK

LEMMA NoOpType == NoOp \in OpType /\ NoOp.kind # "open" /\ "idle" \in PCs \ Working
BY DEF NoOp, OpType, PCs, Working

LEMMA RequestStep ==
    ASSUME IType, NEW t \in Threads, NEW kind \in {"open", "close"},
           NEW side \in Sides \cup {"none"}, NEW q \in Nat, NEW arg \in Nat,
           kind = "open" => side \in Sides,
           Request(t, kind, side, q, arg)
    PROVE  IType'
<1> DEFINE r == [NoOp EXCEPT !.kind = kind, !.side = side, !.qty = q, !.arg = arg]
<1>1. /\ r \in OpType
      /\ r.kind = "open" => r.side \in Sides
    BY DEF NoOp, OpType
<1>2. "start" \in PCs \ Working
    BY DEF PCs, Working
<1>3. pc' = [pc EXCEPT ![t] = "start"] /\ op' = [op EXCEPT ![t] = r]
    BY DEF Request
<1> HIDE DEF r
<1>4. /\ pc' \in [Threads -> PCs] /\ op' \in [Threads -> OpType]
      /\ \A u \in Threads :
           /\ pc'[u] \in Working => op'[u].oid \in OrderIds /\ op'[u].side \in Sides
           /\ op'[u].kind = "open" => op'[u].side \in Sides
    BY <1>1, <1>2, <1>3, ThreadStep
<1> QED
    BY <1>4 DEF IType, TypeOK, Request, omVars, acctVars, xVars

LEMMA CallerStep ==
    ASSUME IType, NEW t \in Threads, Engine(t) \/ Dashboard(t)
    PROVE  IType'
<1>1. ASSUME NEW side \in Sides, NEW q \in Sizes, Request(t, "open", side, q, 0)
      PROVE  IType'
    BY <1>1, RequestStep, ConstantsAssumption
<1>2. ASSUME NEW n \in Nat, Request(t, "close", "none", 0, n)
      PROVE  IType'
    BY <1>2, RequestStep
<1>3. Abs(position.size) \in Nat
    BY AbsNat DEF IType, TypeOK
<1> QED
    BY <1>1, <1>2, <1>3 DEF Engine, Dashboard, SignalOpen, SignalClose, CloseAll,
                            DashboardOpen, DashboardClose

LEMMA NewOrderStep ==
    ASSUME IType, NEW t \in Threads, NEW side \in Sides, NEW size \in Nat,
           NEW next \in Working, op[t].kind \in {"open", "close"},
           NewOrder(t, side, size, next),
           UNCHANGED <<position, total_fees, acctVars, xVars>>
    PROVE  IType'
<1> DEFINE o == order_counter + 1
           r == [op[t] EXCEPT !.oid = o, !.side = side, !.qty = size]
           new == [Unused EXCEPT !.side = side, !.size = size, !.status = "pending"]
<1>1. o \in OrderIds /\ order_counter' = o
    BY ConstantsAssumption DEF NewOrder, IType, TypeOK, OrderIds
<1>2. new \in OrderType
    BY DEF Unused, OrderType, Statuses
<1>3. orders' \in [OrderIds -> OrderType]
    BY <1>1, <1>2 DEF NewOrder, IType, TypeOK
<1>4. r \in OpType /\ r.oid = o /\ r.side = side
    BY <1>1 DEF IType, TypeOK, OpType
<1>5. pc' = [pc EXCEPT ![t] = next] /\ op' = [op EXCEPT ![t] = r]
    BY DEF NewOrder, IType, TypeOK
<1>6. next \in PCs
    BY DEF Working, PCs
<1> HIDE DEF r, o
<1>7. /\ pc' \in [Threads -> PCs] /\ op' \in [Threads -> OpType]
      /\ \A u \in Threads :
           /\ pc'[u] \in Working => op'[u].oid \in OrderIds /\ op'[u].side \in Sides
           /\ op'[u].kind = "open" => op'[u].side \in Sides
    BY <1>1, <1>4, <1>5, <1>6, ThreadStep
<1> QED
    BY <1>1, <1>3, <1>7 DEF IType, TypeOK, OrderIds, acctVars, xVars

LEMMA RejectStep ==
    ASSUME IType, NEW t \in Threads, pc[t] \in Working, Reject(t),
           exchange' \in Int, xorders' \in [OrderIds -> XOrderType]
    PROVE  IType'
<1>1. /\ orders \in [OrderIds -> OrderType] /\ op[t].oid \in OrderIds
      /\ orders' = [orders EXCEPT ![op[t].oid].status = "rejected"]
    BY DEF Reject, IType, TypeOK
<1>2. \A o \in OrderType : [o EXCEPT !.status = "rejected"] \in OrderType
    BY DEF OrderType, Statuses
<1>3. orders' \in [OrderIds -> OrderType]
    BY <1>1, <1>2
<1>4. /\ pc' \in [Threads -> PCs] /\ op' \in [Threads -> OpType]
      /\ \A u \in Threads :
           /\ pc'[u] \in Working => op'[u].oid \in OrderIds /\ op'[u].side \in Sides
           /\ op'[u].kind = "open" => op'[u].side \in Sides
    BY NoOpType, ThreadStep DEF Reject
<1> QED
    BY <1>3, <1>4 DEF IType, TypeOK, Reject, acctVars

LEMMA SettleStep ==
    ASSUME IType, NEW t \in Threads, pc[t] \in Working,
           NEW order \in OrderType, NEW p \in PositionType, Settle(t, order, p),
           exchange' = exchange, xorders' \in [OrderIds -> XOrderType]
    PROVE  IType'
<1>1. orders' \in [OrderIds -> OrderType]
    BY DEF Settle, IType, TypeOK
<1>2. total_fees' \in Nat /\ realised' \in Nat
  <2>1. order.filled \in Nat /\ order.pnl \in Nat
    BY DEF OrderType
  <2>2. total_fees \in Nat /\ realised \in Nat
    BY DEF IType, TypeOK
  <2> QED
    BY <2>1, <2>2 DEF Settle
<1>3. /\ pc' \in [Threads -> PCs] /\ op' \in [Threads -> OpType]
      /\ \A u \in Threads :
           /\ pc'[u] \in Working => op'[u].oid \in OrderIds /\ op'[u].side \in Sides
           /\ op'[u].kind = "open" => op'[u].side \in Sides
    BY DEF Settle, IType, TypeOK, PCs
<1> QED
    BY <1>1, <1>2, <1>3 DEF IType, TypeOK, Settle, PositionType

\* What _close_position and _open_* settle is well typed.
LEMMA SettledTypes ==
    ASSUME IType, NEW t \in Threads, pc[t] \in Working, NEW q \in Nat
    PROVE  /\ Filled(orders[op[t].oid], q) \in OrderType
           /\ [Filled(orders[op[t].oid], q) EXCEPT !.pnl = CalculatePnl(position, q)]
                 \in OrderType
           /\ UpdatePosition(position, op[t].side, q) \in PositionType
           /\ ReducePosition(position, q) \in PositionType
<1>1. /\ orders[op[t].oid] \in OrderType /\ op[t].side \in Sides
      /\ position \in PositionType
    BY DEF IType, TypeOK, PositionType
<1>2. CalculatePnl(position, q) \in Nat
    BY DEF CalculatePnl
<1> QED
    BY <1>1, <1>2, FilledType, UpdateType, ReduceType

LEMMA ManagerStep ==
    ASSUME IType, NEW t \in Threads, Manager(t)
    PROVE  IType'
<1>1. CASE BeginOpen(t)
    BY <1>1, NewOrderStep DEF BeginOpen, IType, TypeOK, OpType, Working
<1>2. CASE BeginClose(t)
  <2>1. CASE position.size = 0
    <3>1. /\ pc' \in [Threads -> PCs] /\ op' \in [Threads -> OpType]
          /\ \A u \in Threads :
               /\ pc'[u] \in Working => op'[u].oid \in OrderIds /\ op'[u].side \in Sides
               /\ op'[u].kind = "open" => op'[u].side \in Sides
        BY <1>2, <2>1, NoOpType, ThreadStep DEF BeginClose
    <3> QED
        BY <1>2, <2>1, <3>1 DEF BeginClose, IType, TypeOK, acctVars, xVars
  <2>2. CASE position.size # 0
    <3> DEFINE side == Opposite(SideOf(position.size))
               size == IF op[t].arg = 0 THEN Abs(position.size) ELSE op[t].arg
    <3>1. side \in Sides
        BY DEF Opposite, SideOf, Sides
    <3>2. size \in Nat
        BY AbsNat DEF IType, TypeOK, OpType
    <3>3. NewOrder(t, side, size, IF Mode = "testnet" THEN "query" ELSE "fill")
        BY <1>2, <2>2 DEF BeginClose
    <3> HIDE DEF side, size
    <3> QED
        BY <1>2, <3>1, <3>2, <3>3, NewOrderStep DEF BeginClose, Working
  <2> QED
    BY <2>1, <2>2
<1>3. CASE PaperFill(t)
  <2>1. op[t].qty \in Nat /\ pc[t] \in Working
    BY <1>3 DEF PaperFill, IType, TypeOK, OpType, Working
  <2>2. UNCHANGED xVars
    BY <1>3 DEF PaperFill
  <2> QED
    BY <1>3, <2>1, <2>2, SettledTypes, SettleStep DEF PaperFill, xVars, IType, TypeOK
<1>4. CASE QueryPosition(t)
  <2>1. CASE exchange = 0
    <3>1. /\ pc' \in [Threads -> PCs] /\ op' \in [Threads -> OpType]
          /\ \A u \in Threads :
               /\ pc'[u] \in Working => op'[u].oid \in OrderIds /\ op'[u].side \in Sides
               /\ op'[u].kind = "open" => op'[u].side \in Sides
        BY <1>4, <2>1, NoOpType, ThreadStep DEF QueryPosition
    <3>2. xorders' \in [OrderIds -> XOrderType]
      <4>1. \A x \in XOrderType : [x EXCEPT !.taken = x.done] \in XOrderType
        BY DEF XOrderType
      <4> QED
        BY <1>4, <2>1, <4>1 DEF QueryPosition, IType, TypeOK
    <3>3. position' \in PositionType
        BY <1>4, <2>1 DEF QueryPosition, PositionType, Flat
    <3> QED
        BY <1>4, <2>1, <3>1, <3>2, <3>3 DEF QueryPosition, IType, TypeOK, acctVars, PositionType
  <2>2. CASE exchange # 0
    <3> DEFINE r == [op[t] EXCEPT !.side = Opposite(SideOf(exchange)), !.qty = Abs(exchange)]
    <3>1. Opposite(SideOf(exchange)) \in Sides /\ Abs(exchange) \in Nat
        BY <2>2, AbsNat DEF Opposite, SideOf, Sides, IType, TypeOK
    <3>2. r \in OpType /\ r.side \in Sides /\ r.oid = op[t].oid
      <4>1. op[t] \in OpType
        BY DEF IType, TypeOK
      <4> QED
        BY <3>1, <4>1 DEF OpType
    <3>3. pc' = [pc EXCEPT ![t] = "submit"] /\ op' = [op EXCEPT ![t] = r]
        BY <1>4, <2>2 DEF QueryPosition, IType, TypeOK
    <3>4. op[t].oid \in OrderIds /\ "submit" \in PCs
        BY <1>4 DEF QueryPosition, IType, Working, PCs
    <3> HIDE DEF r
    <3>5. /\ pc' \in [Threads -> PCs] /\ op' \in [Threads -> OpType]
          /\ \A u \in Threads :
               /\ pc'[u] \in Working => op'[u].oid \in OrderIds /\ op'[u].side \in Sides
               /\ op'[u].kind = "open" => op'[u].side \in Sides
        BY <3>2, <3>3, <3>4, ThreadStep
    <3> QED
        BY <1>4, <2>2, <3>5 DEF QueryPosition, IType, TypeOK, acctVars
  <2> QED
    BY <2>1, <2>2
<1>5. CASE QueryFails(t)
    BY <1>5, RejectStep DEF QueryFails, IType, TypeOK, xVars, Working
<1>6. ASSUME Accepted(t)
      PROVE  exchange' \in Int /\ xorders' \in [OrderIds -> XOrderType]
  <2>1. FormatQuantity(op[t].qty) \in Nat
    BY FormatNat DEF IType, TypeOK, OpType
  <2>2. [NoXOrder EXCEPT !.side = op[t].side, !.left = FormatQuantity(op[t].qty)] \in XOrderType
    BY <2>1 DEF NoXOrder, XOrderType, IType, TypeOK, OpType
  <2> QED
    BY <1>6, <2>2 DEF Accepted, IType, TypeOK
<1>7. CASE Submit(t)
  <2>1. Accepted(t) /\ pc[t] \in Working /\ pc' = [pc EXCEPT ![t] = "poll"]
    BY <1>7 DEF Submit, Accepted, Working
  <2>2. pc' \in [Threads -> PCs]
    BY <2>1 DEF IType, TypeOK, PCs
  <2> QED
    BY <1>6, <1>7, <2>1, <2>2 DEF Submit, IType, TypeOK, omVars, acctVars
<1>8. CASE SubmitReplyLost(t)
    BY <1>6, <1>8, RejectStep DEF SubmitReplyLost, Accepted, Working
<1>9. CASE SubmitRefused(t)
    BY <1>9, RejectStep DEF SubmitRefused, IType, TypeOK, xVars, Working
<1>10. CASE PollFilled(t)
  <2>1. op[t].oid \in OrderIds /\ xorders[op[t].oid].done \in Nat /\ pc[t] \in Working
    BY <1>10 DEF PollFilled, IType, TypeOK, XOrderType, Working
  <2>2. xorders' \in [OrderIds -> XOrderType] /\ exchange' = exchange
    <3>1. \A x \in XOrderType, n \in Nat : [x EXCEPT !.taken = n] \in XOrderType
        BY DEF XOrderType
    <3> QED
        BY <1>10, <2>1, <3>1 DEF PollFilled, IType, TypeOK
  <2> QED
    BY <1>10, <2>1, <2>2, SettledTypes, SettleStep DEF PollFilled
<1>11. CASE PollTimeout(t)
    BY <1>11, RejectStep DEF PollTimeout, IType, TypeOK, xVars, Working
<1>12. CASE Notify(t)
  <2>1. op[t].oid \in OrderIds
    BY <1>12 DEF Notify, IType, Working
  <2>2. capital' \in [pnl : Nat, fees : Nat]
    BY <1>12, <2>1 DEF Notify, IType, TypeOK, OrderType
  <2>3. /\ pc' \in [Threads -> PCs] /\ op' \in [Threads -> OpType]
        /\ \A u \in Threads :
             /\ pc'[u] \in Working => op'[u].oid \in OrderIds /\ op'[u].side \in Sides
             /\ op'[u].kind = "open" => op'[u].side \in Sides
    BY <1>12, NoOpType, ThreadStep DEF Notify
  <2> QED
    BY <1>12, <2>2, <2>3 DEF Notify, IType, TypeOK, omVars, xVars
<1> QED
    BY <1>1, <1>2, <1>3, <1>4, <1>5, <1>7, <1>8, <1>9, <1>10, <1>11, <1>12 DEF Manager

LEMMA ExchangeStep == IType /\ Exchange => IType'
<1> SUFFICES ASSUME IType, NEW x \in OrderIds,
                    (\E q \in 1..xorders[x].left : ExchangeFill(x, q)) \/ ExchangeExpire(x)
             PROVE  IType'
    BY DEF Exchange
<1>1. xorders[x] \in XOrderType
    BY DEF IType, TypeOK
<1>2. CASE ExchangeExpire(x)
  <2>1. xorders' \in [OrderIds -> XOrderType]
    BY <1>1, <1>2 DEF ExchangeExpire, IType, TypeOK, XOrderType
  <2> QED
    BY <1>2, <2>1 DEF ExchangeExpire, IType, TypeOK, omVars, acctVars
<1>3. ASSUME NEW q \in 1..xorders[x].left, ExchangeFill(x, q)
      PROVE  IType'
  <2>0. q \in Nat /\ xorders[x].left - q \in Nat /\ xorders[x].done + q \in Nat
    BY <1>1 DEF XOrderType
  <2>1. xorders' \in [OrderIds -> XOrderType]
    <3>1. \A y \in XOrderType, m, n \in Nat :
             [y EXCEPT !.left = m, !.done = n] \in XOrderType
        BY DEF XOrderType
    <3>2. xorders' = [xorders EXCEPT ![x] =
                        [xorders[x] EXCEPT !.left = xorders[x].left - q,
                                           !.done = xorders[x].done + q]]
        BY <1>3 DEF ExchangeFill, IType, TypeOK
    <3> QED
        BY <1>1, <2>0, <3>1, <3>2 DEF IType, TypeOK
  <2>2. exchange' \in Int
    <3>1. Sign(xorders[x].side) \in {1, -1} /\ exchange \in Int
        BY DEF Sign, IType, TypeOK
    <3> QED
        BY <1>3, <2>0, <3>1 DEF ExchangeFill
  <2> QED
    BY <1>3, <2>1, <2>2 DEF ExchangeFill, IType, TypeOK, omVars, acctVars
<1> QED
    BY <1>2, <1>3

LEMMA RestartStep == IType /\ Restart => IType'
<1> SUFFICES ASSUME IType, Restart PROVE IType'
    OBVIOUS
<1>1. position' \in PositionType
    BY SideOfType DEF Synced, Restart, PositionType, IType, TypeOK
<1>2. orders' \in [OrderIds -> OrderType]
    BY DEF Synced, Restart, Unused, OrderType, Statuses
<1>3. xorders' \in [OrderIds -> XOrderType]
  <2>1. \A x \in XOrderType : [x EXCEPT !.taken = x.done] \in XOrderType
    BY DEF XOrderType
  <2> QED
    BY <2>1 DEF Synced, Restart, IType, TypeOK
<1> QED
    BY <1>1, <1>2, <1>3, NoOpType DEF Synced, Restart, IType, TypeOK, PositionType

LEMMA TypeStep == IType /\ [Next]_vars => IType'
<1> SUFFICES ASSUME IType, [Next]_vars PROVE IType'
    OBVIOUS
<1>1. CASE UNCHANGED vars
    BY <1>1 DEF vars, codeVars, omVars, acctVars, xVars, IType, TypeOK
<1>2. CASE Next
    BY <1>2, CallerStep, ManagerStep, ExchangeStep, RestartStep DEF Next, Threads
<1> QED
    BY <1>1, <1>2

\* Type correctness of the manager under every fault and any number of threads:
\* filled quantities, fees and order ids stay in their ranges.
THEOREM TypeCorrect == Spec => []TypeOK
<1>1. Init => IType
    BY InitType
<1>2. IType => TypeOK
    BY DEF IType
<1> QED
    BY <1>1, <1>2, TypeStep, PTL DEF Spec

-----------------------------------------------------------------------------
(***************************************************************************)
(* Paper mode with the update thread alone.                                *)
(***************************************************************************)

PaperAlone(w) ==
    Mode = "paper" /\ EngineThreads = {w} /\ DashboardThreads = {}

\* What the thread read when it decided is still true when it acts: an open
\* finds the position flat, a close finds exactly the size it was given.
ReadStillTrue(w) ==
    /\ pc[w] \in {"idle", "start", "fill", "notify"}
    /\ pc[w] \in {"start", "fill"} /\ op[w].kind = "open" =>
           position.size = 0 /\ op[w].qty # 0
    /\ pc[w] = "start" /\ op[w].kind = "close" =>
           op[w].arg = 0 \/ op[w].arg = Abs(position.size)
    /\ pc[w] = "fill" /\ op[w].kind # "open" =>
           position.size # 0 /\ op[w].qty = Abs(position.size)

IPaper(w) == IType /\ SideMatchesSign /\ ReadStillTrue(w)

LEMMA SideOfSigned ==
    ASSUME NEW side \in Sides, NEW q \in Nat, q # 0
    PROVE  SideOf(Sign(side) * q) = side
BY DEF SideOf, Sign, Sides

\* Filling an open on a flat position, and reducing a position by its whole size.
LEMMA UpdateFlat ==
    ASSUME NEW p \in PositionType, NEW side \in Sides, NEW q \in Nat, p.size = 0
    PROVE  UpdatePosition(p, side, q) = [size |-> Sign(side) * q, side |-> side]
BY DEF UpdatePosition, PositionType, Sides, Sign

LEMMA ReduceWhole ==
    ASSUME NEW p \in PositionType, p.size # 0
    PROVE  ReducePosition(p, Abs(p.size)) = [size |-> 0, side |-> "none"]
BY DEF ReducePosition, PositionType, Abs

LEMMA PaperInit ==
    ASSUME NEW w, PaperAlone(w), Init
    PROVE  IPaper(w)
<1>1. IType
    BY InitType
<1>2. SideMatchesSign
    BY DEF Synced, Init, SideMatchesSign
<1>3. ReadStillTrue(w)
    BY DEF Synced, Init, PaperAlone, Threads, ReadStillTrue
<1> QED
    BY <1>1, <1>2, <1>3 DEF IPaper

\* The steps that can change the position: a fill, and (never taken here) the
\* testnet steps.
LEMMA PaperStep ==
    ASSUME NEW w, PaperAlone(w), IPaper(w), [Next]_vars
    PROVE  SideMatchesSign' /\ ReadStillTrue(w)' /\ [Book!Next]_(position.size)
<1> USE DEF PaperAlone
<1>1. w \in Threads /\ Threads = {w}
    BY DEF Threads
<1>2. position \in PositionType /\ op[w] \in OpType /\ pc[w] \in PCs
    BY <1>1 DEF IPaper, IType, TypeOK, PositionType
<1>3. CASE UNCHANGED vars
    BY <1>3 DEF vars, codeVars, omVars, acctVars, xVars, IPaper, SideMatchesSign, ReadStillTrue, SideOf
<1>4. ASSUME NEW kind, NEW side, NEW q, NEW arg, Request(w, kind, side, q, arg),
             kind = "open" => position.size = 0 /\ q # 0,
             kind = "close" => arg = 0 \/ arg = Abs(position.size)
      PROVE  SideMatchesSign' /\ ReadStillTrue(w)' /\ [Book!Next]_(position.size)
  <2>1. /\ position' = position /\ pc' = [pc EXCEPT ![w] = "start"]
        /\ op' = [op EXCEPT ![w] = [NoOp EXCEPT !.kind = kind, !.side = side,
                                                !.qty = q, !.arg = arg]]
    BY <1>4 DEF Request, omVars
  <2>2. pc'[w] = "start" /\ op'[w].kind = kind /\ op'[w].arg = arg /\ op'[w].qty = q
    BY <1>1, <2>1 DEF NoOp, IPaper, IType, TypeOK
  <2> QED
    BY <1>4, <2>1, <2>2 DEF IPaper, SideMatchesSign, ReadStillTrue, SideOf, Abs
<1>5. CASE Engine(w)
  <2>1. position.side \notin Sides => position.size = 0
    BY <1>2 DEF PositionType, IPaper, SideMatchesSign, SideOf, Sides
  <2>2. \A q \in Sizes : q # 0
    BY ConstantsAssumption
  <2> QED
    BY <1>4, <1>5, <2>1, <2>2 DEF Engine, SignalOpen, SignalClose, CloseAll
<1>6. CASE BeginOpen(w)
  <2>1. /\ position' = position /\ pc'[w] = "fill" /\ op'[w].kind = op[w].kind
        /\ op'[w].qty = op[w].qty /\ op[w].kind = "open" /\ pc[w] = "start"
    BY <1>1, <1>2, <1>6 DEF BeginOpen, NewOrder, IPaper, IType, TypeOK, OpType
  <2> QED
    BY <2>1 DEF IPaper, SideMatchesSign, ReadStillTrue, SideOf
<1>7. CASE BeginClose(w)
  <2>1. position' = position /\ op[w].kind = "close" /\ pc[w] = "start"
    BY <1>7 DEF BeginClose
  <2>2. CASE position.size = 0
    <3>1. pc'[w] = "idle"
        BY <1>1, <1>7, <2>2 DEF BeginClose, IPaper, IType, TypeOK
    <3> QED
        BY <2>1, <3>1 DEF IPaper, SideMatchesSign, ReadStillTrue, SideOf
  <2>3. CASE position.size # 0
    <3>1. /\ pc'[w] = "fill" /\ op'[w].kind = "close"
          /\ op'[w].qty = IF op[w].arg = 0 THEN Abs(position.size) ELSE op[w].arg
        BY <1>1, <1>2, <1>7, <2>3 DEF BeginClose, NewOrder, IPaper, IType, TypeOK, OpType
    <3> QED
        BY <2>1, <2>3, <3>1 DEF IPaper, SideMatchesSign, ReadStillTrue, SideOf, Abs
  <2> QED
    BY <2>2, <2>3
<1>8. CASE PaperFill(w)
  <2>1. pc'[w] = "notify" /\ op' = op
    BY <1>1, <1>8 DEF PaperFill, Settle, IPaper, IType, TypeOK
  <2>2. ReadStillTrue(w)'
    BY <2>1 DEF ReadStillTrue
  <2>3. CASE op[w].kind = "open"
    <3> DEFINE n == Sign(op[w].side) * op[w].qty
    <3>1. position' = UpdatePosition(position, op[w].side, op[w].qty)
        BY <1>8, <2>3 DEF PaperFill, Settle
    <3>2. op[w].side \in Sides /\ op[w].qty \in Nat /\ position.size = 0
        BY <1>1, <1>2, <1>8, <2>3 DEF PaperFill, IPaper, IType, ReadStillTrue, OpType
    <3>3. position' = [size |-> n, side |-> op[w].side]
        BY <1>2, <3>1, <3>2, UpdateFlat
    <3>4. n \in Int
        BY <3>2 DEF Sign
    <3>5. op[w].qty # 0
        BY <1>8, <2>3 DEF PaperFill, IPaper, ReadStillTrue
    <3> QED
        BY <2>2, <3>2, <3>3, <3>4, <3>5, SideOfSigned DEF SideMatchesSign, Book!Next, Book!Open
  <2>4. CASE op[w].kind # "open"
    <3>1. position' = ReducePosition(position, Abs(position.size)) /\ position.size # 0
        BY <1>8, <2>4 DEF PaperFill, Settle, IPaper, ReadStillTrue
    <3>2. position' = [size |-> 0, side |-> "none"]
        BY <1>2, <3>1, ReduceWhole
    <3>3. position.size \in Int
        BY <1>2 DEF PositionType
    <3> QED
        BY <2>2, <3>1, <3>2, <3>3
        DEF SideMatchesSign, SideOf, Book!Next, Book!Reduce, Book!Towards
  <2> QED
    BY <2>3, <2>4
<1>9. CASE Notify(w)
  <2>1. position' = position /\ pc'[w] = "idle"
    BY <1>1, <1>9 DEF Notify, omVars, IPaper, IType, TypeOK
  <2> QED
    BY <2>1 DEF IPaper, SideMatchesSign, ReadStillTrue, SideOf
<1>10. CASE Exchange
    BY <1>10 DEF Exchange, ExchangeFill, ExchangeExpire, omVars, IPaper,
                 SideMatchesSign, ReadStillTrue, SideOf
<1>11. ~ Restart
    BY DEF Synced, Restart
<1>12. ASSUME Manager(w)
       PROVE  BeginOpen(w) \/ BeginClose(w) \/ PaperFill(w) \/ Notify(w)
    BY <1>12 DEF Manager, IPaper, ReadStillTrue, QueryPosition, QueryFails, Submit,
                 SubmitReplyLost, SubmitRefused, Accepted, PollFilled, PollTimeout
<1> QED
    BY <1>1, <1>3, <1>5, <1>6, <1>7, <1>8, <1>9, <1>10, <1>11, <1>12 DEF Next

\* In paper mode, when the update thread is the manager's only caller, the side
\* that _on_signal_event trades on always agrees with the sign that the close
\* methods trade on.
THEOREM PaperSides ==
    ASSUME NEW CONSTANT w, PaperAlone(w)
    PROVE  Spec => []SideMatchesSign
<1>1. Init => IPaper(w)
    BY PaperInit
<1>2. IPaper(w) /\ [Next]_vars => IPaper(w)'
    BY PaperStep, TypeStep DEF IPaper
<1>3. IPaper(w) => SideMatchesSign
    BY DEF IPaper
<1> QED
    BY <1>1, <1>2, <1>3, PTL DEF Spec

\* In the same setting the manager implements the position book: a position is
\* opened only from flat, and then only reduced.
THEOREM PaperRefinesBook ==
    ASSUME NEW CONSTANT w, PaperAlone(w)
    PROVE  Spec => RefinesBook
<1>1. Init => IPaper(w)
    BY PaperInit
<1>2. IPaper(w) /\ [Next]_vars => IPaper(w)'
    BY PaperStep, TypeStep DEF IPaper
<1>3. Init => Book!Init
    BY InitType DEF IType, TypeOK, Book!Init
<1>4. IPaper(w) /\ [Next]_vars => [Book!Next]_(position.size)
    BY PaperStep
<1> QED
    BY <1>1, <1>2, <1>3, <1>4, PTL DEF Spec, RefinesBook, Book!Spec

-----------------------------------------------------------------------------
(***************************************************************************)
(* The accounting, under every fault and any number of threads.            *)
(***************************************************************************)

\* No two threads work on one order.
OwnOrders ==
    /\ \A t \in Threads : pc[t] \in Working => op[t].oid \in 1..order_counter
    /\ \A t, u \in Threads :
         pc[t] \in Working /\ pc[u] \in Working /\ t # u => op[t].oid # op[u].oid

\* An order is pending until it is settled, and has no PnL before that.
OrderPhases ==
    /\ \A o \in OrderIds : o > order_counter => orders[o] = Unused
    /\ \A o \in OrderIds : orders[o].status \notin {"filled", "partial"} => orders[o].pnl = 0
    /\ \A t \in Threads :
         /\ pc[t] \in Working \ {"notify"} => orders[op[t].oid].status = "pending"
         /\ pc[t] = "notify" => orders[op[t].oid].status \in {"filled", "partial"}

\* Fees that capital has not paid have a callback to come, or were left by a partial fill.
FeesDue ==
    \/ capital.fees = total_fees
    \/ \E t \in Threads : pc[t] = "notify"
    \/ \E o \in OrderIds : orders[o].status = "partial"

Booked == OwnOrders /\ OrderPhases /\ FeesDue /\ CreditedExactlyOnce

IBook == IType /\ Booked

\* The outstanding PnL of one order changes by what is settled or credited.
LEMMA DueChanges ==
    ASSUME IType, IType', CreditedExactlyOnce, NEW o \in OrderIds, NEW d \in Int,
           ChangedBy(Due, Due', MaxOrders, o, d),
           realised' - capital'.pnl = (realised - capital.pnl) + d
    PROVE  CreditedExactlyOnce'
<1>1. Due \in [1..MaxOrders -> Int] /\ Due' \in [1..MaxOrders -> Int]
  <2>1. \A i \in OrderIds : orders[i].pnl \in Int /\ orders'[i].pnl \in Int
      BY DEF IType, TypeOK, OrderType
  <2> QED
      BY <2>1 DEF Due, OrderIds
<1>2. MaxOrders \in Nat /\ o \in 1..MaxOrders
    BY ConstantsAssumption DEF OrderIds
<1> DEFINE a == Due
           b == Due'
<1> HIDE DEF a, b
<1>3. SumUpTo(b, MaxOrders) = SumUpTo(a, MaxOrders) + d
    BY <1>1, <1>2, SumOneTerm DEF a, b
<1>4. SumUpTo(a, MaxOrders) \in Int
    BY <1>1, <1>2, SumType DEF a
<1>5. /\ realised \in Int /\ capital.pnl \in Int /\ realised' \in Int /\ capital'.pnl \in Int
      /\ realised = capital.pnl + SumUpTo(a, MaxOrders)
    BY DEF IType, TypeOK, CreditedExactlyOnce, a
<1>6. realised' = capital'.pnl + SumUpTo(b, MaxOrders)
    BY <1>3, <1>4, <1>5
<1> QED
    BY <1>6 DEF CreditedExactlyOnce, b

\* A thread's step that writes neither orders nor accounts and runs no callback.
LEMMA QuietStep ==
    ASSUME IBook, NEW t \in Threads, NEW v, NEW r, pc[t] # "notify", v # "notify",
           pc' = [pc EXCEPT ![t] = v], op' = [op EXCEPT ![t] = r],
           v \in Working => pc[t] \in Working /\ r.oid = op[t].oid,
           UNCHANGED <<orders, order_counter, total_fees, acctVars>>
    PROVE  Booked'
<1> USE DEF IBook, Booked
<1>1. /\ pc'[t] = v /\ op'[t] = r
      /\ \A u \in Threads : u # t => pc'[u] = pc[u] /\ op'[u] = op[u]
    BY DEF IType, TypeOK
<1>2. OwnOrders'
    BY <1>1 DEF OwnOrders
<1>3. OrderPhases'
    BY <1>1 DEF OrderPhases, Working
<1>4. FeesDue'
    BY <1>1 DEF FeesDue, acctVars
<1>5. Due' = Due
    BY <1>1 DEF Due
<1>6. CreditedExactlyOnce'
    BY <1>5 DEF CreditedExactlyOnce, acctVars
<1> QED
    BY <1>2, <1>3, <1>4, <1>6

LEMMA NewOrderBooked ==
    ASSUME IBook, NEW t \in Threads, NEW side, NEW size, NEW next \in Working \ {"notify"},
           pc[t] = "start", NewOrder(t, side, size, next), UNCHANGED <<total_fees, acctVars>>
    PROVE  Booked'
<1> USE DEF IBook, Booked
<1> DEFINE n == order_counter + 1
           new == [Unused EXCEPT !.side = side, !.size = size, !.status = "pending"]
<1>1. order_counter \in Nat /\ order_counter' = n /\ n \in OrderIds
    BY ConstantsAssumption DEF NewOrder, IType, TypeOK, OrderIds
<1>2. /\ pc'[t] = next /\ op'[t].oid = n
      /\ \A u \in Threads : u # t => pc'[u] = pc[u] /\ op'[u] = op[u]
    BY DEF NewOrder, IType, TypeOK, OpType
<1>3. /\ orders'[n].status = "pending" /\ orders'[n].pnl = 0
      /\ \A o \in OrderIds : o # n => orders'[o] = orders[o]
  <2>1. new.status = "pending" /\ new.pnl = 0
      BY DEF Unused
  <2>2. orders' = [orders EXCEPT ![n] = new]
      BY DEF NewOrder
  <2> HIDE DEF new
  <2> QED
      BY <1>1, <2>1, <2>2 DEF IType, TypeOK
<1> HIDE DEF n
<1>4. \A u \in Threads : u # t /\ pc[u] \in Working => op[u].oid \in 1..order_counter /\ op[u].oid # n
    BY <1>1 DEF OwnOrders, n
<1>5. OwnOrders'
  <2>1. \A i \in 1..order_counter : i \in 1..n
      BY <1>1 DEF n
  <2>2. n \in 1..n
      BY <1>1 DEF n
  <2> QED
      BY <1>1, <1>2, <1>4, <2>1, <2>2 DEF OwnOrders
<1>6. OrderPhases'
  <2>1. \A o \in OrderIds : o > n => o > order_counter /\ o # n
      BY <1>1 DEF n, OrderIds
  <2>2. \A u \in Threads : u # t /\ pc[u] \in Working => op[u].oid \in OrderIds
      BY DEF IType
  <2> QED
      BY <1>1, <1>2, <1>3, <1>4, <2>1, <2>2 DEF OrderPhases, Working
<1>7. orders[n].status = "unused" /\ orders[n].pnl = 0
    BY <1>1 DEF OrderPhases, Unused, n
<1>8. FeesDue'
  <2>1. CASE \E o \in OrderIds : orders[o].status = "partial"
      BY <1>3, <1>7, <2>1 DEF FeesDue
  <2>2. CASE \E u \in Threads : pc[u] = "notify"
    <3>1. PICK u \in Threads : pc[u] = "notify"
        BY <2>2
    <3>2. pc'[u] = "notify"
        BY <1>2, <3>1
    <3> QED
        BY <3>2 DEF FeesDue
  <2> QED
      BY <2>1, <2>2 DEF FeesDue, acctVars
<1>9. Due' = Due
  <2>1. ASSUME NEW o \in OrderIds PROVE Due'[o] = Due[o]
    <3>1. CASE o = n
        BY <1>3, <1>7, <3>1 DEF Due
    <3>2. CASE o # n
        BY <1>2, <1>3, <3>2 DEF Due
    <3> QED
        BY <3>1, <3>2
  <2> QED
      BY <2>1 DEF Due
<1> QED
    BY <1>5, <1>6, <1>8, <1>9 DEF CreditedExactlyOnce, acctVars

LEMMA RejectBooked ==
    ASSUME IBook, NEW t \in Threads, pc[t] \in Working \ {"notify"}, Reject(t)
    PROVE  Booked'
<1> USE DEF IBook, Booked
<1> DEFINE n == op[t].oid
<1>1. n \in OrderIds /\ orders[n].status = "pending" /\ orders[n].pnl = 0
    BY DEF IType, OrderPhases
<1>2. /\ pc'[t] = "idle"
      /\ \A u \in Threads : u # t => pc'[u] = pc[u] /\ op'[u] = op[u]
    BY DEF Reject, IType, TypeOK
<1>3. /\ orders'[n].status = "rejected" /\ orders'[n].pnl = 0
      /\ \A o \in OrderIds : o # n => orders'[o] = orders[o]
    BY <1>1 DEF Reject, IType, TypeOK, OrderType
<1>4. \A u \in Threads : u # t /\ pc[u] \in Working => op[u].oid \in OrderIds /\ op[u].oid # n
    BY DEF OwnOrders, IType
<1>5. OwnOrders'
    BY <1>2 DEF OwnOrders, Reject, Working
<1> HIDE DEF n
<1>6. OrderPhases'
  <2>1. n <= order_counter
      BY DEF OwnOrders, n, IType, TypeOK
  <2>2. order_counter' = order_counter /\ order_counter \in Nat
      BY DEF Reject, IType, TypeOK
  <2>3. \A o \in OrderIds : o > order_counter => o # n
      BY <1>1, <2>1, <2>2 DEF OrderIds
  <2> QED
      BY <1>2, <1>3, <1>4, <2>2, <2>3 DEF OrderPhases, Working
<1>7. FeesDue'
  <2>1. CASE \E o \in OrderIds : orders[o].status = "partial"
      BY <1>1, <1>3, <2>1 DEF FeesDue
  <2>2. CASE \E u \in Threads : pc[u] = "notify"
    <3>1. PICK u \in Threads : pc[u] = "notify"
        BY <2>2
    <3>2. pc'[u] = "notify"
        BY <1>2, <3>1
    <3> QED
        BY <3>2 DEF FeesDue
  <2> QED
      BY <2>1, <2>2 DEF FeesDue, acctVars, Reject
<1>8. Due' = Due
  <2>1. ASSUME NEW o \in OrderIds PROVE Due'[o] = Due[o]
    <3>1. CASE o = n
        BY <1>1, <1>3, <3>1 DEF Due
    <3>2. CASE o # n
        BY <1>2, <1>3, <3>2 DEF Due
    <3> QED
        BY <3>1, <3>2
  <2> QED
      BY <2>1 DEF Due
<1> QED
    BY <1>5, <1>6, <1>7, <1>8 DEF CreditedExactlyOnce, acctVars, Reject

\* A settled order owes its PnL to capital until its callback.
LEMMA SettleBooked ==
    ASSUME IBook, IType', NEW t \in Threads, pc[t] \in Working \ {"notify"},
           NEW order \in OrderType, NEW p, Settle(t, order, p),
           order.status \in {"filled", "partial"}
    PROVE  Booked'
<1> USE DEF IBook, Booked
<1> DEFINE n == op[t].oid
<1>1. n \in OrderIds /\ orders[n].status = "pending" /\ orders[n].pnl = 0
    BY DEF IType, OrderPhases
<1>2. /\ pc'[t] = "notify" /\ op' = op
      /\ \A u \in Threads : u # t => pc'[u] = pc[u]
    BY DEF Settle, IType, TypeOK
<1>3. /\ orders'[n] = order
      /\ \A o \in OrderIds : o # n => orders'[o] = orders[o]
    BY <1>1 DEF Settle, IType, TypeOK
<1>4. \A u \in Threads : u # t /\ pc[u] \in Working => op[u].oid \in OrderIds /\ op[u].oid # n
    BY DEF OwnOrders, IType
<1>5. OwnOrders'
    BY <1>2 DEF OwnOrders, Settle, Working
<1>6. op[t].oid = n
    OBVIOUS
<1>9. n \in 1..order_counter
    BY DEF OwnOrders
<1> HIDE DEF n
<1>7. OrderPhases'
  <2>1. order_counter' = order_counter /\ \A o \in OrderIds : o > order_counter => o # n
      BY <1>9 DEF OrderIds, IType, TypeOK, Settle
  <2> QED
      BY <1>1, <1>2, <1>3, <1>4, <1>6, <2>1 DEF OrderPhases, Working
<1>8. FeesDue'
    BY <1>2 DEF FeesDue
<1>10. ChangedBy(Due, Due', MaxOrders, n, order.pnl)
  <2>1. Due[n] = 0
    <3>1. \A u \in Threads : pc[u] = "notify" => op[u].oid # n
        BY <1>4, <1>6 DEF Working
    <3> QED
        BY <1>1, <3>1 DEF Due
  <2>2. Due'[n] = order.pnl
      BY <1>1, <1>2, <1>3, <1>6 DEF Due
  <2>3. ASSUME NEW o \in OrderIds, o # n PROVE Due[o] = Due'[o]
    <3>1. orders'[o] = orders[o]
        BY <1>3, <2>3
    <3>2. (\E u \in Threads : pc'[u] = "notify" /\ op'[u].oid = o)
            <=> \E u \in Threads : pc[u] = "notify" /\ op[u].oid = o
        BY <1>2, <1>6, <2>3
    <3> QED
        BY <3>1, <3>2 DEF Due
  <2>4. order.pnl \in Nat
      BY DEF OrderType
  <2> QED
      BY <2>1, <2>2, <2>3, <2>4 DEF ChangedBy, OrderIds
<1>11. CreditedExactlyOnce'
  <2>1. order.pnl \in Int /\ realised \in Int /\ capital.pnl \in Int
      BY DEF OrderType, IType, TypeOK
  <2>2. realised' - capital'.pnl = (realised - capital.pnl) + order.pnl
      BY <2>1 DEF Settle
  <2> QED
      BY <1>1, <1>10, <2>1, <2>2, DueChanges
<1> QED
    BY <1>5, <1>7, <1>8, <1>11

LEMMA NotifyBooked ==
    ASSUME IBook, IType', NEW t \in Threads, Notify(t)
    PROVE  Booked'
<1> USE DEF IBook, Booked
<1> DEFINE n == op[t].oid
<1>1. pc[t] = "notify" /\ n \in OrderIds /\ orders[n].status \in {"filled", "partial"}
    BY DEF Notify, IType, OrderPhases, Working
<1>2. /\ pc'[t] = "idle" /\ UNCHANGED omVars /\ realised' = realised
      /\ \A u \in Threads : u # t => pc'[u] = pc[u] /\ op'[u] = op[u]
    BY DEF Notify, IType, TypeOK
<1>4. \A u \in Threads : u # t /\ pc[u] = "notify" => op[u].oid # n
    BY <1>1 DEF OwnOrders, Working
<1>5. OwnOrders'
    BY <1>2 DEF OwnOrders, omVars, Working
<1>6. OrderPhases'
    BY <1>2 DEF OrderPhases, omVars, Working
<1>7. /\ orders[n].status = "filled" =>
           capital'.pnl = capital.pnl + orders[n].pnl /\ capital'.fees = total_fees
      /\ orders[n].status # "filled" => capital' = capital
    BY DEF Notify
<1>8. n = op[t].oid
    OBVIOUS
<1> HIDE DEF n
<1>9. FeesDue'
    BY <1>1, <1>2, <1>7 DEF FeesDue, omVars
<1>10. \A o \in OrderIds : o # n =>
         ((\E u \in Threads : pc'[u] = "notify" /\ op'[u].oid = o)
            <=> \E u \in Threads : pc[u] = "notify" /\ op[u].oid = o)
    BY <1>2, <1>8
<1>11. \A o \in OrderIds : o # n => Due[o] = Due'[o]
    BY <1>2, <1>10 DEF Due, omVars
<1>12. CreditedExactlyOnce'
  <2>1. orders[n].pnl \in Int /\ realised \in Int /\ capital.pnl \in Int /\ Due[n] = orders[n].pnl
      BY <1>1, <1>8 DEF OrderType, IType, TypeOK, Due
  <2>2. CASE orders[n].status = "filled"
    <3>1. ~ \E u \in Threads : pc'[u] = "notify" /\ op'[u].oid = n
        BY <1>2, <1>4
    <3>2. Due'[n] = 0
        BY <1>1, <1>2, <2>2, <3>1 DEF Due, omVars
    <3>3. ChangedBy(Due, Due', MaxOrders, n, -orders[n].pnl)
        BY <1>11, <2>1, <3>2 DEF ChangedBy, OrderIds
    <3>4. realised' - capital'.pnl = (realised - capital.pnl) + (-orders[n].pnl)
        BY <1>2, <1>7, <2>1, <2>2
    <3> QED
        BY <1>1, <2>1, <3>3, <3>4, DueChanges
  <2>3. CASE orders[n].status = "partial"
    <3>1. Due'[n] = Due[n]
        BY <1>1, <1>2, <2>1, <2>3 DEF Due, omVars
    <3>2. Due' = Due
        BY <1>11, <3>1 DEF Due
    <3> QED
        BY <1>2, <1>7, <2>3, <3>2 DEF CreditedExactlyOnce
  <2> QED
      BY <1>1, <2>2, <2>3
<1> QED
    BY <1>5, <1>6, <1>9, <1>12

\* Orders that nobody has placed owe nothing.
LEMMA NothingDue == SumUpTo([o \in OrderIds |-> 0], MaxOrders) = 0
<1> DEFINE none == [o \in OrderIds |-> 0]
<1>1. none \in [1..MaxOrders -> Int] /\ \A k \in 1..MaxOrders : none[k] = 0
    BY DEF OrderIds
<1> HIDE DEF none
<1>2. SumUpTo(none, MaxOrders) = 0
    BY <1>1, ConstantsAssumption, SumZero
<1> QED
    BY <1>2 DEF none

LEMMA InitBooked == Init => Booked
<1> SUFFICES ASSUME Init PROVE Booked
    OBVIOUS
<1>1. OwnOrders /\ OrderPhases /\ FeesDue
    BY DEF Init, OwnOrders, OrderPhases, FeesDue, Unused, Working
<1>2. Due = [o \in OrderIds |-> 0]
    BY DEF Init, Due, Unused
<1>3. CreditedExactlyOnce
    BY <1>2, NothingDue DEF Init, CreditedExactlyOnce
<1> QED
    BY <1>1, <1>3 DEF Booked

LEMMA RestartBooked == Restart => Booked'
<1> SUFFICES ASSUME Restart PROVE Booked'
    OBVIOUS
<1>1. OwnOrders' /\ OrderPhases' /\ FeesDue'
    BY DEF Restart, OwnOrders, OrderPhases, FeesDue, Unused, Working
<1>2. Due' = [o \in OrderIds |-> 0]
    BY DEF Restart, Due, Unused
<1>3. CreditedExactlyOnce'
    BY <1>2, NothingDue DEF Restart, CreditedExactlyOnce
<1> QED
    BY <1>1, <1>3 DEF Booked

\* A call begins, or is one of those that change no account.
LEMMA CallerBooked ==
    ASSUME IBook, NEW t \in Threads, Engine(t) \/ Dashboard(t)
    PROVE  Booked'
<1>1. ASSUME NEW kind, NEW side, NEW q, NEW arg, Request(t, kind, side, q, arg)
      PROVE  Booked'
  <2> DEFINE r == [NoOp EXCEPT !.kind = kind, !.side = side, !.qty = q, !.arg = arg]
  <2>1. /\ pc[t] # "notify" /\ pc' = [pc EXCEPT ![t] = "start"] /\ op' = [op EXCEPT ![t] = r]
        /\ UNCHANGED <<orders, order_counter, total_fees, acctVars>>
      BY <1>1 DEF Request, omVars
  <2>2. "start" \notin Working
      BY DEF Working
  <2> HIDE DEF r
  <2> QED
      BY <2>1, <2>2, QuietStep
<1> QED
    BY <1>1 DEF Engine, Dashboard, SignalOpen, SignalClose, CloseAll, DashboardOpen, DashboardClose

\* What _open_* and _close_position settle is filled or partial.
LEMMA FilledStatus ==
    ASSUME NEW o \in OrderType, NEW q, NEW n
    PROVE  /\ Filled(o, q).status \in {"filled", "partial"}
           /\ [Filled(o, q) EXCEPT !.pnl = n].status \in {"filled", "partial"}
BY DEF Filled, OrderType

LEMMA ManagerBooked ==
    ASSUME IBook, IType', NEW t \in Threads, Manager(t)
    PROVE  Booked'
<1>1. CASE BeginOpen(t)
    BY <1>1, NewOrderBooked DEF BeginOpen, Working
<1>2. CASE BeginClose(t)
  <2>1. CASE position.size = 0
      BY <1>2, <2>1, QuietStep DEF BeginClose, Working
  <2>2. CASE position.size # 0
      BY <1>2, <2>2, NewOrderBooked DEF BeginClose, Working
  <2> QED
      BY <2>1, <2>2
<1>3. ASSUME NEW q \in Nat, NEW p, pc[t] \in Working \ {"notify"},
             \/ Settle(t, Filled(orders[op[t].oid], q), p)
             \/ Settle(t, [Filled(orders[op[t].oid], q) EXCEPT
                            !.pnl = CalculatePnl(position, q)], p)
      PROVE  Booked'
  <2>1. /\ Filled(orders[op[t].oid], q) \in OrderType
        /\ [Filled(orders[op[t].oid], q) EXCEPT !.pnl = CalculatePnl(position, q)] \in OrderType
      BY <1>3, SettledTypes DEF IBook
  <2>2. orders[op[t].oid] \in OrderType
      BY <1>3 DEF IBook, IType, TypeOK
  <2> QED
      BY <1>3, <2>1, <2>2, FilledStatus, SettleBooked
<1>4. CASE PaperFill(t)
  <2>1. op[t].qty \in Nat /\ pc[t] \in Working \ {"notify"}
      BY <1>4 DEF PaperFill, IBook, IType, TypeOK, OpType, Working
  <2> QED
      BY <1>3, <1>4, <2>1 DEF PaperFill
<1>5. CASE PollFilled(t)
  <2>1. xorders[op[t].oid].done \in Nat /\ pc[t] \in Working \ {"notify"}
      BY <1>5 DEF PollFilled, IBook, IType, TypeOK, XOrderType, Working
  <2> QED
      BY <1>3, <1>5, <2>1 DEF PollFilled
<1>6. CASE QueryPosition(t)
  <2>1. CASE exchange = 0
      BY <1>6, <2>1, QuietStep DEF QueryPosition, Working
  <2>2. CASE exchange # 0
    <3> DEFINE r == [op[t] EXCEPT !.side = Opposite(SideOf(exchange)), !.qty = Abs(exchange)]
    <3>1. pc' = [pc EXCEPT ![t] = "submit"] /\ op' = [op EXCEPT ![t] = r]
        BY <1>6, <2>2 DEF QueryPosition, IBook, IType, TypeOK
    <3>2. r.oid = op[t].oid /\ pc[t] = "query"
        BY <1>6 DEF QueryPosition, IBook, IType, TypeOK, OpType
    <3> HIDE DEF r
    <3> QED
        BY <1>6, <3>1, <3>2, QuietStep DEF QueryPosition, Working
  <2> QED
      BY <2>1, <2>2
<1>7. CASE Submit(t)
  <2>1. op' = [op EXCEPT ![t] = op[t]]
      BY <1>7 DEF Submit, IBook, IType, TypeOK
  <2> QED
      BY <1>7, <2>1, QuietStep DEF Submit, Accepted, omVars, Working
<1>8. CASE Notify(t)
    BY <1>8, NotifyBooked
<1>9. CASE QueryFails(t) \/ SubmitReplyLost(t) \/ SubmitRefused(t) \/ PollTimeout(t)
    BY <1>9, RejectBooked
    DEF QueryFails, SubmitReplyLost, SubmitRefused, PollTimeout, Accepted, Working
<1> QED
    BY <1>1, <1>2, <1>4, <1>5, <1>6, <1>7, <1>8, <1>9 DEF Manager

LEMMA BookedStep == IBook /\ [Next]_vars => IBook'
<1> SUFFICES ASSUME IBook, [Next]_vars PROVE IBook'
    OBVIOUS
<1>1. IType'
    BY TypeStep DEF IBook
<1>0. SUFFICES Booked'
    BY <1>1 DEF IBook
<1>2. ASSUME UNCHANGED <<omVars, acctVars, pc, op>>
      PROVE  Booked'
  <2>1. Due' = Due
      BY <1>2 DEF Due, omVars
  <2> QED
      BY <1>2, <2>1 DEF IBook, Booked, OwnOrders, OrderPhases, FeesDue, CreditedExactlyOnce, omVars, acctVars
<1>3. CASE UNCHANGED vars
    BY <1>2, <1>3 DEF vars, codeVars
<1>4. CASE Exchange
  <2>1. UNCHANGED <<omVars, acctVars, pc, op>>
      BY <1>4 DEF Exchange, ExchangeFill, ExchangeExpire
  <2> QED
      BY <1>2, <2>1
<1>5. ASSUME NEW t \in Threads, Engine(t) \/ Dashboard(t) \/ Manager(t) PROVE Booked'
    BY <1>1, <1>5, CallerBooked, ManagerBooked
<1> QED
    BY <1>3, <1>4, <1>5, RestartBooked DEF Next, Threads

\* Whatever the network does and however many threads are in the unlocked manager: every
\* realised PnL is credited once by its own callback or still to be credited, and capital
\* has paid all fees once nobody is in a call and no fill was partial.
THEOREM FillsReachTheAccount == Spec => []FillsBooked
<1>1. Init => IBook
    BY InitType, InitBooked DEF IBook
<1>2. IBook => FillsBooked
    BY DEF IBook, Booked, FillsBooked, FeesCharged, FeesDue, AllIdle
<1> QED
    BY <1>1, <1>2, BookedStep, PTL DEF Spec

-----------------------------------------------------------------------------
(***************************************************************************)
(* The position and the exchange, for one update thread in testnet mode    *)
(* and any dashboard threads, as long as the dashboard is not used.        *)
(***************************************************************************)

TestnetAlone(w) == Mode = "testnet" /\ EngineThreads = {w}

\* Every executed quantity is in the position, those of the order being polled apart.
OthersTaken(w) ==
    \A x \in OrderIds : xorders[x].taken = xorders[x].done \/ (pc[w] = "poll" /\ op[w].oid = x)

\* What the exchange executed of the order being polled.
InFlight(w) == IF pc[w] = "poll" THEN Sign(op[w].side) * xorders[op[w].oid].done ELSE 0

OnlyCaller(w) == pc[w] # "fill" /\ \A t \in Threads : t # w => pc[t] = "idle"

SideKept == position.size = 0 <=> position.side = "none"

\* An order is new at the exchange when it is posted, and nothing of it is taken before its poll.
ExchangeOrders(w) ==
    /\ \A x \in OrderIds : /\ xorders[x].taken <= xorders[x].done
                           /\ x > order_counter => xorders[x] = NoXOrder
    /\ pc[w] \in {"query", "submit"} => xorders[op[w].oid] = NoXOrder
    /\ pc[w] = "poll" => xorders[op[w].oid].side = op[w].side /\ xorders[op[w].oid].taken = 0

\* The position that an open found flat, and that a close found open, is so until the fill; and
\* a close goes against it, because the exchange it was read from is in step with it.
OpensFlat(w) == pc[w] \in {"start", "submit", "poll"} /\ op[w].kind = "open" => position.size = 0
ClosesOpen(w) ==
    /\ pc[w] = "query" => op[w].kind # "open"
    /\ pc[w] \in {"query", "submit", "poll"} /\ op[w].kind # "open" => position.size # 0
    /\ pc[w] \in {"submit", "poll"} /\ op[w].kind # "open" /\ OthersTaken(w) =>
           op[w].side = Opposite(SideOf(position.size))

Follows(w) == OthersTaken(w) => position.size = exchange - InFlight(w)

Following(w) ==
    /\ OnlyCaller(w) /\ SideKept /\ ExchangeOrders(w)
    /\ OpensFlat(w) /\ ClosesOpen(w) /\ Follows(w)

LEMMA SignedQuantity ==
    ASSUME NEW side, NEW q \in Int
    PROVE  /\ Sign(side) * q = IF side = "long" THEN q ELSE -q
           /\ \A r \in Int : Sign(side) * (q + r) = Sign(side) * q + Sign(side) * r
<1>1. CASE side = "long"
    BY <1>1 DEF Sign
<1>2. CASE side # "long"
    BY <1>2 DEF Sign
<1> QED
    BY <1>1, <1>2

\* A step of w that leaves the position and the exchange alone.
LEMMA CallKeepsFollowing ==
    ASSUME NEW w \in Threads, IBook, Following(w), NEW v \in {"idle", "start", "query", "submit"},
           NEW r \in OpType, pc' = [pc EXCEPT ![w] = v], op' = [op EXCEPT ![w] = r],
           UNCHANGED <<position, xVars>>, order_counter' \in Nat, order_counter <= order_counter',
           pc[w] # "poll",
           v = "start" /\ r.kind = "open" => position.size = 0,
           v = "query" => r.kind # "open" /\ position.size # 0,
           v \in {"query", "submit"} => xorders[r.oid] = NoXOrder,
           v = "submit" /\ r.kind = "open" => position.size = 0,
           v = "submit" /\ r.kind # "open" =>
               /\ position.size # 0
               /\ OthersTaken(w) => r.side = Opposite(SideOf(position.size))
    PROVE  Following(w)'
<1> USE DEF Following
<1>1. pc'[w] = v /\ op'[w] = r /\ \A t \in Threads : t # w => pc'[t] = pc[t]
    BY DEF IBook, IType, TypeOK
<1>2. /\ position' = position /\ exchange' = exchange /\ xorders' = xorders
    BY DEF xVars
<1>3. OnlyCaller(w)' /\ SideKept'
    BY <1>1, <1>2 DEF OnlyCaller, SideKept
<1>4. ExchangeOrders(w)'
  <2>1. \A x \in OrderIds : x > order_counter' => x > order_counter
      BY DEF IBook, IType, TypeOK, OrderIds
  <2> QED
      BY <1>1, <1>2, <2>1 DEF ExchangeOrders
<1>5. OthersTaken(w)' => OthersTaken(w)
    BY <1>1, <1>2 DEF OthersTaken
<1>6. OpensFlat(w)' /\ ClosesOpen(w)'
    BY <1>1, <1>2, <1>5 DEF OpensFlat, ClosesOpen
<1>7. InFlight(w) = 0 /\ InFlight(w)' = 0
    BY <1>1 DEF InFlight
<1>8. Follows(w)'
    BY <1>2, <1>5, <1>7 DEF Follows
<1> QED
    BY <1>3, <1>4, <1>6, <1>8

\* An order whose outcome is not known is given up: what it executed is not taken, or nothing.
LEMMA GivingUpKeepsFollowing ==
    ASSUME NEW w \in Threads, IBook, Following(w), pc[w] \in Working,
           pc' = [pc EXCEPT ![w] = "idle"], UNCHANGED <<position, order_counter, xVars>>
    PROVE  Following(w)'
<1> USE DEF Following
<1>1. pc'[w] = "idle" /\ \A t \in Threads : t # w => pc'[t] = pc[t]
    BY DEF IBook, IType, TypeOK
<1>2. /\ position' = position /\ exchange' = exchange /\ xorders' = xorders
    BY DEF xVars
<1>3. OnlyCaller(w)' /\ SideKept' /\ ExchangeOrders(w)' /\ OpensFlat(w)' /\ ClosesOpen(w)'
    BY <1>1, <1>2 DEF OnlyCaller, SideKept, ExchangeOrders, OpensFlat, ClosesOpen
<1>4. OthersTaken(w)' => OthersTaken(w)
    BY <1>1, <1>2 DEF OthersTaken
<1>5. ASSUME OthersTaken(w)' PROVE InFlight(w) = 0
  <2>1. CASE pc[w] # "poll"
      BY <2>1 DEF InFlight
  <2>2. CASE pc[w] = "poll"
    <3>1. op[w].oid \in OrderIds
        BY <2>2 DEF IBook, IType, Working
    <3>2. xorders[op[w].oid].done = 0
        BY <1>1, <1>2, <1>5, <2>2, <3>1 DEF OthersTaken, ExchangeOrders
    <3> QED
        BY <2>2, <3>2, SignedQuantity DEF InFlight
  <2> QED
      BY <2>1, <2>2
<1>6. InFlight(w)' = 0
    BY <1>1 DEF InFlight
<1>7. Follows(w)'
    BY <1>2, <1>4, <1>5, <1>6 DEF Follows
<1> QED
    BY <1>3, <1>7

\* The exchange takes the order; the reply reaches w or not.
LEMMA PostingKeepsFollowing ==
    ASSUME NEW w \in Threads, IBook, Following(w), Accepted(w), NEW v \in {"idle", "poll"},
           pc' = [pc EXCEPT ![w] = v], v = "poll" => op' = op,
           UNCHANGED <<position, order_counter>>
    PROVE  Following(w)'
<1> USE DEF Following
<1> DEFINE n == op[w].oid
           new == [NoXOrder EXCEPT !.side = op[w].side, !.left = FormatQuantity(op[w].qty)]
<1>1. pc'[w] = v /\ pc[w] = "submit" /\ \A t \in Threads : t # w => pc'[t] = pc[t]
    BY DEF IBook, IType, TypeOK, Accepted
<1>2. new.side = op[w].side /\ new.done = 0 /\ new.taken = 0
    BY DEF NoXOrder
<1>3. /\ exchange' = exchange /\ n \in OrderIds /\ xorders' = [xorders EXCEPT ![n] = new]
      /\ n <= order_counter /\ order_counter \in Nat
    BY <1>1 DEF Accepted, IBook, Booked, OwnOrders, IType, TypeOK, Working
<1>4. xorders[n] = NoXOrder
    BY <1>1 DEF ExchangeOrders
<1> HIDE DEF new
<1>5. xorders'[n] = new /\ \A x \in OrderIds : x # n => xorders'[x] = xorders[x]
    BY <1>3 DEF IBook, IType, TypeOK
<1>6. OnlyCaller(w)' /\ SideKept'
    BY <1>1 DEF OnlyCaller, SideKept
<1>7. ExchangeOrders(w)'
  <2>1. \A x \in OrderIds : x > order_counter => x # n
      BY <1>3 DEF OrderIds
  <2>2. 0 <= 0
      OBVIOUS
  <2> QED
      BY <1>1, <1>2, <1>3, <1>5, <2>1, <2>2 DEF ExchangeOrders
<1>8. OthersTaken(w)' => OthersTaken(w)
  <2>1. xorders[n].taken = xorders[n].done
      BY <1>4 DEF NoXOrder
  <2> QED
      BY <1>1, <1>5, <2>1 DEF OthersTaken
<1>9. OpensFlat(w)' /\ ClosesOpen(w)'
    BY <1>1, <1>8 DEF OpensFlat, ClosesOpen
<1>10. InFlight(w) = 0 /\ InFlight(w)' = 0
    BY <1>1, <1>2, <1>5, SignedQuantity DEF InFlight
<1>11. Follows(w)'
    BY <1>3, <1>8, <1>10 DEF Follows
<1> QED
    BY <1>6, <1>7, <1>9, <1>11

\* What was executed is taken: an open from flat, a close out of an open position.
LEMMA UpdateOpens ==
    ASSUME NEW p \in PositionType, NEW side \in Sides, NEW q \in Nat \ {0}, p.size = 0
    PROVE  /\ UpdatePosition(p, side, q).size = Sign(side) * q
           /\ UpdatePosition(p, side, q).side = side
           /\ Sign(side) * q # 0
BY UpdateFlat DEF Sign

LEMMA ReduceCloses ==
    ASSUME NEW p \in PositionType, NEW q \in Nat, p.size # 0, p.side # "none"
    PROVE  /\ ReducePosition(p, q).size = p.size + Sign(Opposite(SideOf(p.size))) * q
           /\ ReducePosition(p, q).size = 0 <=> ReducePosition(p, q).side = "none"
<1>1. p.size \in Int
    BY DEF PositionType
<1>2. CASE p.size > 0
    BY <1>1, <1>2 DEF ReducePosition, SideOf, Opposite, Sign
<1>3. CASE p.size < 0
    BY <1>1, <1>3 DEF ReducePosition, SideOf, Opposite, Sign
<1> QED
    BY <1>1, <1>2, <1>3

LEMMA FillKeepsFollowing ==
    ASSUME NEW w \in Threads, IBook, Following(w), PollFilled(w)
    PROVE  Following(w)'
<1> USE DEF Following
<1> DEFINE n == op[w].oid
           q == xorders[n].done
<1>1. /\ n \in OrderIds /\ q \in Nat \ {0} /\ op[w].side \in Sides /\ pc[w] = "poll"
      /\ n <= order_counter /\ order_counter \in Nat
      /\ position \in PositionType /\ exchange \in Int
    BY DEF PollFilled, IBook, Booked, OwnOrders, IType, TypeOK, XOrderType, Working, PositionType
<1>2. /\ pc' = [pc EXCEPT ![w] = "notify"] /\ op' = op /\ order_counter' = order_counter
      /\ exchange' = exchange /\ xorders' = [xorders EXCEPT ![n].taken = q]
      /\ op[w].kind = "open" => position' = UpdatePosition(position, op[w].side, q)
      /\ op[w].kind # "open" => position' = ReducePosition(position, q)
    BY DEF PollFilled, Settle
<1>3. pc'[w] = "notify" /\ \A t \in Threads : t # w => pc'[t] = pc[t]
    BY <1>2 DEF IBook, IType, TypeOK
<1>4. /\ xorders'[n].taken = q /\ xorders'[n].done = q
      /\ \A x \in OrderIds : x # n => xorders'[x] = xorders[x]
    BY <1>1, <1>2 DEF IBook, IType, TypeOK, XOrderType
<1>5. InFlight(w) = Sign(op[w].side) * q /\ InFlight(w)' = 0
    BY <1>1, <1>3 DEF InFlight
<1> HIDE DEF n, q
<1>6. OnlyCaller(w)' /\ OpensFlat(w)' /\ ClosesOpen(w)'
    BY <1>3 DEF OnlyCaller, OpensFlat, ClosesOpen
<1>7. ExchangeOrders(w)'
  <2>1. \A x \in OrderIds : x > order_counter => x # n
      BY <1>1 DEF OrderIds
  <2> QED
      BY <1>1, <1>2, <1>3, <1>4, <2>1 DEF ExchangeOrders
<1>8. OthersTaken(w)' => OthersTaken(w)
    BY <1>1, <1>3, <1>4 DEF OthersTaken, n
<1>9. CASE op[w].kind = "open"
  <2>1. position.size = 0
      BY <1>1, <1>9 DEF OpensFlat
  <2>2. position'.size = Sign(op[w].side) * q /\ position'.side = op[w].side /\ position'.size # 0
      BY <1>1, <1>2, <1>9, <2>1, UpdateOpens
  <2>3. SideKept'
      BY <1>1, <2>2 DEF SideKept, Sides
  <2>4. Follows(w)'
    <3>1. Sign(op[w].side) * q \in Int
        BY <1>1 DEF Sign
    <3> QED
        BY <1>1, <1>2, <1>5, <1>8, <2>1, <2>2, <3>1 DEF Follows
  <2> QED
      BY <1>6, <1>7, <2>3, <2>4
<1>10. CASE op[w].kind # "open"
  <2>1. position.size # 0 /\ position.side # "none"
      BY <1>1, <1>10 DEF ClosesOpen, SideKept
  <2>2. /\ position'.size = position.size + Sign(Opposite(SideOf(position.size))) * q
        /\ position'.size = 0 <=> position'.side = "none"
      BY <1>1, <1>2, <1>10, <2>1, ReduceCloses
  <2>3. SideKept'
      BY <2>2 DEF SideKept
  <2>4. ASSUME OthersTaken(w)' PROVE position'.size = exchange' - InFlight(w)'
    <3>1. op[w].side = Opposite(SideOf(position.size)) /\ position.size = exchange - InFlight(w)
        BY <1>1, <1>8, <1>10, <2>4 DEF ClosesOpen, Follows
    <3>2. position.size \in Int /\ InFlight(w) \in Int
        BY <1>1, <1>5 DEF PositionType, Sign
    <3>3. position'.size = position.size + InFlight(w)
        BY <1>5, <2>2, <3>1
    <3> QED
        BY <1>1, <1>2, <1>5, <3>1, <3>2, <3>3
  <2> QED
      BY <1>6, <1>7, <2>3, <2>4 DEF Follows
<1> QED
    BY <1>9, <1>10

\* The exchange executes an order: the one being polled, or one that is not taken then.
LEMMA ExecutionKeepsFollowing ==
    ASSUME NEW w \in Threads, IBook, Following(w), NEW x \in OrderIds,
           NEW q \in 1..xorders[x].left, ExchangeFill(x, q)
    PROVE  Following(w)'
<1> USE DEF Following
<1>1. /\ xorders[x].left \in Nat /\ xorders[x].done \in Nat /\ xorders[x].taken \in Nat
      /\ exchange \in Int /\ position.size \in Int /\ xorders \in [OrderIds -> XOrderType]
      /\ q \in Nat /\ q > 0 /\ xorders[x].left # 0
    BY DEF IBook, IType, TypeOK, XOrderType
<1>2. /\ UNCHANGED <<position, order_counter, pc, op>>
      /\ exchange' = exchange + Sign(xorders[x].side) * q
    BY DEF ExchangeFill, omVars
<1>3. /\ xorders'[x].done = xorders[x].done + q /\ xorders'[x].taken = xorders[x].taken
      /\ xorders'[x].side = xorders[x].side
      /\ \A y \in OrderIds : y # x => xorders'[y] = xorders[y]
    BY <1>1 DEF ExchangeFill, XOrderType
<1>4. OnlyCaller(w)' /\ SideKept' /\ OpensFlat(w)'
    BY <1>2 DEF OnlyCaller, SideKept, OpensFlat
<1>5. xorders[x] # NoXOrder
    BY <1>1 DEF NoXOrder
<1>6. xorders[x].taken < xorders'[x].done
    BY <1>1, <1>3 DEF ExchangeOrders
<1>7. ExchangeOrders(w)'
  <2>1. \A y \in OrderIds : y > order_counter => y # x
      BY <1>5 DEF ExchangeOrders
  <2>2. pc[w] \in {"query", "submit"} => op[w].oid # x
      BY <1>5 DEF ExchangeOrders
  <2>3. pc[w] \in Working => op[w].oid \in OrderIds
      BY DEF IBook, IType
  <2> QED
      BY <1>1, <1>2, <1>3, <1>6, <2>1, <2>2, <2>3 DEF ExchangeOrders, Working
<1>8. OthersTaken(w)' => OthersTaken(w) /\ pc[w] = "poll" /\ op[w].oid = x
    BY <1>1, <1>2, <1>3, <1>6 DEF OthersTaken
<1>9. ClosesOpen(w)'
    BY <1>2, <1>8 DEF ClosesOpen
<1>10. ASSUME OthersTaken(w)' PROVE position'.size = exchange' - InFlight(w)'
  <2>1. /\ pc[w] = "poll" /\ op[w].oid = x /\ op[w].side = xorders[x].side
        /\ position.size = exchange - InFlight(w)
      BY <1>8, <1>10 DEF ExchangeOrders, Follows
  <2> DEFINE a == Sign(xorders[x].side) * xorders[x].done
             b == Sign(xorders[x].side) * q
  <2>2. a \in Int /\ b \in Int
      BY <1>1 DEF Sign
  <2>3. InFlight(w) = a
      BY <2>1 DEF InFlight
  <2>4. InFlight(w)' = a + b
    <3>1. InFlight(w)' = Sign(xorders[x].side) * (xorders[x].done + q)
        BY <1>2, <1>3, <2>1 DEF InFlight
    <3>2. xorders[x].done \in Int /\ q \in Int
        BY <1>1
    <3> QED
        BY <3>1, <3>2, SignedQuantity
  <2>5. exchange' = exchange + b
      BY <1>2
  <2> HIDE DEF a, b
  <2> QED
      BY <1>1, <1>2, <2>1, <2>2, <2>3, <2>4, <2>5
<1> QED
    BY <1>4, <1>7, <1>9, <1>10 DEF Follows

LEMMA ExpiryKeepsFollowing ==
    ASSUME NEW w \in Threads, IBook, Following(w), NEW x \in OrderIds, ExchangeExpire(x)
    PROVE  Following(w)'
<1> USE DEF Following
<1>1. /\ UNCHANGED <<position, order_counter, pc, op, exchange>>
      /\ xorders[x].left # 0 /\ xorders \in [OrderIds -> XOrderType]
    BY DEF ExchangeExpire, omVars, IBook, IType, TypeOK, XOrderType
<1>2. /\ xorders'[x].done = xorders[x].done /\ xorders'[x].taken = xorders[x].taken
      /\ xorders'[x].side = xorders[x].side
      /\ \A y \in OrderIds : y # x => xorders'[y] = xorders[y]
    BY <1>1 DEF ExchangeExpire, XOrderType
<1>3. xorders[x] # NoXOrder
    BY <1>1 DEF NoXOrder
<1>4. pc[w] \in Working => op[w].oid \in OrderIds
    BY DEF IBook, IType
<1>5. ExchangeOrders(w)'
  <2>1. pc[w] \in {"query", "submit"} => op[w].oid # x
      BY <1>3 DEF ExchangeOrders
  <2> QED
      BY <1>1, <1>2, <1>3, <1>4, <2>1 DEF ExchangeOrders, Working
<1>6. OthersTaken(w)' <=> OthersTaken(w)
    BY <1>1, <1>2 DEF OthersTaken
<1>7. InFlight(w)' = InFlight(w)
    BY <1>1, <1>2, <1>4 DEF InFlight, Working
<1> QED
    BY <1>1, <1>5, <1>6, <1>7 DEF OnlyCaller, SideKept, OpensFlat, ClosesOpen, Follows

\* Everything that was executed is taken at once, when the position is read anew.
LEMMA TakenAtOnce ==
    ASSUME NEW w \in Threads, IBook, ExchangeOrders(w),
           xorders' = [x \in OrderIds |-> [xorders[x] EXCEPT !.taken = xorders[x].done]],
           NEW x \in OrderIds
    PROVE  /\ xorders'[x].taken <= xorders'[x].done
           /\ x > order_counter => xorders'[x] = NoXOrder
<1>1. xorders[x] \in XOrderType
    BY DEF IBook, IType, TypeOK
<1>2. xorders'[x].taken = xorders'[x].done /\ xorders'[x].done \in Nat
    BY <1>1 DEF XOrderType
<1>3. ASSUME x > order_counter PROVE xorders'[x] = NoXOrder
  <2>1. xorders[x] = NoXOrder
      BY <1>3 DEF ExchangeOrders
  <2>2. [NoXOrder EXCEPT !.taken = NoXOrder.done] = NoXOrder
      BY DEF NoXOrder
  <2> QED
      BY <2>1, <2>2
<1> QED
    BY <1>2, <1>3

\* A new process takes the exchange's position.
LEMMA RestartKeepsFollowing ==
    ASSUME NEW w \in Threads, IBook, Following(w), Restart
    PROVE  Following(w)'
<1> USE DEF Following
<1>1. /\ pc' = [t \in Threads |-> "idle"] /\ order_counter' = order_counter
      /\ position' = Synced /\ exchange' = exchange /\ exchange \in Int
      /\ xorders' = [x \in OrderIds |-> [xorders[x] EXCEPT !.taken = xorders[x].done]]
    BY DEF Restart, IBook, IType, TypeOK
<1>2. OnlyCaller(w)' /\ OpensFlat(w)' /\ ClosesOpen(w)'
    BY <1>1 DEF OnlyCaller, OpensFlat, ClosesOpen
<1>3. SideKept'
    BY <1>1 DEF SideKept, Synced, SideOf
<1>5. ExchangeOrders(w)'
    BY <1>1, TakenAtOnce DEF ExchangeOrders
<1>6. Follows(w)'
    BY <1>1 DEF Follows, InFlight, Synced
<1> QED
    BY <1>2, <1>3, <1>5, <1>6

LEMMA InitFollowing ==
    ASSUME NEW w \in Threads, Init
    PROVE  Following(w)
<1>1. OnlyCaller(w) /\ OpensFlat(w) /\ ClosesOpen(w) /\ SideKept /\ ExchangeOrders(w)
    BY DEF Init, OnlyCaller, OpensFlat, ClosesOpen, SideKept, ExchangeOrders, Synced, SideOf, NoXOrder
<1>2. exchange \in Int
    BY InitType DEF IType, TypeOK
<1>3. Follows(w)
    BY <1>2 DEF Init, Follows, InFlight, Synced
<1> QED
    BY <1>1, <1>3 DEF Following

LEMMA EngineKeepsFollowing ==
    ASSUME NEW w \in Threads, IBook, Following(w), Engine(w)
    PROVE  Following(w)'
<1>0. order_counter \in Nat /\ position.size \in Int /\ position \in PositionType
    BY DEF IBook, IType, TypeOK, OrderIds, PositionType
<1>1. ASSUME NEW kind \in {"open", "close"}, NEW side \in Sides \cup {"none"}, NEW q \in Nat,
             NEW arg \in Nat, Request(w, kind, side, q, arg), kind = "open" => position.size = 0
      PROVE  Following(w)'
  <2> DEFINE r == [NoOp EXCEPT !.kind = kind, !.side = side, !.qty = q, !.arg = arg]
  <2>1. r \in OpType /\ r.kind = kind
      BY DEF NoOp, OpType
  <2>2. /\ pc[w] = "idle" /\ pc' = [pc EXCEPT ![w] = "start"] /\ op' = [op EXCEPT ![w] = r]
        /\ UNCHANGED <<position, xVars, order_counter>>
      BY <1>1 DEF Request, omVars
  <2> HIDE DEF r
  <2>3. order_counter <= order_counter'
      BY <1>0, <2>2
  <2> QED
      BY <1>0, <1>1, <2>1, <2>2, <2>3, CallKeepsFollowing
<1>2. ASSUME NEW side \in Sides, NEW q \in Sizes, SignalOpen(w, side, q) PROVE Following(w)'
  <2>1. position.size = 0
      BY <1>0, <1>2 DEF SignalOpen, Following, SideKept, PositionType
  <2> QED
      BY <1>1, <1>2, <2>1, ConstantsAssumption DEF SignalOpen
<1>3. CASE SignalClose(w)
    BY <1>0, <1>1, <1>3, AbsNat DEF SignalClose
<1>4. CASE CloseAll(w)
    BY <1>1, <1>4 DEF CloseAll
<1> QED
    BY <1>2, <1>3, <1>4 DEF Engine

\* An order is created.
LEMMA OrderKeepsFollowing ==
    ASSUME NEW w \in Threads, IBook, Following(w), NEW side \in Sides, NEW size \in Nat,
           NEW next \in {"query", "submit"}, pc[w] = "start", NewOrder(w, side, size, next),
           op[w].kind = "open" => next = "submit", op[w].kind # "open" => next = "query",
           op[w].kind # "open" => position.size # 0,
           UNCHANGED <<position, xVars>>
    PROVE  Following(w)'
<1> DEFINE n == order_counter + 1
           r == [op[w] EXCEPT !.oid = n, !.side = side, !.qty = size]
<1>1. n \in OrderIds /\ order_counter' = n /\ order_counter \in Nat
    BY ConstantsAssumption DEF NewOrder, IBook, IType, TypeOK, OrderIds
<1>2. r \in OpType /\ r.oid = n /\ r.kind = op[w].kind
    BY <1>1 DEF IBook, IType, TypeOK, OpType
<1>3. pc' = [pc EXCEPT ![w] = next] /\ op' = [op EXCEPT ![w] = r]
    BY DEF NewOrder, IBook, IType, TypeOK
<1>4. xorders[n] = NoXOrder /\ n \in Nat /\ order_counter <= n
    BY <1>1 DEF Following, ExchangeOrders
<1>5. op[w].kind = "open" => position.size = 0
    BY DEF Following, OpensFlat
<1> HIDE DEF n, r
<1> QED
    BY <1>1, <1>2, <1>3, <1>4, <1>5, CallKeepsFollowing

LEMMA ManagerKeepsFollowing ==
    ASSUME NEW w \in Threads, Mode = "testnet", IBook, Following(w), Manager(w)
    PROVE  Following(w)'
<1>0. /\ order_counter \in Nat /\ position.size \in Int /\ order_counter <= order_counter
      /\ op[w] \in OpType /\ exchange \in Int
    BY DEF IBook, IType, TypeOK, OrderIds
<1>1. CASE BeginOpen(w)
  <2>1. op[w].side \in Sides /\ op[w].qty \in Nat
      BY <1>1 DEF BeginOpen, IBook, IType, TypeOK, OpType
  <2> QED
      BY <1>1, <2>1, OrderKeepsFollowing DEF BeginOpen
<1>2. CASE BeginClose(w)
  <2>1. CASE position.size = 0
      BY <1>0, <1>2, <2>1, CallKeepsFollowing, NoOpType DEF BeginClose
  <2>2. CASE position.size # 0
    <3> DEFINE side == Opposite(SideOf(position.size))
               size == IF op[w].arg = 0 THEN Abs(position.size) ELSE op[w].arg
    <3>1. side \in Sides /\ size \in Nat
        BY <1>0, AbsNat DEF Opposite, SideOf, Sides, OpType
    <3>2. NewOrder(w, side, size, "query")
        BY <1>2, <2>2 DEF BeginClose
    <3> HIDE DEF side, size
    <3> QED
        BY <1>2, <2>2, <3>1, <3>2, OrderKeepsFollowing DEF BeginClose
  <2> QED
      BY <2>1, <2>2
<1>3. CASE PaperFill(w)
    BY <1>3 DEF PaperFill, Following, OnlyCaller
<1>4. CASE QueryPosition(w)
  <2>1. CASE exchange = 0
    <3>1. /\ pc' = [pc EXCEPT ![w] = "idle"] /\ position' = Flat /\ exchange' = exchange
          /\ xorders' = [x \in OrderIds |-> [xorders[x] EXCEPT !.taken = xorders[x].done]]
          /\ order_counter' = order_counter
        BY <1>4, <2>1 DEF QueryPosition
    <3>2. pc'[w] = "idle" /\ \A t \in Threads : t # w => pc'[t] = pc[t]
        BY <3>1 DEF IBook, IType, TypeOK
    <3>3. OnlyCaller(w)' /\ OpensFlat(w)' /\ ClosesOpen(w)'
        BY <3>2 DEF Following, OnlyCaller, OpensFlat, ClosesOpen
    <3>4. SideKept' /\ Follows(w)'
        BY <2>1, <3>1, <3>2 DEF SideKept, Follows, InFlight, Flat
    <3>5. ExchangeOrders(w)'
        BY <3>1, <3>2, TakenAtOnce DEF ExchangeOrders, Following
    <3> QED
        BY <3>3, <3>4, <3>5 DEF Following
  <2>2. CASE exchange # 0
    <3> DEFINE r == [op[w] EXCEPT !.side = Opposite(SideOf(exchange)), !.qty = Abs(exchange)]
    <3>1. Opposite(SideOf(exchange)) \in Sides /\ Abs(exchange) \in Nat
        BY <1>0, AbsNat DEF Opposite, SideOf, Sides
    <3>2. /\ r \in OpType /\ r.side = Opposite(SideOf(exchange)) /\ r.oid = op[w].oid
          /\ r.kind = op[w].kind
        BY <1>0, <3>1 DEF OpType
    <3>3. /\ pc[w] = "query" /\ pc' = [pc EXCEPT ![w] = "submit"] /\ op' = [op EXCEPT ![w] = r]
          /\ UNCHANGED <<position, xVars, order_counter>>
        BY <1>4, <2>2 DEF QueryPosition, IBook, IType, TypeOK, xVars
    <3> HIDE DEF r
    <3>4. OthersTaken(w) => position.size = exchange
        BY <1>0, <3>3 DEF Following, Follows, InFlight
    <3>5. /\ op[w].kind # "open" /\ position.size # 0 /\ xorders[op[w].oid] = NoXOrder
        BY <3>3 DEF Following, ClosesOpen, ExchangeOrders
    <3> QED
        BY <1>0, <3>2, <3>3, <3>4, <3>5, CallKeepsFollowing
  <2> QED
      BY <2>1, <2>2
<1>5. CASE Submit(w)
    BY <1>5, PostingKeepsFollowing DEF Submit, omVars
<1>6. CASE SubmitReplyLost(w)
    BY <1>6, PostingKeepsFollowing DEF SubmitReplyLost, Reject
<1>7. CASE QueryFails(w) \/ SubmitRefused(w) \/ PollTimeout(w)
    BY <1>7, GivingUpKeepsFollowing DEF QueryFails, SubmitRefused, PollTimeout, Reject, Working
<1>8. CASE PollFilled(w)
    BY <1>8, FillKeepsFollowing
<1>9. CASE Notify(w)
    BY <1>0, <1>9, CallKeepsFollowing, NoOpType DEF Notify, omVars
<1> QED
    BY <1>1, <1>2, <1>3, <1>4, <1>5, <1>6, <1>7, <1>8, <1>9 DEF Manager

IFollow(w) == IBook /\ (~touched => Following(w))

LEMMA FollowStep ==
    ASSUME NEW w, TestnetAlone(w), IFollow(w), [Next]_vars
    PROVE  IFollow(w)'
<1>1. IBook' /\ w \in Threads
    BY BookedStep DEF IFollow, TestnetAlone, Threads
<1>2. SUFFICES ASSUME ~touched' PROVE Following(w)'
    BY <1>1 DEF IFollow
<1>3. CASE UNCHANGED vars
  <2>1. Following(w) /\ UNCHANGED <<position, exchange, xorders, order_counter, pc, op>>
      BY <1>2, <1>3 DEF IFollow, vars, codeVars, omVars, xVars
  <2> QED
      BY <2>1 DEF Following, OnlyCaller, SideKept, ExchangeOrders, OpensFlat, ClosesOpen, Follows,
                  OthersTaken, InFlight
<1>4. CASE Next
  <2>1. ~touched /\ Following(w) /\ IBook
      BY <1>2, <1>4 DEF Next, IFollow
  <2>2. \/ Engine(w) \/ Manager(w) \/ Exchange \/ Restart
        \/ \E t \in Threads : t # w /\ Manager(t)
      BY <1>2, <1>4 DEF Next, TestnetAlone
  <2>3. ASSUME NEW t \in Threads, t # w, Manager(t) PROVE FALSE
      BY <2>1, <2>3 DEF Following, OnlyCaller, Manager, BeginOpen, BeginClose, PaperFill,
                        QueryPosition, QueryFails, Submit, SubmitReplyLost, SubmitRefused,
                        Accepted, PollFilled, PollTimeout, Notify
  <2> QED
      BY <1>1, <2>1, <2>2, <2>3, EngineKeepsFollowing, ManagerKeepsFollowing, ExpiryKeepsFollowing,
         ExecutionKeepsFollowing, RestartKeepsFollowing DEF Exchange, TestnetAlone
<1> QED
    BY <1>3, <1>4

\* With one update thread and a dashboard that nobody uses, lost replies, partial fills,
\* timeouts and restarts included: when no call is in progress and every executed quantity was
\* taken into the position, the position is the exchange's.
THEOREM PositionFollowsExchange ==
    ASSUME NEW CONSTANT w, TestnetAlone(w)
    PROVE  Spec => []InStepWithExchange
<1>1. Init => IFollow(w)
    BY InitType, InitBooked, InitFollowing DEF IFollow, IBook, TestnetAlone, Threads
<1>2. IFollow(w) /\ [Next]_vars => IFollow(w)'
    BY FollowStep
<1>3. IFollow(w) => InStepWithExchange
  <2> SUFFICES ASSUME IFollow(w), ~touched, AllIdle,
                      \A x \in OrderIds : xorders[x].taken = xorders[x].done
               PROVE  position.size = exchange
      BY DEF InStepWithExchange
  <2>1. OthersTaken(w) /\ pc[w] = "idle" /\ Follows(w)
      BY DEF OthersTaken, AllIdle, IFollow, Following, TestnetAlone, Threads
  <2>2. InFlight(w) = 0 /\ exchange \in Int
      BY <2>1 DEF InFlight, IFollow, IBook, IType, TypeOK
  <2> QED
      BY <2>1, <2>2 DEF Follows
<1> QED
    BY <1>1, <1>2, <1>3, PTL DEF Spec

=============================================================================
