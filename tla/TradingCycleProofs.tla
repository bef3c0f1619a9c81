------------------------- MODULE TradingCycleProofs -------------------------
(***************************************************************************)
(* Theorems about the trading cycle, for every set of symbols, every limit *)
(* and every outcome of a close.                                           *)
(***************************************************************************)
EXTENDS TradingCycle, FiniteSetTheorems, Recursion, TLAPS

-----------------------------------------------------------------------------
(* The fail-safe. *)

\* positions stays a total function, and a tripped fail-safe means flat.
FailSafeInv ==
    /\ DOMAIN positions = Symbols
    /\ FailSafeFlattens

\* Whatever positions are closed and whatever they realise, the fail-safe that
\* is tripped afterwards has nothing open: either it was tripped and flat before,
\* or a loss of this close has tripped it and closed the others.
LEMMA CloseFlattens ==
    ASSUME NEW S, NEW P, FailSafeInv, Close(S, P), touched => touched'
    PROVE  FailSafeInv'
<1>1. PICK T \in {S, Held} : \E ps \in [1..Cardinality(T) -> PnLs] :
        LET alarm == After(ps, Cardinality(S)).alarm
        IN  /\ T = IF alarm THEN Held ELSE S
            /\ triggered' = (triggered \/ alarm)
            /\ positions' = [s \in Symbols |-> IF s \in T THEN 0 ELSE positions[s]]
  BY DEF Close
<1>2. PICK ps \in [1..Cardinality(T) -> PnLs] :
        LET alarm == After(ps, Cardinality(S)).alarm
        IN  /\ T = IF alarm THEN Held ELSE S
            /\ triggered' = (triggered \/ alarm)
            /\ positions' = [s \in Symbols |-> IF s \in T THEN 0 ELSE positions[s]]
  BY <1>1
<1> DEFINE alarm == After(ps, Cardinality(S)).alarm
<1>3. /\ T = IF alarm THEN Held ELSE S
      /\ triggered' = (triggered \/ alarm)
      /\ positions' = [s \in Symbols |-> IF s \in T THEN 0 ELSE positions[s]]
  BY <1>2
<1> HIDE DEF alarm
<1>4. DOMAIN positions' = Symbols
  BY <1>3
<1>5. ASSUME triggered', ~touched'
      PROVE  Flat'
  <2>1. CASE alarm
    BY <2>1, <1>3 DEF Held, Flat
  <2>2. CASE ~alarm
    <3>1. Flat
      BY <2>2, <1>3, <1>5 DEF FailSafeInv, FailSafeFlattens
    <3>2. QED
      BY <3>1, <1>3 DEF Held, Flat
  <2>3. QED
    BY <2>1, <2>2
<1>6. QED
  BY <1>4, <1>5 DEF FailSafeInv, FailSafeFlattens

\* A step that leaves the positions and the fail-safe alone keeps the invariant.
LEMMA Untouched ==
    ASSUME FailSafeInv, UNCHANGED <<positions, triggered>>, touched => touched'
    PROVE  FailSafeInv'
BY DEF FailSafeInv, FailSafeFlattens, Flat, Held

LEMMA FailSafeStep == FailSafeInv /\ [Next]_vars => FailSafeInv'
<1> SUFFICES ASSUME FailSafeInv, [Next]_vars PROVE FailSafeInv'
  OBVIOUS
<1>0. touched => touched'
  BY DEF Next, vars
<1>1. ASSUME NEW s \in Symbols, SignalIgnored(s) PROVE FailSafeInv'
  BY <1>0, <1>1, Untouched DEF SignalIgnored, money
<1>2. ASSUME NEW s \in Symbols, NEW side, SignalOpens(s, side) PROVE FailSafeInv'
  <2>1. ~triggered'
    BY <1>2 DEF SignalOpens, Executed, Gate, money
  <2>2. QED
    BY <2>1, <1>2 DEF SignalOpens, FailSafeInv, FailSafeFlattens
<1>3. ASSUME NEW s \in Symbols, SignalCloses(s) PROVE FailSafeInv'
  BY <1>0, <1>3, CloseFlattens DEF SignalCloses
<1>4. CASE SignalsDone
  BY <1>0, <1>4, Untouched DEF SignalsDone, money
<1>5. ASSUME NEW reason \in Breaches, RiskCheckFails(reason) PROVE FailSafeInv'
  BY <1>0, <1>5, CloseFlattens DEF RiskCheckFails, CloseAllPositions
<1>6. CASE RiskCheckPasses
  BY <1>0, <1>6, Untouched DEF RiskCheckPasses, money
<1>7. CASE DefenceHalts
  BY <1>0, <1>7, CloseFlattens DEF DefenceHalts, CloseAllPositions
<1>8. CASE DefencePasses
  BY <1>0, <1>8, Untouched DEF DefencePasses, money
<1>9. CASE BreachIgnored
  BY <1>0, <1>9, Untouched DEF BreachIgnored, money
<1>10. CASE BreachCloses
  BY <1>0, <1>10, CloseFlattens DEF BreachCloses, CloseAllPositions
<1>11. CASE BreachResets
  BY <1>0, <1>11, Untouched DEF BreachResets
<1>12. CASE BreachPublished
  BY <1>0, <1>12, CloseFlattens DEF BreachPublished, CloseAllPositions
<1>13. CASE EnforceStops
  BY <1>0, <1>13, CloseFlattens DEF EnforceStops
<1>14. ASSUME NEW midnight \in BOOLEAN, Sleep(midnight) PROVE FailSafeInv'
  BY <1>0, <1>14, Untouched DEF Sleep
<1>15. ASSUME NEW s \in Symbols, NEW size, DashboardOrders(s, size), touched' PROVE FailSafeInv'
  BY <1>15 DEF DashboardOrders, FailSafeInv, FailSafeFlattens
<1>16. ASSUME NEW s \in Symbols, DashboardCloses(s) PROVE FailSafeInv'
  BY <1>0, <1>16, CloseFlattens DEF DashboardCloses
<1>17. CASE UNCHANGED vars
  BY <1>0, <1>17, Untouched DEF vars, money
<1>18. QED
  BY <1>1, <1>2, <1>3, <1>4, <1>5, <1>6, <1>7, <1>8, <1>9, <1>10, <1>11, <1>12,
     <1>13, <1>14, <1>15, <1>16, <1>17 DEF Next, Cycle, Signals, Risk, Dashboard

\* The fail-safe of _on_order_filled and the gate of _on_signal_event together:
\* without the dashboard, no iteration ever leaves a tripped engine with a
\* position, whatever the number of symbols and the limits.
THEOREM FailSafe == Spec => []FailSafeFlattens
<1>1. Init => FailSafeInv
  BY DEF Init, FailSafeInv, FailSafeFlattens
<1>2. FailSafeInv => FailSafeFlattens
  BY DEF FailSafeInv
<1>3. QED
  BY <1>1, <1>2, FailSafeStep, PTL DEF Spec

-----------------------------------------------------------------------------
(* The account. *)

Accounts == [capital : Int, daily : Int, losses : 0..LossLimit]
Books == [account : Accounts, history : History, alarm : BOOLEAN]

\* What closes do to a book: capital and daily PnL move together, and a streak of losses
\* reaches its limit with an alarm.
Sound(b, gap, limit) ==
    /\ b.account.daily - b.account.capital = gap
    /\ b.account.losses = LossLimit => b.alarm \/ limit

LEMMA BookedSound ==
    ASSUME NEW b \in Books, NEW p \in Int, NEW gap \in Int, NEW limit \in BOOLEAN,
           Sound(b, gap, limit)
    PROVE  Booked(b, p) \in Books /\ Sound(Booked(b, p), gap, limit)
<1> DEFINE streak == IF p < 0 THEN Smaller(b.account.losses + 1, LossLimit)
                     ELSE IF p > 0 THEN 0 ELSE b.account.losses
<1>1. /\ b.account.capital \in Int /\ b.account.daily \in Int /\ b.account.losses \in 0..LossLimit
      /\ b.alarm \in BOOLEAN /\ LossLimit \in Nat \ {0}
    BY CycleAssumption DEF Books, Accounts
<1>2. streak \in 0..LossLimit /\ (streak = LossLimit => p < 0 \/ b.account.losses = LossLimit)
    BY <1>1 DEF Smaller
<1>3. /\ b.history.count + 1 \in Nat /\ b.history.sum + p \in Int
      /\ b.history.wins + (IF p > 0 THEN 1 ELSE 0) \in Nat
      /\ DayAfter(b.history.today, p) \in {"none", "lost", "won", "mixed"}
    BY DEF Books, History, DayAfter
<1> HIDE DEF streak
<1>4. Booked(b, p) = [account |-> [capital |-> b.account.capital + p,
                                   daily |-> b.account.daily + p, losses |-> streak],
                      history |-> [count |-> b.history.count + 1,
                                   wins |-> b.history.wins + (IF p > 0 THEN 1 ELSE 0),
                                   sum |-> b.history.sum + p,
                                   today |-> DayAfter(b.history.today, p)],
                      alarm |-> b.alarm \/ (p < 0 /\ streak = LossLimit)]
    BY DEF Booked, streak
<1>5. Booked(b, p) \in Books
    BY <1>1, <1>2, <1>3, <1>4 DEF Books, Accounts, History
<1>6. (b.account.daily + p) - (b.account.capital + p) = gap
    BY <1>1 DEF Sound
<1>7. streak = LossLimit => (b.alarm \/ (p < 0 /\ streak = LossLimit)) \/ limit
    BY <1>2 DEF Sound
<1>8. /\ Booked(b, p).account.daily = b.account.daily + p
      /\ Booked(b, p).account.capital = b.account.capital + p
      /\ Booked(b, p).account.losses = streak
      /\ Booked(b, p).alarm = (b.alarm \/ (p < 0 /\ streak = LossLimit))
    BY <1>4
<1> QED
    BY <1>5, <1>6, <1>7, <1>8 DEF Sound

\* However many closes are booked one after the other.
LEMMA AfterSound ==
    ASSUME NEW n \in Nat, NEW ps, \A i \in 1..n : ps[i] \in Int, NEW gap \in Int,
           NEW limit \in BOOLEAN, Before \in Books, Sound(Before, gap, limit)
    PROVE  After(ps, n) \in Books /\ Sound(After(ps, n), gap, limit)
<1> DEFINE Good == {b \in Books : Sound(b, gap, limit)}
           step == [x \in Nat \X Good |-> Booked(x[2], ps[x[1] + 1])]
           Defines(g) == g = [i \in 0..n |-> IF i = 0 THEN Before ELSE Booked(g[i - 1], ps[i])]
           book == CHOOSE g : Defines(g)
<1>1. Before \in Good
    OBVIOUS
<1>2. ASSUME NEW k \in 0..(n - 1), NEW b \in Good
      PROVE  step[<<k, b>>] = Booked(b, ps[k + 1]) /\ step[<<k, b>>] \in Good
  <2>1. k \in Nat /\ k + 1 \in 1..n
      OBVIOUS
  <2> QED
      BY <2>1, BookedSound
<1> HIDE DEF Good, step
<1>3. PICK f : Recurses(f, Before, step)
    BY RecursiveFunction
<1>4. Approximates(f, n, Before, step)
    BY <1>3 DEF Recurses, Approximates
<1>5. \A k \in 0..n : f[k] \in Good
  <2>1. \A k \in 0..(n - 1) : \A b \in Good : step[<<k, b>>] \in Good
      BY <1>2
  <2> QED
      BY <1>1, <1>4, <2>1, KeptByRecursion
<1> DEFINE r == [k \in 0..n |-> f[k]]
<1>6. Defines(r)
  <2>1. ASSUME NEW i \in 0..n, i # 0 PROVE f[i] = Booked(f[i - 1], ps[i])
    <3>1. i - 1 \in 0..(n - 1) /\ i - 1 \in 0..n /\ (i - 1) + 1 = i
        BY <2>1
    <3>2. f[i] = step[<<i - 1, f[i - 1]>>]
        BY <1>4, <3>1 DEF Approximates
    <3> QED
        BY <1>2, <1>5, <3>1, <3>2
  <2>2. f[0] = Before
      BY <1>3 DEF Recurses
  <2> QED
      BY <2>1, <2>2
<1>7. Defines(book)
    BY <1>6
<1>8. After(ps, n) = book[n]
    BY DEF After
<1> HIDE DEF book
<1>9. \A k \in 0..n : book[k] \in Good
  <2>1. book[0] = Before /\ \A i \in 1..n : book[i] = Booked(book[i - 1], ps[i])
      BY <1>7
  <2> DEFINE P == {k \in Nat : k <= n => book[k] \in Good}
  <2>2. 0 \in P
      BY <1>1, <2>1
  <2>3. ASSUME NEW k \in P PROVE k + 1 \in P
    <3>1. CASE k + 1 <= n
      <4>1. k \in 0..(n - 1) /\ k + 1 \in 1..n /\ (k + 1) - 1 = k /\ book[k] \in Good
          BY <3>1
      <4>2. book[k + 1] = Booked(book[k], ps[k + 1])
          BY <2>1, <4>1
      <4>3. book[k + 1] \in Good
          BY <1>2, <4>1, <4>2
      <4> QED
          BY <4>3
    <3> QED
        BY <3>1
  <2> HIDE DEF P
  <2>4. \A k \in Nat : k \in P
      BY <2>2, <2>3, Induction DEF P
  <2> QED
      BY <2>4 DEF P
<1>10. book[n] \in Good
    BY <1>9
<1> QED
    BY <1>8, <1>10 DEF Good

\* A close leaves a well-formed account whose daily PnL moved with its capital.
Closed ==
    /\ positions' \in [Symbols -> {-FullSize, -1, 0, 1, FullSize}]
    /\ account' \in Accounts /\ history' \in History /\ triggered' \in BOOLEAN
    /\ account'.losses = LossLimit => triggered'
    /\ account'.daily - account'.capital = account.daily - account.capital

LEMMA CloseCloses ==
    ASSUME TypeOK, NEW S, NEW P, Close(S, P)
    PROVE  Closed
<1>1. PICK T \in {S, Held} : \E ps \in [1..Cardinality(T) -> PnLs] :
        LET alarm == After(ps, Cardinality(S)).alarm
        IN  /\ S \subseteq Held
            /\ T = IF alarm THEN Held ELSE S
            /\ Settled(ps, Cardinality(T))
            /\ triggered' = (triggered \/ alarm)
            /\ positions' = [s \in Symbols |-> IF s \in T THEN 0 ELSE positions[s]]
  BY DEF Close
<1>2. PICK ps \in [1..Cardinality(T) -> PnLs] :
        LET alarm == After(ps, Cardinality(S)).alarm
        IN  /\ S \subseteq Held
            /\ T = IF alarm THEN Held ELSE S
            /\ Settled(ps, Cardinality(T))
            /\ triggered' = (triggered \/ alarm)
            /\ positions' = [s \in Symbols |-> IF s \in T THEN 0 ELSE positions[s]]
  BY <1>1
<1> DEFINE m == Cardinality(S)
           n == Cardinality(T)
           alarm == After(ps, m).alarm
           gap == account.daily - account.capital
           limit == account.losses = LossLimit
<1>3. /\ S \subseteq Held /\ T = (IF alarm THEN Held ELSE S)
      /\ account' = After(ps, n).account /\ history' = After(ps, n).history
      /\ triggered' = (triggered \/ alarm)
      /\ positions' = [s \in Symbols |-> IF s \in T THEN 0 ELSE positions[s]]
  BY <1>2 DEF Settled
<1>4. IsFiniteSet(Held) /\ m \in Nat /\ n \in Nat /\ m <= n
  <2>1. IsFiniteSet(Held)
    BY CycleAssumption, FS_Subset DEF Held
  <2>2. S \subseteq T /\ IsFiniteSet(T) /\ IsFiniteSet(S)
    BY <1>3, <2>1, FS_Subset
  <2>3. QED
    BY <2>1, <2>2, FS_CardinalityType, FS_Subset
<1>5. Before \in Books /\ Sound(Before, gap, limit) /\ gap \in Int /\ limit \in BOOLEAN
  BY DEF TypeOK, Before, Books, Accounts, Sound
<1>6. \A i \in 1..n : ps[i] \in Int
  BY <1>2, CycleAssumption
<1> HIDE DEF m, n, gap, limit
<1>7. After(ps, n) \in Books /\ Sound(After(ps, n), gap, limit)
  BY <1>4, <1>5, <1>6, AfterSound
<1>8. After(ps, m) \in Books
  <2>1. \A i \in 1..m : ps[i] \in Int
    BY <1>4, <1>6
  <2>2. QED
    BY <1>4, <1>5, <2>1, AfterSound
<1>9. alarm \in BOOLEAN
  BY <1>8 DEF Books
<1>10. account'.losses = LossLimit => triggered'
  <2>1. CASE alarm
    BY <1>3, <2>1
  <2>2. CASE ~alarm
    <3>1. n = m
      BY <1>3, <2>2 DEF n, m
    <3>2. account'.losses = LossLimit => limit
      BY <1>3, <1>7, <2>2, <3>1 DEF Sound
    <3>3. limit => triggered
      BY DEF limit, TypeOK
    <3>4. QED
      BY <1>3, <3>2, <3>3
  <2>3. QED
    BY <2>1, <2>2
<1> HIDE DEF alarm
<1>11. account' \in Accounts /\ history' \in History /\ triggered' \in BOOLEAN
  BY <1>3, <1>7, <1>9 DEF Books, TypeOK
<1>12. positions' \in [Symbols -> {-FullSize, -1, 0, 1, FullSize}]
  BY <1>3 DEF TypeOK
<1>13. account'.daily - account'.capital = account.daily - account.capital
  BY <1>3, <1>7 DEF Sound, gap
<1>14. QED
  BY <1>10, <1>11, <1>12, <1>13 DEF Closed

Tracking == TypeOK /\ DailyTracksCapital

\* Where only a close touches the money, what it is measured from stands.
LEMMA ClosedTracks ==
    ASSUME Tracking, Closed, UNCHANGED <<start, loaded>>
    PROVE  DailyTracksCapital'
<1>1. account'.daily \in Int /\ account'.capital \in Int
  BY DEF Closed, Accounts
<1>2. account.daily \in Int /\ account.capital \in Int /\ start \in Int /\ loaded \in Int
  BY DEF Tracking, TypeOK
<1>3. /\ account.daily = account.capital - start + loaded
      /\ account'.daily - account'.capital = account.daily - account.capital
      /\ start' = start /\ loaded' = loaded
  BY DEF Tracking, DailyTracksCapital, Closed
<1>4. account'.daily = account'.capital - start + loaded
  <2> DEFINE a == account.daily
             b == account.capital
             c == account'.daily
             d == account'.capital
  <2>1. /\ a \in Int /\ b \in Int /\ c \in Int /\ d \in Int /\ start \in Int /\ loaded \in Int
        /\ a = b - start + loaded /\ c - d = a - b
    BY <1>1, <1>2, <1>3
  <2> HIDE DEF a, b, c, d
  <2>2. c = d - start + loaded
    BY <2>1
  <2>3. QED
    BY <2>2 DEF c, d
<1>5. QED
  BY <1>3, <1>4 DEF DailyTracksCapital

LEMMA ReferencesBounded ==
    /\ \A n \in 0..TradeCooldown : Smaller(n + 1, TradeCooldown) \in 0..TradeCooldown
    /\ \A n \in 0..BreachCooldown : Smaller(n + 1, BreachCooldown) \in 0..BreachCooldown
    /\ \A a, b \in Int : Larger(a, b) \in Int /\ Larger(a, b) >= a
BY CycleAssumption DEF Smaller, Larger

LEMMA TrackingStep == Tracking /\ [Next]_vars => Tracking'
<1> SUFFICES ASSUME Tracking, [Next]_vars PROVE Tracking'
  OBVIOUS
<1> USE DEF Tracking
<1>0. TypeOK
  OBVIOUS
<1>1. ASSUME NEW s \in Symbols, Executed(s) PROVE /\ idleFor' \in [Symbols -> 0..TradeCooldown]
                                                 /\ defensive' \in BOOLEAN /\ todo' \subseteq Symbols
                                                 /\ UNCHANGED <<pc, riskVars, newDay>>
  BY <1>1, CycleAssumption DEF Executed, Looked, TypeOK
<1>2. ASSUME NEW s \in Symbols, SignalIgnored(s) PROVE Tracking'
  BY <1>2 DEF SignalIgnored, Looked, TypeOK, DailyTracksCapital, money, riskVars
<1>3. ASSUME NEW s \in Symbols, NEW side \in {-1, 1}, SignalOpens(s, side) PROVE Tracking'
  <2>1. side * Size \in {-FullSize, -1, 1, FullSize}
    BY DEF Size, FullSize
  <2>2. positions' \in [Symbols -> {-FullSize, -1, 0, 1, FullSize}]
    BY <1>3, <2>1 DEF SignalOpens, TypeOK
  <2>3. Executed(s) /\ UNCHANGED money
    BY <1>3 DEF SignalOpens
  <2>4. QED
    BY <1>1, <2>2, <2>3 DEF TypeOK, DailyTracksCapital, money, riskVars
<1>4. ASSUME NEW s \in Symbols, SignalCloses(s) PROVE Tracking'
  <2>1. Executed(s) /\ Closed
    BY <1>0, <1>4, CloseCloses DEF SignalCloses
  <2>2. QED
    BY <1>1, <2>1, ClosedTracks DEF TypeOK, riskVars, Closed, Accounts
<1>5. CASE SignalsDone
  BY <1>5 DEF SignalsDone, TypeOK, DailyTracksCapital, money, riskVars
<1>6. ASSUME NEW reason \in Breaches, RiskCheckFails(reason) PROVE Tracking'
  <2>1. Closed
    BY <1>0, <1>6, CloseCloses DEF RiskCheckFails, CloseAllPositions
  <2>2. QED
    BY <1>6, <2>1, ClosedTracks DEF RiskCheckFails, TypeOK, riskVars, Closed, Accounts
<1>7. CASE RiskCheckPasses
  BY <1>7 DEF RiskCheckPasses, TypeOK, DailyTracksCapital, money, riskVars
<1>8. CASE DefenceHalts
  <2>1. Closed
    BY <1>0, <1>8, CloseCloses DEF DefenceHalts, CloseAllPositions
  <2>2. QED
    BY <1>8, <2>1, ClosedTracks DEF DefenceHalts, TypeOK, riskVars, Closed, Accounts, Breaches
<1>9. CASE DefencePasses
  BY <1>9 DEF DefencePasses, TypeOK, DailyTracksCapital, money, riskVars
<1>10. CASE BreachIgnored
  BY <1>10 DEF BreachIgnored, TypeOK, DailyTracksCapital, money, riskVars
<1>11. CASE BreachCloses
  <2>1. Closed
    BY <1>0, <1>11, CloseCloses DEF BreachCloses, CloseAllPositions
  <2>2. QED
    BY <1>11, <2>1, ClosedTracks DEF BreachCloses, TypeOK, riskVars, Closed, Accounts
<1>12. CASE BreachResets
  <2>1. /\ sinceBreach' = 0 /\ pc' = "halted"
        /\ account' = IF pc = "daily" THEN [account EXCEPT !.daily = 0] ELSE account
        /\ start' = IF pc = "daily" THEN account.capital ELSE start
        /\ loaded' = IF pc = "daily" THEN 0 ELSE loaded
        /\ peak' = IF pc = "drawdown" THEN account.capital ELSE peak
        /\ UNCHANGED <<todo, positions, history, triggered, defensive, idleFor, newDay>>
    BY <1>12 DEF BreachResets
  <2>2. account' \in Accounts /\ account'.losses = account.losses /\ account'.capital = account.capital
    BY <2>1, <1>0 DEF TypeOK, Accounts
  <2>3. start' \in Int /\ loaded' \in Int /\ peak' \in Int /\ sinceBreach' \in 0..BreachCooldown
    BY <2>1, <1>0, CycleAssumption DEF TypeOK
  <2>4. TypeOK'
    BY <2>1, <2>2, <2>3, <1>0 DEF TypeOK, Accounts
  <2>5. DailyTracksCapital'
    <3>1. CASE pc = "daily"
      <4>1. account'.daily = 0 /\ start' = account.capital /\ loaded' = 0 /\ account.capital \in Int
        BY <2>1, <3>1, <1>0 DEF TypeOK
      <4>2. QED
        BY <2>2, <4>1 DEF DailyTracksCapital
    <3>2. CASE pc # "daily"
      BY <2>1, <3>2 DEF DailyTracksCapital
    <3>3. QED
      BY <3>1, <3>2
  <2>6. QED
    BY <2>4, <2>5
<1>13. CASE BreachPublished
  <2>1. Closed
    BY <1>0, <1>13, CloseCloses DEF BreachPublished, CloseAllPositions
  <2>2. QED
    BY <1>13, <2>1, ClosedTracks DEF BreachPublished, TypeOK, riskVars, Closed, Accounts
<1>14. CASE EnforceStops
  <2>1. Closed
    BY <1>0, <1>14, CloseCloses DEF EnforceStops
  <2>2. peak' \in Int
    BY <1>14, <2>1, ReferencesBounded DEF EnforceStops, TypeOK, Closed, Accounts
  <2>3. QED
    BY <1>14, <2>1, <2>2, ClosedTracks DEF EnforceStops, TypeOK, Closed, Accounts
<1>15. ASSUME NEW midnight \in BOOLEAN, Sleep(midnight) PROVE Tracking'
  <2>1. idleFor' \in [Symbols -> 0..TradeCooldown] /\ sinceBreach' \in 0..BreachCooldown
    BY <1>15, ReferencesBounded DEF Sleep, TypeOK
  <2>2. history' \in History
    BY <1>15 DEF Sleep, TypeOK, History
  <2>3. QED
    BY <1>15, <2>1, <2>2 DEF Sleep, TypeOK, DailyTracksCapital
<1>16. ASSUME NEW s \in Symbols, NEW size \in {-FullSize, 0, FullSize}, DashboardOrders(s, size)
       PROVE  Tracking'
  BY <1>16 DEF DashboardOrders, TypeOK, DailyTracksCapital, money, riskVars
<1>17. ASSUME NEW s \in Symbols, DashboardCloses(s) PROVE Tracking'
  <2>1. Closed
    BY <1>0, <1>17, CloseCloses DEF DashboardCloses
  <2>2. QED
    BY <1>17, <2>1, ClosedTracks DEF DashboardCloses, TypeOK, riskVars, Closed, Accounts
<1>18. CASE UNCHANGED vars
  BY <1>18 DEF vars, TypeOK, DailyTracksCapital, money, riskVars
<1>19. QED
  BY <1>2, <1>3, <1>4, <1>5, <1>6, <1>7, <1>8, <1>9, <1>10, <1>11, <1>12, <1>13, <1>14,
     <1>15, <1>16, <1>17, <1>18 DEF Next, Cycle, Signals, Risk, Dashboard

LEMMA TrackingInit == Init => Tracking
<1> SUFFICES ASSUME Init PROVE Tracking
  OBVIOUS
<1>1. history \in History /\ DailyOf(history) \in Int
  BY CycleAssumption DEF Init
<1>2. /\ account = [capital |-> InitialCapital, daily |-> DailyOf(history), losses |-> 0]
      /\ loaded = DailyOf(history) /\ start = InitialCapital /\ InitialCapital \in Int
      /\ LossLimit \in Nat \ {0} /\ 0 \in 0..LossLimit
  BY CycleAssumption DEF Init
<1>3. DailyTracksCapital
  BY <1>1, <1>2 DEF DailyTracksCapital
<1>4. account \in Accounts /\ account.losses # LossLimit
  BY <1>1, <1>2 DEF Accounts
<1>5. /\ idleFor \in [Symbols -> 0..TradeCooldown] /\ sinceBreach \in 0..BreachCooldown
      /\ positions \in [Symbols -> {-FullSize, -1, 0, 1, FullSize}]
  BY CycleAssumption DEF Init
<1>6. TypeOK
  <2>1. /\ pc = "signals" /\ todo = Symbols /\ triggered = FALSE /\ defensive = FALSE
        /\ newDay = FALSE /\ peak = 0 /\ start \in Int /\ loaded \in Int
    BY <1>1, <1>2 DEF Init
  <2>2. /\ account \in [capital : Int, daily : Int, losses : 0..LossLimit]
        /\ account.losses = LossLimit => triggered
    BY <1>4 DEF Accounts
  <2>3. triggered \in BOOLEAN /\ defensive \in BOOLEAN /\ newDay \in BOOLEAN
    BY <2>1
  <2>4. peak \in Int /\ todo \subseteq Symbols
    BY <2>1
  <2>5. pc \in {"signals", "risk", "defence", "stops", "halted", "sleep"} \cup Breaches
    BY <2>1
  <2>6. history \in History
    BY <1>1
  <2>7. QED
    BY <1>5, <2>1, <2>2, <2>3, <2>4, <2>5, <2>6 DEF TypeOK
<1>7. QED
  BY <1>3, <1>6 DEF Tracking

\* The account stays well formed, and a streak of losses at its limit has tripped the fail-safe,
\* however many closes one event causes.
THEOREM CycleTypeCorrect == Spec => []TypeOK
<1>1. Tracking => TypeOK
  BY DEF Tracking
<1>2. QED
  BY <1>1, TrackingInit, TrackingStep, PTL DEF Spec

\* Across fills, stops, fail-safe cascades and breach resets the daily PnL is what capital gained
\* since the start capital it is compared with, and what start took from Redis.
THEOREM DailyReconciles == Spec => []DailyTracksCapital
<1>1. Tracking => DailyTracksCapital
  BY DEF Tracking
<1>2. QED
  BY <1>1, TrackingInit, TrackingStep, PTL DEF Spec

-----------------------------------------------------------------------------
(* The gates and the references of the limits. *)

\* A flat engine has nothing to close, so a close books nothing.
LEMMA NothingToClose ==
    ASSUME TypeOK, Flat, NEW S, NEW P, Close(S, P)
    PROVE  Flat' /\ account' = account /\ history' = history /\ triggered' = triggered
<1>1. PICK T \in {S, Held} : \E ps \in [1..Cardinality(T) -> PnLs] :
        LET alarm == After(ps, Cardinality(S)).alarm
        IN  /\ S \subseteq Held
            /\ Settled(ps, Cardinality(T))
            /\ triggered' = (triggered \/ alarm)
            /\ positions' = [s \in Symbols |-> IF s \in T THEN 0 ELSE positions[s]]
  BY DEF Close
<1>2. S = {} /\ T = {} /\ Cardinality({}) = 0
  BY <1>1, FS_EmptySet DEF Flat
<1>3. PICK ps : /\ Settled(ps, 0) /\ triggered' = (triggered \/ After(ps, 0).alarm)
                /\ positions' = [s \in Symbols |-> positions[s]]
  BY <1>1, <1>2
<1>4. After(ps, 0) = Before
  <2> DEFINE Defines(g) == g = [i \in 0..0 |-> IF i = 0 THEN Before ELSE Booked(g[i - 1], ps[i])]
             book == CHOOSE g : Defines(g)
  <2>1. Defines([i \in 0..0 |-> Before])
    OBVIOUS
  <2>2. Defines(book)
    BY <2>1
  <2>3. After(ps, 0) = book[0]
    BY DEF After
  <2> HIDE DEF book
  <2>4. QED
    BY <2>2, <2>3
<1>5. account' = account /\ history' = history /\ triggered' = triggered
  BY <1>3, <1>4 DEF Settled, Before, TypeOK
<1>6. Flat'
  BY <1>3 DEF Flat, Held
<1>7. QED
  BY <1>5, <1>6

\* A shut gate that stays as it was.
LEMMA ShutStays ==
    ASSUME Shut, history' = history, triggered' = triggered
    PROVE  Shut'
BY DEF Shut, Expectancy

LEMMA IdleStep ==
    ASSUME TypeOK, [Next]_vars, Flat, Shut, ~touched'
    PROVE  Flat' /\ Shut'
<1>1. ASSUME UNCHANGED <<positions, history, triggered>> PROVE Flat' /\ Shut'
  BY <1>1, ShutStays DEF Flat, Held
<1>2. ASSUME NEW S, NEW P, Close(S, P) PROVE Flat' /\ Shut'
  BY <1>2, NothingToClose, ShutStays
<1>3. ASSUME NEW s \in Symbols, Executed(s) PROVE FALSE
  BY <1>3 DEF Executed, Gate, Shut, RuinAllows
<1>4. ASSUME NEW midnight \in BOOLEAN, Sleep(midnight) PROVE Flat' /\ Shut'
  <2>1. Flat' /\ triggered' = triggered
    BY <1>4 DEF Sleep, Flat, Held
  <2>2. CASE midnight
    <3>1. history'.today = "none"
      BY <1>4, <2>2 DEF Sleep, TypeOK, History
    <3>2. QED
      BY <2>1, <3>1 DEF Shut
  <2>3. CASE ~midnight
    BY <1>4, <2>1, <2>3, ShutStays DEF Sleep
  <2>4. QED
    BY <2>2, <2>3
<1>5. CASE Signals
  BY <1>1, <1>3, <1>5 DEF Signals, SignalIgnored, SignalCloses, SignalOpens, money
<1>6. CASE Risk
  BY <1>1, <1>2, <1>6 DEF Risk, RiskCheckFails, RiskCheckPasses, DefenceHalts, DefencePasses,
                          BreachIgnored, BreachCloses, BreachResets, BreachPublished,
                          CloseAllPositions, money
<1>7. CASE SignalsDone \/ UNCHANGED vars
  BY <1>1, <1>7 DEF SignalsDone, vars, money
<1>8. CASE EnforceStops
  BY <1>2, <1>8 DEF EnforceStops
<1>9. QED
  BY <1>4, <1>5, <1>6, <1>7, <1>8 DEF Next, Cycle

\* The gates of _on_signal_event latch, for any symbols and limits: a flat engine whose history
\* fails the expectancy gate, whose day has no close yet or whose fail-safe has tripped stays
\* flat and shut as long as nobody uses the dashboard.
THEOREM ShutForGood == Spec => IdleForever
<1>1. Tracking /\ [Next]_vars => [Flat /\ Shut /\ ~touched' => Flat' /\ Shut']_vars
  BY IdleStep DEF Tracking
<1>2. QED
  BY <1>1, TrackingInit, TrackingStep, PTL DEF Spec, IdleForever

LEMMA ReferencesStep ==
    ASSUME TypeOK, [Next]_vars, peak' < peak \/ start' # start
    PROVE  sinceBreach = BreachCooldown /\ sinceBreach' = 0 /\ Flat'
<1>0. peak \in Int /\ ~(peak < peak)
  BY DEF TypeOK
<1>1. ASSUME UNCHANGED <<peak, start>> PROVE FALSE
  BY <1>0, <1>1
<1>2. CASE EnforceStops
  <2>1. account'.capital \in Int
    BY <1>2, CloseCloses DEF EnforceStops, Closed, Accounts
  <2>2. peak' \in Int /\ peak' >= peak /\ start' = start
    BY <1>0, <1>2, <2>1, ReferencesBounded DEF EnforceStops
  <2>3. QED
    BY <1>0, <2>2
<1>3. CASE BreachResets
  <2>1. Flat' /\ sinceBreach = BreachCooldown /\ sinceBreach' = 0
    BY <1>3 DEF BreachResets, Flat, Held
  <2>2. QED
    BY <2>1
<1>4. CASE Signals \/ SignalsDone
  BY <1>1, <1>4 DEF Signals, SignalsDone, SignalIgnored, SignalCloses, SignalOpens, Executed,
                    Looked, riskVars
<1>5. CASE Risk
  BY <1>1, <1>3, <1>5 DEF Risk, RiskCheckFails, RiskCheckPasses, DefenceHalts, DefencePasses,
                          BreachIgnored, BreachCloses, BreachPublished, riskVars
<1>6. ASSUME NEW midnight \in BOOLEAN, Sleep(midnight) PROVE FALSE
  BY <1>1, <1>6 DEF Sleep
<1>7. CASE Dashboard
  BY <1>1, <1>7 DEF Dashboard, DashboardOrders, DashboardCloses, riskVars
<1>8. CASE UNCHANGED vars
  BY <1>1, <1>8 DEF vars, riskVars
<1>9. QED
  BY <1>2, <1>4, <1>5, <1>6, <1>7, <1>8 DEF Next, Cycle

\* _handle_risk_breach, for any cooldown: the peak is lowered and the start capital moved only by
\* a breach after a whole cooldown without one, on a flat engine.
THEOREM ReferencesRest == Spec => ReferencesMoveRarely
<1>1. Tracking /\ [Next]_vars
        => [peak' < peak \/ start' # start
             => sinceBreach = BreachCooldown /\ sinceBreach' = 0 /\ Flat']_vars
  BY ReferencesStep DEF Tracking
<1>2. QED
  BY <1>1, TrackingInit, TrackingStep, PTL DEF Spec, ReferencesMoveRarely
=============================================================================
