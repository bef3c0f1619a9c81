----------------------------- MODULE TowerProofs -----------------------------
(* Theorems about the parts of MCTower, for every value of their constants. *)
EXTENDS MCTower, Recursion, SequenceTheorems, TLAPS

-----------------------------------------------------------------------------
(* The Telegram bot. *)

BotRecords == [alive : BOOLEAN, offset : Nat, batch : Seq(Nat), busy : BOOLEAN,
               placed : [1..MaxUpdates -> Nat]]

\* A bot goes through its batch in the order of the updates, and all that lies before the
\* update it is at, of n, is done.
Consecutive(q, n) ==
    /\ \A i \in 1..Len(q) : q[i] = q[1] + i - 1
    /\ q # <<>> => q[1] \in 1..n /\ q[Len(q)] <= n
InOrder(r, n, done) ==
    /\ r.offset <= n + 1 /\ 1 .. r.offset - 1 \subseteq done
    /\ Consecutive(r.batch, n)
    /\ r.batch # <<>> => r.offset <= r.batch[1] /\ 1 .. r.batch[1] - 1 \subseteq done
    /\ r.busy => r.batch # <<>>

\* An order is sent for the update at hand, or was for one that lies behind.
OrdersBehind(r) ==
    \A u \in 1..MaxUpdates :
        r.placed[u] <= 1 /\ (r.placed[u] > 0 => u < r.offset \/ (r.busy /\ u = r.batch[1]))

BotOf(r, n, done) == r \in BotRecords /\ InOrder(r, n, done) /\ OrdersBehind(r)

BotType ==
    /\ installed \in BOOLEAN /\ up \in BOOLEAN /\ crashes \in 0..MaxCrashes
    /\ updates \in Seq(Bot!Kinds) /\ Len(updates) <= MaxUpdates
    /\ confirmed \in 0..Len(updates) /\ answered \subseteq 1..Len(updates)
    /\ script \in [Bot!Bots -> Bot!ScriptStates]

BotInv ==
    /\ BotType
    /\ DOMAIN bot = Bot!Bots /\ bot = [b \in Bot!Bots |-> bot[b]]
    /\ \A b \in Bot!Bots : BotOf(bot[b], Len(updates), answered)
    /\ Bot!NoneForgotten

LEMMA NewBots ==
    ASSUME TowerAssumption, NEW n \in Nat, NEW done
    PROVE  BotOf(Bot!Fresh, n, done) /\ BotOf(Bot!Dead, n, done)
<1>1. /\ Bot!Fresh \in BotRecords /\ Bot!Fresh.offset = 0 /\ Bot!Fresh.batch = <<>>
      /\ Bot!Fresh.busy = FALSE /\ \A u \in 1..MaxUpdates : Bot!Fresh.placed[u] = 0
    BY DEF Bot!Fresh, BotRecords
<1>2. /\ Bot!Dead \in BotRecords /\ Bot!Dead.offset = 0 /\ Bot!Dead.batch = <<>>
      /\ Bot!Dead.busy = FALSE /\ \A u \in 1..MaxUpdates : Bot!Dead.placed[u] = 0
    BY <1>1 DEF Bot!Dead, BotRecords
<1>3. ASSUME NEW r \in BotRecords, r.offset = 0, r.batch = <<>>, r.busy = FALSE,
             \A u \in 1..MaxUpdates : r.placed[u] = 0
      PROVE  BotOf(r, n, done)
    BY <1>3 DEF BotOf, InOrder, Consecutive, OrdersBehind
<1> QED
    BY <1>1, <1>2, <1>3

\* More updates and more that are done do not matter to a bot.
LEMMA BotsStay ==
    ASSUME NEW r, NEW n \in Nat, NEW m \in Nat, n <= m, NEW done, NEW more, done \subseteq more,
           BotOf(r, n, done)
    PROVE  BotOf(r, m, more)
<1>1. r.offset \in Nat /\ r.batch \in Seq(Nat)
    BY DEF BotOf, BotRecords
<1>2. Consecutive(r.batch, m)
  <2>1. r.batch # <<>> => Len(r.batch) \in 1..Len(r.batch) /\ r.batch[Len(r.batch)] \in Nat
      BY <1>1, EmptySeq, LenProperties, ElementOfSeq
  <2> QED
      BY <2>1 DEF BotOf, InOrder, Consecutive
<1> QED
    BY <1>1, <1>2 DEF BotOf, InOrder

LEMMA BotsStepKeepsInv ==
    ASSUME TowerAssumption, BotInv, NEW b \in Bot!Bots, NEW new,
           bot' = [bot EXCEPT ![b] = new],
           updates' = updates, answered \subseteq answered', BotType',
           BotOf(new, Len(updates), answered'), Bot!NoneForgotten'
    PROVE  BotInv'
<1>1. \A c \in Bot!Bots : bot'[c] = IF c = b THEN new ELSE bot[c]
    BY DEF BotInv
<1>2. Len(updates) \in Nat
    BY LenProperties DEF BotInv, BotType
<1>3. ASSUME NEW c \in Bot!Bots PROVE BotOf(bot'[c], Len(updates), answered')
  <2>1. BotOf(bot[c], Len(updates), answered)
      BY DEF BotInv
  <2>2. BotOf(bot[c], Len(updates), answered')
      BY <2>1, <1>2, BotsStay
  <2> QED
      BY <1>1, <2>2
<1> QED
    BY <1>3 DEF BotInv

LEMMA SendKeepsInv ==
    ASSUME TowerAssumption, BotInv, NEW kind \in Bot!Kinds, Bot!Send(kind) PROVE BotInv'
<1>1. Len(updates) \in Nat /\ Len(updates') = Len(updates) + 1 /\ updates' \in Seq(Bot!Kinds)
    BY LenProperties, AppendProperties DEF Bot!Send, BotInv, BotType
<1>2. BotType'
    BY <1>1 DEF Bot!Send, BotInv, BotType, TowerAssumption, Bot!WatchtowerAssumption
<1>3. \A b \in Bot!Bots : BotOf(bot[b], Len(updates'), answered)
    BY <1>1, BotsStay DEF BotInv
<1> QED
    BY <1>2, <1>3 DEF BotInv, Bot!Send, Bot!NoneForgotten

LEMMA PollKeepsInv ==
    ASSUME TowerAssumption, BotInv, NEW b \in Bot!Bots, Bot!PollUpdates(b) PROVE BotInv'
<1> DEFINE n == Len(updates)
           q == [i \in 1..(n - confirmed') |-> confirmed' + i]
           new == [bot[b] EXCEPT !.batch = q]
<1>1. /\ n \in Nat /\ confirmed \in 0..n /\ BotOf(bot[b], n, answered)
      /\ bot[b].offset \in Nat /\ bot[b] \in BotRecords
      /\ bot[b].offset <= n + 1 /\ 1 .. bot[b].offset - 1 \subseteq answered
      /\ 1..confirmed \subseteq answered
    BY LenProperties DEF BotInv, BotType, BotOf, BotRecords, InOrder, Bot!NoneForgotten
<1>2. /\ confirmed' = IF bot[b].offset > confirmed THEN bot[b].offset - 1 ELSE confirmed
      /\ bot' = [bot EXCEPT ![b] = new] /\ ~bot[b].busy
      /\ UNCHANGED <<installed, updates, script, up, answered, crashes>>
    BY DEF Bot!PollUpdates
<1>3. /\ confirmed' \in 0..n /\ 1..confirmed' \subseteq answered
      /\ bot[b].offset <= confirmed' + 1
    BY <1>1, <1>2
<1>4. /\ q \in Seq(Nat) /\ Len(q) = n - confirmed'
      /\ \A i \in 1..Len(q) : q[i] = confirmed' + i
    BY <1>1, <1>3
<1> HIDE DEF q
<1>5. /\ new \in BotRecords /\ new.batch = q /\ new.offset = bot[b].offset
      /\ new.busy = FALSE /\ new.placed = bot[b].placed
    BY <1>1, <1>2, <1>4 DEF BotRecords
<1> HIDE DEF new
<1>6. q # <<>> => Len(q) >= 1
    BY <1>4, EmptySeq
<1>7. Consecutive(q, n)
    BY <1>3, <1>4, <1>6, <1>1 DEF Consecutive
<1>8. InOrder(new, n, answered)
    BY <1>1, <1>3, <1>4, <1>5, <1>6, <1>7 DEF InOrder
<1>9. OrdersBehind(new)
    BY <1>1, <1>2, <1>5 DEF OrdersBehind, BotOf
<1>10. BotType' /\ Bot!NoneForgotten'
    BY <1>2, <1>3 DEF BotInv, BotType, Bot!NoneForgotten
<1> QED
    BY <1>2, <1>5, <1>8, <1>9, <1>10, BotsStepKeepsInv DEF BotOf

LEMMA RestOfBatch ==
    ASSUME NEW n \in Nat, NEW q \in Seq(Nat), q # <<>>, Consecutive(q, n)
    PROVE  /\ Tail(q) \in Seq(Nat) /\ Consecutive(Tail(q), n)
           /\ Tail(q) # <<>> => Tail(q)[1] = q[1] + 1
<1>1. /\ Len(q) \in Nat \ {0} /\ q[1] \in 1..n /\ q[Len(q)] <= n
      /\ \A i \in 1..Len(q) : q[i] = q[1] + i - 1
    BY LenProperties, EmptySeq DEF Consecutive
<1>2. /\ Tail(q) \in Seq(Nat) /\ Len(Tail(q)) = Len(q) - 1
      /\ \A i \in 1..Len(Tail(q)) : Tail(q)[i] = q[i + 1]
    BY HeadTailProperties
<1>3. Tail(q) # <<>> => Len(q) >= 2
    BY <1>1, <1>2, EmptySeq
<1>4. ASSUME NEW i \in 1..Len(Tail(q)) PROVE Tail(q)[i] = q[1] + i
  <2>1. i \in Nat /\ i + 1 \in 1..Len(q)
      BY <1>1, <1>2
  <2>2. q[i + 1] = q[1] + (i + 1) - 1
      BY <1>1, <2>1
  <2> QED
      BY <1>1, <1>2, <2>1, <2>2
<1>5. Tail(q) # <<>> => Tail(q)[1] = q[1] + 1
    BY <1>1, <1>2, <1>3, <1>4
<1>6. ASSUME NEW i \in 1..Len(Tail(q)) PROVE Tail(q)[i] = Tail(q)[1] + i - 1
  <2>1. 1 \in 1..Len(Tail(q)) /\ i \in Nat
      BY <1>1, <1>2
  <2>2. Tail(q)[i] = q[1] + i /\ Tail(q)[1] = q[1] + 1
      BY <1>4, <2>1
  <2> QED
      BY <1>1, <2>1, <2>2
<1>7. ASSUME Tail(q) # <<>> PROVE Tail(q)[1] \in 1..n /\ Tail(q)[Len(Tail(q))] <= n
  <2>1. Len(q) >= 2 /\ Len(q) \in 1..Len(q) /\ Len(q) - 1 \in 1..Len(Tail(q))
      BY <1>1, <1>2, <1>3, <1>7
  <2>2. q[Len(q)] = q[1] + Len(q) - 1
      BY <1>1, <2>1
  <2>3. Tail(q)[Len(q) - 1] = q[1] + (Len(q) - 1)
      BY <1>4, <2>1
  <2> QED
      BY <1>1, <1>2, <1>5, <1>7, <2>1, <2>2, <2>3
<1> QED
    BY <1>2, <1>5, <1>6, <1>7 DEF Consecutive

LEMMA AfterUpdate ==
    ASSUME NEW n \in Nat, NEW done, NEW r \in BotRecords, BotOf(r, n, done), r.batch # <<>>,
           NEW new, new = [alive |-> r.alive, offset |-> Head(r.batch) + 1, batch |-> Tail(r.batch),
                           busy |-> FALSE, placed |-> r.placed]
    PROVE  BotOf(new, n, done \cup {Head(r.batch)}) /\ Head(r.batch) \in 1..n
<1>1. PICK q \in Seq(Nat), u, o \in Nat : q = r.batch /\ u = q[1] /\ o = r.offset
    BY DEF BotRecords
<1>2. /\ u \in 1..n /\ Head(q) = u /\ o <= u /\ 1 .. u - 1 \subseteq done /\ q # <<>>
      /\ Consecutive(q, n)
    BY <1>1 DEF BotOf, InOrder, Consecutive
<1>3. /\ Tail(q) \in Seq(Nat) /\ Consecutive(Tail(q), n)
      /\ Tail(q) # <<>> => Tail(q)[1] = u + 1
    BY <1>1, <1>2, RestOfBatch
<1>4. u + 1 \in Nat /\ u + 1 <= n + 1 /\ 1 .. (u + 1) - 1 \subseteq done \cup {u}
    BY <1>2
<1>5. /\ new \in BotRecords /\ new.batch = Tail(q) /\ new.offset = u + 1
      /\ new.busy = FALSE /\ new.placed = r.placed
    BY <1>1, <1>2, <1>3, <1>4 DEF BotRecords
<1>6. InOrder(new, n, done \cup {u})
  <2>1. new.offset <= n + 1 /\ 1 .. new.offset - 1 \subseteq done \cup {u}
      BY <1>4, <1>5
  <2>2. ASSUME new.batch # <<>>
        PROVE  new.offset <= new.batch[1] /\ 1 .. new.batch[1] - 1 \subseteq done \cup {u}
    <3>1. new.batch[1] = u + 1
        BY <1>3, <1>5, <2>2
    <3>2. new.offset = new.batch[1] /\ new.offset \in Nat
        BY <1>4, <1>5, <3>1
    <3>3. new.offset <= new.offset
        BY <3>2
    <3> QED
        BY <2>1, <3>2, <3>3, Zenon
  <2> QED
      BY <1>3, <1>5, <2>1, <2>2 DEF InOrder
<1>7. OrdersBehind(new)
  <2>1. ASSUME NEW v \in 1..MaxUpdates
        PROVE  r.placed[v] <= 1 /\ (r.placed[v] > 0 => v < u + 1)
      BY <1>1, <1>2 DEF BotOf, OrdersBehind
  <2> QED
      BY <1>5, <2>1 DEF OrdersBehind
<1> QED
    BY <1>1, <1>2, <1>5, <1>6, <1>7 DEF BotOf

\* The update at hand is done with.
LEMMA DoneKeepsInv ==
    ASSUME TowerAssumption, BotInv, NEW b \in Bot!Bots, bot[b].batch # <<>>, Bot!Done(b),
           script' \in [Bot!Bots -> Bot!ScriptStates]
    PROVE  BotInv'
<1> DEFINE new == [alive |-> bot[b].alive, offset |-> Head(bot[b].batch) + 1,
                   batch |-> Tail(bot[b].batch), busy |-> FALSE, placed |-> bot[b].placed]
<1>1. Len(updates) \in Nat /\ BotOf(bot[b], Len(updates), answered) /\ bot[b] \in BotRecords
    BY LenProperties DEF BotInv, BotType, BotOf
<1>2. /\ bot' = [bot EXCEPT ![b] = new] /\ answered' = answered \cup {Head(bot[b].batch)}
      /\ UNCHANGED <<installed, updates, confirmed, up, crashes>>
    BY DEF Bot!Done
<1> HIDE DEF new
<1>3. BotOf(new, Len(updates), answered') /\ Head(bot[b].batch) \in 1..Len(updates)
    BY <1>1, <1>2, AfterUpdate DEF new
<1>4. BotType' /\ Bot!NoneForgotten'
    BY <1>2, <1>3 DEF BotInv, BotType, Bot!NoneForgotten
<1> QED
    BY <1>2, <1>3, <1>4, BotsStepKeepsInv

LEMMA PlaceKeepsInv ==
    ASSUME TowerAssumption, BotInv, NEW b \in Bot!Bots, Bot!Place(b) PROVE BotInv'
<1> DEFINE r == bot[b]
           u == Head(r.batch)
           new == Bot!Placing(r)
<1>1. /\ bot' = [bot EXCEPT ![b] = new] /\ r.batch # <<>> /\ ~r.busy
      /\ UNCHANGED <<installed, updates, confirmed, script, up, answered, crashes>>
    BY DEF Bot!Place, Bot!Handles
<1>2. /\ r \in BotRecords /\ InOrder(r, Len(updates), answered) /\ OrdersBehind(r)
      /\ Len(updates) \in Nat /\ Len(updates) <= MaxUpdates /\ MaxUpdates \in Nat
    BY LenProperties
    DEF BotInv, BotType, BotOf, TowerAssumption, Bot!WatchtowerAssumption
<1>3. /\ u = r.batch[1] /\ u \in 1..Len(updates) /\ r.offset <= u /\ r.offset \in Nat
    BY <1>1, <1>2 DEF InOrder, Consecutive, BotRecords
<1>4. u \in 1..MaxUpdates /\ r.placed[u] = 0 /\ r.placed \in [1..MaxUpdates -> Nat]
  <2>1. u \in 1..MaxUpdates /\ r.placed \in [1..MaxUpdates -> Nat]
      BY <1>2, <1>3 DEF BotRecords
  <2> HIDE DEF u
  <2>2. ~(r.placed[u] > 0)
      BY <1>1, <1>2, <1>3, <2>1 DEF OrdersBehind
  <2>3. r.placed[u] \in Nat
      BY <2>1
  <2>4. r.placed[u] = 0
      BY <2>2, <2>3
  <2> QED
      BY <2>1, <2>4
<1> HIDE DEF u
<1>5. /\ new \in BotRecords /\ new.offset = r.offset /\ new.batch = r.batch /\ new.busy
      /\ new.placed = [r.placed EXCEPT ![u] = @ + 1]
    BY <1>2, <1>4 DEF BotRecords, Bot!Placing, u
<1> HIDE DEF new
<1>6. InOrder(new, Len(updates), answered)
    BY <1>1, <1>2, <1>5 DEF InOrder
<1>7. OrdersBehind(new)
  <2>1. ASSUME NEW v \in 1..MaxUpdates
        PROVE  new.placed[v] <= 1 /\ (new.placed[v] > 0 => v < new.offset \/ v = u)
      BY <1>1, <1>2, <1>4, <1>5 DEF OrdersBehind
  <2> QED
      BY <1>3, <1>5, <2>1 DEF OrdersBehind
<1> QED
    BY <1>1, <1>5, <1>6, <1>7, BotsStepKeepsInv DEF BotOf, BotInv, BotType, Bot!NoneForgotten

LEMMA RunScriptKeepsInv ==
    ASSUME TowerAssumption, BotInv, NEW b \in Bot!Bots, NEW kinds, NEW first \in Bot!ScriptStates,
           Bot!RunScript(b, kinds, first)
    PROVE  BotInv'
<1> DEFINE new == [bot[b] EXCEPT !.busy = TRUE]
<1>1. /\ bot' = [bot EXCEPT ![b] = new] /\ script' = [script EXCEPT ![b] = first]
      /\ bot[b].batch # <<>> /\ ~bot[b].busy
      /\ UNCHANGED <<installed, updates, confirmed, up, answered, crashes>>
    BY DEF Bot!RunScript, Bot!Handles
<1>2. BotOf(bot[b], Len(updates), answered) /\ bot[b] \in BotRecords
    BY DEF BotInv, BotOf
<1>3. /\ new \in BotRecords /\ new.offset = bot[b].offset /\ new.batch = bot[b].batch
      /\ new.placed = bot[b].placed
    BY <1>2 DEF BotRecords
<1> HIDE DEF new
<1>4. BotOf(new, Len(updates), answered)
    BY <1>1, <1>2, <1>3 DEF BotOf, InOrder, OrdersBehind
<1> QED
    BY <1>1, <1>4, BotsStepKeepsInv DEF BotInv, BotType, Bot!NoneForgotten

\* Bots die, or start afresh.
LEMMA FreshKeepsInv ==
    ASSUME TowerAssumption, BotInv, BotType', UNCHANGED <<updates, confirmed, answered>>,
           DOMAIN bot' = Bot!Bots, bot' = [b \in Bot!Bots |-> bot'[b]],
           \A b \in Bot!Bots : bot'[b] \in {bot[b], Bot!Fresh, Bot!Dead}
    PROVE  BotInv'
<1>1. Len(updates) \in Nat
    BY LenProperties DEF BotInv, BotType
<1> QED
    BY <1>1, NewBots DEF BotInv, Bot!NoneForgotten

LEMMA ScriptKeepsInv ==
    ASSUME TowerAssumption, BotInv, NEW b \in Bot!Bots, Bot!ScriptStep(b) PROVE BotInv'
<1>1. ASSUME NEW to \in Bot!ScriptStates, Bot!ScriptGoes(b, to)
      PROVE  script' \in [Bot!Bots -> Bot!ScriptStates]
    BY <1>1 DEF Bot!ScriptGoes, BotInv, BotType, Bot!ScriptStates
<1>2. ASSUME NEW dying, Bot!Die(dying)
      PROVE  /\ DOMAIN bot' = Bot!Bots /\ bot' = [c \in Bot!Bots |-> bot'[c]]
             /\ \A c \in Bot!Bots : bot'[c] \in {bot[c], Bot!Fresh, Bot!Dead}
    BY <1>2 DEF Bot!Die
<1>3. CASE Bot!StopComponents(b)
  <2>1. script' \in [Bot!Bots -> Bot!ScriptStates]
      BY <1>1, <1>3 DEF Bot!StopComponents, Bot!ScriptStates
  <2>2. BotType'
      BY <1>3, <2>1 DEF Bot!StopComponents, BotInv, BotType
  <2> QED
      BY <1>2, <1>3, <2>2, FreshKeepsInv DEF Bot!StopComponents
<1>4. CASE Bot!KillByPattern(b)
  <2>1. script' \in [Bot!Bots -> Bot!ScriptStates]
      BY <1>1, <1>4 DEF Bot!KillByPattern, Bot!ScriptStates
  <2>2. BotType'
      BY <1>4, <2>1 DEF Bot!KillByPattern, BotInv, BotType
  <2> QED
      BY <1>2, <1>4, <2>2, FreshKeepsInv DEF Bot!KillByPattern
<1>5. CASE Bot!StartComponents(b)
  <2>1. BotType'
      BY <1>5 DEF Bot!StartComponents, BotInv, BotType, Bot!ScriptStates
  <2>2. /\ DOMAIN bot' = Bot!Bots /\ bot' = [c \in Bot!Bots |-> bot'[c]]
        /\ \A c \in Bot!Bots : bot'[c] \in {bot[c], Bot!Fresh, Bot!Dead}
      BY <1>5 DEF Bot!StartComponents, BotInv
  <2> QED
      BY <1>5, <2>1, <2>2, FreshKeepsInv DEF Bot!StartComponents
<1> QED
    BY <1>3, <1>4, <1>5 DEF Bot!ScriptStep

LEMMA LifeKeepsInv ==
    ASSUME TowerAssumption, BotInv,
           Bot!Revive \/ Bot!StartByHand \/ \E b \in Bot!Bots : Bot!Crash(b)
    PROVE  BotInv'
<1>1. CASE Bot!Revive
  <2>1. BotType'
      BY <1>1 DEF Bot!Revive, BotInv, BotType
  <2>2. /\ DOMAIN bot' = Bot!Bots /\ bot' = [c \in Bot!Bots |-> bot'[c]]
        /\ \A c \in Bot!Bots : bot'[c] \in {bot[c], Bot!Fresh, Bot!Dead}
      BY <1>1 DEF Bot!Revive, BotInv
  <2> QED
      BY <1>1, <2>1, <2>2, FreshKeepsInv DEF Bot!Revive
<1>2. CASE Bot!StartByHand
  <2>1. BotType'
      BY <1>2 DEF Bot!StartByHand, BotInv, BotType, Bot!ScriptStates
  <2> QED
      BY <1>2, <2>1 DEF Bot!StartByHand, BotInv, Bot!NoneForgotten
<1>3. ASSUME NEW b \in Bot!Bots, Bot!Crash(b) PROVE BotInv'
  <2>1. crashes' \in 0..MaxCrashes
      BY <1>3 DEF Bot!Crash, BotInv, BotType, TowerAssumption, Bot!WatchtowerAssumption
  <2>2. script' \in [Bot!Bots -> Bot!ScriptStates]
      BY <1>3 DEF Bot!Crash, BotInv, BotType, Bot!ScriptStates
  <2>3. BotType'
      BY <1>3, <2>1, <2>2 DEF Bot!Crash, BotInv, BotType
  <2>4. /\ DOMAIN bot' = Bot!Bots /\ bot' = [c \in Bot!Bots |-> bot'[c]]
        /\ \A c \in Bot!Bots : bot'[c] \in {bot[c], Bot!Fresh, Bot!Dead}
      BY <1>3 DEF Bot!Crash, Bot!Die
  <2> QED
      BY <1>3, <2>3, <2>4, FreshKeepsInv DEF Bot!Crash
<1> QED
    BY <1>1, <1>2, <1>3

LEMMA BotStepKeepsInv ==
    ASSUME TowerAssumption, BotInv, NEW b \in Bot!Bots, Bot!BotStep(b) \/ Bot!ScriptReturns(b)
    PROVE  BotInv'
<1>1. script \in [Bot!Bots -> Bot!ScriptStates]
    BY DEF BotInv, BotType
<1>2. bot[b].busy => bot[b].batch # <<>>
    BY DEF BotInv, BotOf, InOrder
<1>3. CASE Bot!PollUpdates(b)
    BY <1>3, PollKeepsInv
<1>4. CASE Bot!HandleQuery(b) \/ Bot!HandleQuant(b)
    BY <1>1, <1>4, DoneKeepsInv DEF Bot!HandleQuery, Bot!HandleQuant, Bot!Handles
<1>5. CASE Bot!Place(b)
    BY <1>5, PlaceKeepsInv
<1>6. CASE Bot!AnswerOrder(b)
    BY <1>1, <1>2, <1>6, DoneKeepsInv DEF Bot!AnswerOrder
<1>7. CASE Bot!SystemOn(b) \/ Bot!SystemOff(b) \/ Bot!SystemRestart(b)
  <2>1. {"kill", "stop", "stop, then start"} \subseteq Bot!ScriptStates
      BY DEF Bot!ScriptStates
  <2> QED
      BY <1>7, <2>1, RunScriptKeepsInv DEF Bot!SystemOn, Bot!SystemOff, Bot!SystemRestart
<1>8. CASE Bot!ScriptReturns(b)
  <2>1. script' \in [Bot!Bots -> Bot!ScriptStates]
      BY <1>1, <1>8 DEF Bot!ScriptReturns, Bot!ScriptStates
  <2> QED
      BY <1>2, <1>8, <2>1, DoneKeepsInv DEF Bot!ScriptReturns
<1> QED
    BY <1>3, <1>4, <1>5, <1>6, <1>7, <1>8 DEF Bot!BotStep

LEMMA BotKeeps == ASSUME TowerAssumption, BotInv, [TowerNext]_mcVars PROVE BotInv'
<1>1. CASE UNCHANGED botAll
    BY <1>1 DEF botAll, BotInv, BotType, Bot!NoneForgotten
<1>2. CASE Bot!Next
    BY <1>2, SendKeepsInv, BotStepKeepsInv, ScriptKeepsInv, LifeKeepsInv DEF Bot!Next
<1> QED
    BY <1>1, <1>2 DEF TowerNext, mcVars, BotTurn, TailerTurn, LabTurn, FlowTurn

LEMMA BotStarts == ASSUME TowerAssumption, TowerInit PROVE BotInv
<1>1. Bot!Init
    BY DEF TowerInit
<1>2. BotType /\ Bot!NoneForgotten
    BY <1>1, EmptySeq
    DEF Bot!Init, BotType, Bot!NoneForgotten, Bot!ScriptStates, TowerAssumption, Bot!WatchtowerAssumption
<1>3. \A b \in Bot!Bots : bot[b] \in {Bot!Fresh, Bot!Dead}
    BY <1>1 DEF Bot!Init
<1>4. Len(updates) \in Nat
    BY <1>2, LenProperties DEF BotType
<1> QED
    BY <1>1, <1>2, <1>3, <1>4, NewBots DEF BotInv, Bot!Init

\* Telegram forgets no update that no bot handled to the end, and no bot sends an order
\* twice for one update, whatever bots crash, scripts kill or systemd starts.
THEOREM TelegramKeeps == TowerSpec => []UpdatesKept
<1>1. BotInv => UpdatesKept
    BY DEF BotInv, BotOf, OrdersBehind, UpdatesKept, Bot!PlacedOnce
<1> QED
    BY <1>1, BotStarts, BotKeeps, TowerAssumption, PTL DEF TowerSpec

-----------------------------------------------------------------------------
(* The log tailer. *)

\* The piece that may hold a line's word; a back piece never does.
Begins(piece) == piece[2] # "back"

\* A line stands once in the file, and lines that were not begun stand nowhere.
OnceIn(pieces) ==
    \A i, j \in 1..Len(pieces) :
        Begins(pieces[i]) /\ Begins(pieces[j]) /\ pieces[i][1] = pieces[j][1] => i = j
Written(pieces) == \A i \in 1..Len(pieces) : pieces[i][1] <= written

\* The line is still to be processed, or to be read.
InBatch(l) == \E i \in 1..Len(batch) : batch[i][1] = l /\ Begins(batch[i])
Ahead(l) == \E i \in 1..Len(file) : i > position /\ file[i][1] = l /\ Begins(file[i])

LinesType ==
    /\ file \in Seq(Piece) /\ batch \in Seq(Piece) /\ written \in 0..MaxLines
    /\ Len(file) <= 2 * written - (IF Cut THEN 1 ELSE 0)
    /\ position \in 0..(2 * MaxLines) /\ reported \in [1..MaxLines -> Nat]
    /\ rotations \in 0..MaxRotations /\ errors \in 0..MaxErrors

\* What is still to come of a line was reported by errors only.
OneLine(l) ==
    /\ reported[l] <= 1 + errors
    /\ InBatch(l) \/ Ahead(l) => reported[l] <= errors
    /\ ~(InBatch(l) /\ Ahead(l))
    /\ l > written => reported[l] = 0

LinesInv ==
    /\ LinesType
    /\ OnceIn(file) /\ OnceIn(batch) /\ Written(file) /\ Written(batch)
    /\ \A l \in 1..MaxLines : OneLine(l)

LEMMA PieceParts ==
    ASSUME NEW q \in Seq(Piece), NEW i \in 1..Len(q)
    PROVE  q[i][1] \in 1..MaxLines /\ q[i][2] \in {"whole", "front", "back"} /\ q[i] \in Piece
BY ElementOfSeq DEF Piece

LEMMA WriteKeepsLines ==
    ASSUME TowerAssumption, LinesInv, NEW part \in {"whole", "front", "back"}, Write(part)
    PROVE  LinesInv'
<1> DEFINE new == <<written', part>>
<1>1. /\ file \in Seq(Piece) /\ Len(file) \in Nat /\ written \in 0..MaxLines /\ MaxLines \in Nat
      /\ Len(file) <= 2 * written - (IF Cut THEN 1 ELSE 0)
    BY LenProperties DEF LinesInv, LinesType, TowerAssumption, TailerAssumption
<1>2. /\ file' = Append(file, new) /\ written' \in 1..MaxLines /\ new \in Piece
      /\ written' = IF part = "back" THEN written ELSE written + 1
      /\ part = "back" => Cut
      /\ part # "back" => ~Cut
      /\ UNCHANGED <<position, batch, reported, rotations, errors>>
  <2>1. part = "back" => written \in 1..MaxLines
    <3>1. Cut => Len(file) >= 1 /\ 2 * written - 1 >= Len(file)
        BY <1>1, EmptySeq DEF Cut
    <3> QED
        BY <1>1, <3>1 DEF Write
  <2>2. written' \in 1..MaxLines /\ written' = IF part = "back" THEN written ELSE written + 1
      BY <1>1, <2>1 DEF Write
  <2> QED
      BY <2>2 DEF Write, Piece
<1>3. /\ file' \in Seq(Piece) /\ Len(file') = Len(file) + 1 /\ file'[Len(file) + 1] = new
      /\ \A i \in 1..Len(file) : file'[i] = file[i]
    BY <1>1, <1>2, AppendProperties
<1>4. Cut' <=> part = "front"
    BY <1>1, <1>2, <1>3, EmptySeq DEF Cut, Last
<1>5. LinesType'
  <2>1. Len(file') <= 2 * written' - (IF Cut' THEN 1 ELSE 0)
    <3>1. CASE part = "back"
        BY <1>1, <1>2, <1>3, <1>4, <3>1
    <3>2. CASE part # "back"
        BY <1>1, <1>2, <1>3, <1>4, <3>2
    <3> QED
        BY <3>1, <3>2
  <2> QED
      BY <1>1, <1>2, <1>3, <2>1 DEF LinesInv, LinesType
<1>6. \A i \in 1..Len(file') : i \in 1..Len(file) \/ i = Len(file) + 1
    BY <1>1, <1>3
<1>7. \A i \in 1..Len(file) : file[i][1] <= written /\ file[i][1] \in 1..MaxLines
    BY <1>1, PieceParts DEF LinesInv, Written
<1>8. part # "back" => new[1] = written + 1 /\ \A i \in 1..Len(file) : file[i][1] # new[1]
    BY <1>1, <1>2, <1>7
<1>9. Begins(new) <=> part # "back"
    BY DEF Begins
<1>10. OnceIn(file)' /\ Written(file)'
  <2>1. OnceIn(file)'
      BY <1>3, <1>6, <1>8, <1>9 DEF LinesInv, OnceIn
  <2>2. new[1] <= written' /\ written <= written'
      BY <1>1, <1>2
  <2>3. Written(file)'
      BY <1>1, <1>2, <1>3, <1>6, <1>7, <2>2 DEF Written
  <2> QED
      BY <2>1, <2>3
<1>11. OnceIn(batch)' /\ Written(batch)'
  <2>1. \A i \in 1..Len(batch) : batch[i][1] \in 1..MaxLines /\ batch[i][1] <= written
      BY PieceParts DEF LinesInv, LinesType, Written
  <2> QED
      BY <1>1, <1>2, <2>1 DEF LinesInv, OnceIn, Written
<1>12. ASSUME NEW l \in 1..MaxLines PROVE OneLine(l)'
  <2>1. OneLine(l) /\ reported[l] \in Nat /\ errors \in Nat
      BY DEF LinesInv, LinesType
  <2>2. Ahead(l)' => Ahead(l) \/ l = written + 1
      BY <1>2, <1>3, <1>6, <1>8, <1>9 DEF Ahead
  <2>3. InBatch(l)' <=> InBatch(l)
      BY <1>2 DEF InBatch
  <2>4. l = written + 1 => reported[l] = 0 /\ ~InBatch(l)
    <3>1. InBatch(l) => l <= written
        BY DEF LinesInv, Written, InBatch
    <3> QED
        BY <1>1, <2>1, <3>1 DEF OneLine
  <2>5. l > written' => l > written
      BY <1>1, <1>2
  <2> QED
      BY <1>2, <2>1, <2>2, <2>3, <2>4, <2>5 DEF OneLine
<1> QED
    BY <1>5, <1>10, <1>11, <1>12 DEF LinesInv

LEMMA RotateKeepsLines == ASSUME TowerAssumption, LinesInv, Rotate PROVE LinesInv'
<1>1. /\ file' = <<>> /\ rotations' = rotations + 1 /\ rotations < MaxRotations
      /\ UNCHANGED <<written, position, batch, reported, errors>>
    BY DEF Rotate
<1>2. Len(file') = 0 /\ ~Cut' /\ file' \in Seq(Piece)
    BY <1>1, EmptySeq DEF Cut
<1>3. LinesType'
    BY <1>1, <1>2 DEF LinesInv, LinesType, TowerAssumption, TailerAssumption
<1>4. OnceIn(file)' /\ Written(file)' /\ OnceIn(batch)' /\ Written(batch)'
    BY <1>1, <1>2 DEF LinesInv, OnceIn, Written
<1>5. ASSUME NEW l \in 1..MaxLines PROVE OneLine(l)'
    BY <1>1, <1>2 DEF LinesInv, OneLine, InBatch, Ahead
<1> QED
    BY <1>3, <1>4, <1>5 DEF LinesInv

LEMMA ReadKeepsLines == ASSUME TowerAssumption, LinesInv, CheckLogFile PROVE LinesInv'
<1>1. /\ batch = <<>> /\ position < Len(file) /\ position' = Len(file)
      /\ batch' = SubSeq(file, position + 1, Len(file))
      /\ UNCHANGED <<file, written, reported, rotations, errors>>
    BY DEF CheckLogFile
<1>2. /\ file \in Seq(Piece) /\ Len(file) \in Nat /\ position \in Nat
      /\ written \in 0..MaxLines /\ MaxLines \in Nat
      /\ Len(file) <= 2 * written - (IF Cut THEN 1 ELSE 0)
    BY LenProperties DEF LinesInv, LinesType, TowerAssumption, TailerAssumption
<1>3. /\ batch' \in Seq(Piece) /\ Len(batch') = Len(file) - position
      /\ \A i \in 1..Len(batch') : i + position \in 1..Len(file) /\ batch'[i] = file[i + position]
  <2>1. \A i \in (position + 1)..Len(file) : file[i] \in Piece
      BY <1>2, ElementOfSeq
  <2> DEFINE from == position + 1
             to == Len(file)
  <2>4. from \in Int /\ to \in Int /\ from <= to /\ batch' = SubSeq(file, from, to)
      BY <1>1, <1>2
  <2> HIDE DEF from, to
  <2>5. /\ batch' \in Seq(Piece) /\ Len(batch') = to - from + 1
        /\ \A i \in 1 .. to - from + 1 : batch'[i] = file[from + i - 1]
      BY <2>1, <2>4, SubSeqProperties DEF from, to
  <2> USE DEF from, to
  <2>2. /\ batch' \in Seq(Piece) /\ Len(batch') = Len(file) - (position + 1) + 1
        /\ \A i \in 1..(Len(file) - (position + 1) + 1) : batch'[i] = file[(position + 1) + i - 1]
      BY <2>5
  <2>3. ASSUME NEW i \in 1..Len(batch')
        PROVE  i + position \in 1..Len(file) /\ (position + 1) + i - 1 = i + position
      BY <1>1, <1>2, <2>2
  <2> QED
      BY <1>2, <2>2, <2>3
<1>4. LinesType'
  <2>1. Len(file) \in 0..(2 * MaxLines)
      BY <1>2
  <2> QED
      BY <1>1, <1>3, <2>1 DEF LinesInv, LinesType, Cut
<1>5. OnceIn(file)' /\ Written(file)' /\ Written(batch)'
    BY <1>1, <1>3 DEF LinesInv, OnceIn, Written
<1>6. OnceIn(batch)'
  <2> SUFFICES ASSUME NEW i \in 1..Len(batch'), NEW j \in 1..Len(batch'),
                      Begins(batch'[i]), Begins(batch'[j]), batch'[i][1] = batch'[j][1]
               PROVE  i = j
      BY DEF OnceIn
  <2>1. i + position = j + position
      BY <1>3 DEF LinesInv, OnceIn
  <2> QED
      BY <1>2, <1>3, <2>1
<1>7. ASSUME NEW l \in 1..MaxLines PROVE OneLine(l)'
  <2>1. ~Ahead(l)'
      BY <1>1, <1>2 DEF Ahead
  <2>2. InBatch(l)' => Ahead(l)
    <3> SUFFICES ASSUME NEW i \in 1..Len(batch'), batch'[i][1] = l, Begins(batch'[i])
                 PROVE  Ahead(l)
        BY DEF InBatch
    <3>1. i + position > position
        BY <1>2, <1>3
    <3> QED
        BY <1>3, <3>1 DEF Ahead
  <2> QED
      BY <1>1, <2>1, <2>2 DEF LinesInv, OneLine
<1> QED
    BY <1>4, <1>5, <1>6, <1>7 DEF LinesInv

LEMMA ErrorKeepsLines == ASSUME TowerAssumption, LinesInv, CheckFails PROVE LinesInv'
<1>1. /\ batch = <<>> /\ errors < MaxErrors /\ errors' = errors + 1 /\ position' = 0
      /\ UNCHANGED <<file, written, batch, reported, rotations>>
    BY DEF CheckFails
<1>2. errors \in Nat /\ MaxErrors \in Nat /\ MaxLines \in Nat
    BY DEF LinesInv, LinesType, TowerAssumption, TailerAssumption
<1>3. LinesType'
    BY <1>1, <1>2 DEF LinesInv, LinesType, Cut
<1>4. OnceIn(file)' /\ Written(file)' /\ OnceIn(batch)' /\ Written(batch)'
    BY <1>1 DEF LinesInv, OnceIn, Written
<1>5. ASSUME NEW l \in 1..MaxLines PROVE OneLine(l)'
  <2>1. ~InBatch(l)'
      BY <1>1, EmptySeq DEF InBatch
  <2>2. reported[l] \in Nat /\ OneLine(l)
      BY DEF LinesInv, LinesType
  <2> QED
      BY <1>1, <1>2, <2>1, <2>2 DEF OneLine
<1> QED
    BY <1>3, <1>4, <1>5 DEF LinesInv

LEMMA ProcessKeepsLines == ASSUME TowerAssumption, LinesInv, ProcessLogLine PROVE LinesInv'
<1> DEFINE piece == Head(batch)
<1>1. /\ batch # <<>> /\ batch' = Tail(batch)
      /\ reported' = IF Matches(piece) THEN [reported EXCEPT ![piece[1]] = @ + 1] ELSE reported
      /\ UNCHANGED <<file, written, position, rotations, errors>>
    BY DEF ProcessLogLine
<1>2. /\ batch \in Seq(Piece) /\ Len(batch) \in Nat \ {0} /\ 1 \in 1..Len(batch)
      /\ piece = batch[1] /\ piece[1] \in 1..MaxLines
    BY <1>1, LenProperties, EmptySeq, PieceParts DEF LinesInv, LinesType
<1>3. /\ batch' \in Seq(Piece) /\ Len(batch') = Len(batch) - 1
      /\ \A i \in 1..Len(batch') : i + 1 \in 1..Len(batch) /\ batch'[i] = batch[i + 1]
    BY <1>1, <1>2, HeadTailProperties
<1> HIDE DEF piece
<1>4. LinesType'
  <2>1. reported' \in [1..MaxLines -> Nat]
    <3>1. reported \in [1..MaxLines -> Nat] /\ reported[piece[1]] + 1 \in Nat
        BY <1>2 DEF LinesInv, LinesType
    <3>2. [reported EXCEPT ![piece[1]] = @ + 1] \in [1..MaxLines -> Nat]
        BY <1>2, <3>1
    <3> QED
        BY <1>1, <3>1, <3>2
  <2> QED
      BY <1>1, <1>3, <2>1 DEF LinesInv, LinesType, Cut
<1>5. OnceIn(file)' /\ Written(file)' /\ Written(batch)'
    BY <1>1, <1>3 DEF LinesInv, OnceIn, Written
<1>6. OnceIn(batch)'
  <2> SUFFICES ASSUME NEW i \in 1..Len(batch'), NEW j \in 1..Len(batch'),
                      Begins(batch'[i]), Begins(batch'[j]), batch'[i][1] = batch'[j][1]
               PROVE  i = j
      BY DEF OnceIn
  <2>1. /\ i + 1 \in 1..Len(batch) /\ j + 1 \in 1..Len(batch)
        /\ batch'[i] = batch[i + 1] /\ batch'[j] = batch[j + 1] /\ OnceIn(batch)
      BY <1>3 DEF LinesInv
  <2>2. i + 1 = j + 1
      BY <2>1 DEF OnceIn
  <2> QED
      BY <1>2, <1>3, <2>2
<1>7. ASSUME NEW l \in 1..MaxLines PROVE OneLine(l)'
  <2>1. /\ OneLine(l) /\ reported[l] \in Nat /\ errors \in Nat
        /\ reported' = IF Matches(piece) THEN [reported EXCEPT ![piece[1]] = @ + 1] ELSE reported
      BY <1>1 DEF LinesInv, LinesType
  <2>2. InBatch(l)' => InBatch(l)
      BY <1>3 DEF InBatch
  <2>3. Ahead(l)' <=> Ahead(l)
      BY <1>1 DEF Ahead
  <2>4. CASE Matches(piece) /\ piece[1] = l
    <3>1. Begins(batch[1]) /\ InBatch(l)
        BY <1>2, <2>4 DEF Matches, Begins, InBatch
    <3>2. ~InBatch(l)'
      <4> SUFFICES ASSUME NEW i \in 1..Len(batch'), batch'[i][1] = l, Begins(batch'[i])
                   PROVE  FALSE
          BY DEF InBatch
      <4>1. i + 1 = 1
          BY <1>2, <1>3, <2>4, <3>1 DEF LinesInv, OnceIn
      <4> QED
          BY <1>2, <1>3, <4>1
    <3>3. reported'[l] = reported[l] + 1
        BY <1>2, <2>1, <2>4 DEF LinesInv, LinesType
    <3>4. l <= written
        BY <1>2, <2>4 DEF LinesInv, Written
    <3>5. written \in Nat /\ l \in Nat /\ written' = written /\ errors' = errors
        BY <1>1 DEF LinesInv, LinesType
    <3> QED
        BY <2>1, <2>3, <3>1, <3>2, <3>3, <3>4, <3>5 DEF OneLine
  <2>5. CASE ~(Matches(piece) /\ piece[1] = l)
    <3>1. reported'[l] = reported[l]
        BY <2>1, <2>5 DEF LinesInv, LinesType
    <3> QED
        BY <1>1, <2>1, <2>2, <2>3, <3>1 DEF OneLine
  <2> QED
      BY <2>4, <2>5
<1> QED
    BY <1>4, <1>5, <1>6, <1>7 DEF LinesInv

LEMMA LinesKeep == ASSUME TowerAssumption, LinesInv, [TowerNext]_mcVars PROVE LinesInv'
<1>1. CASE UNCHANGED <<file, written, position, batch, reported, rotations, errors>>
    BY <1>1 DEF LinesInv, LinesType, OnceIn, Written, OneLine, InBatch, Ahead, Cut
<1>2. CASE Next
  <2>1. CASE CheckResources \/ Tick
      BY <1>1, <2>1 DEF CheckResources, Tick
  <2> QED
      BY <1>2, <2>1, WriteKeepsLines, RotateKeepsLines, ReadKeepsLines, ErrorKeepsLines,
         ProcessKeepsLines DEF Next
<1> QED
    BY <1>1, <1>2 DEF TowerNext, mcVars, tailerVars, BotTurn, TailerTurn, LabTurn, FlowTurn

LEMMA LinesStart == ASSUME TowerAssumption, TowerInit PROVE LinesInv
<1>1. Init /\ Len(<<>>) = 0 /\ <<>> \in Seq(Piece)
    BY EmptySeq DEF TowerInit
<1>2. LinesType
    BY <1>1 DEF Init, LinesType, Cut, TowerAssumption, TailerAssumption
<1> QED
    BY <1>1, <1>2 DEF Init, LinesInv, OnceIn, Written, OneLine, InBatch, Ahead

-----------------------------------------------------------------------------
(* The alerts of the tailer's thread and of the health thread. *)

AlertsType ==
    /\ now \in 0..MaxNow /\ checked \in 0..now
    /\ alerts \in [AlertKeys -> Seq(0..MaxNow)] /\ reports \in Seq(0..MaxNow)

AlertsInv == AlertsType /\ AlertsSpaced

TableSpaced ==
    /\ alerts \in [AlertKeys -> Seq(0..MaxNow)] /\ Spaced(alerts["log"], Throttle)
    /\ \A k \in Percents : Spaced(alerts[k], ResourceThrottle + 1)

LEMMA SpacedOn ==
    ASSUME NEW m \in Nat, NEW times \in Seq(0..m), NEW gap \in Nat, NEW at \in 0..m,
           Spaced(times, gap), times = <<>> \/ at - Last(times) >= gap
    PROVE  Append(times, at) \in Seq(0..m) /\ Spaced(Append(times, at), gap)
<1>1. /\ Append(times, at) \in Seq(0..m) /\ Len(times) \in Nat
      /\ Len(Append(times, at)) = Len(times) + 1
      /\ \A i \in 1..Len(times) : Append(times, at)[i] = times[i]
      /\ Append(times, at)[Len(times) + 1] = at
    BY AppendProperties, LenProperties
<1>2. ASSUME NEW i \in 2..Len(Append(times, at))
      PROVE  Append(times, at)[i] - Append(times, at)[i - 1] >= gap
  <2>1. CASE i = Len(times) + 1
    <3>1. i - 1 = Len(times) /\ Len(times) \in 1..Len(times) /\ times # <<>>
        BY <1>1, <2>1, EmptySeq
    <3> QED
        BY <1>1, <2>1, <3>1 DEF Last
  <2>2. CASE i # Len(times) + 1
    <3>1. i \in 2..Len(times) /\ i \in 1..Len(times) /\ i - 1 \in 1..Len(times)
        BY <1>1, <2>2
    <3> QED
        BY <1>1, <3>1 DEF Spaced
  <2> QED
      BY <2>1, <2>2
<1> QED
    BY <1>1, <1>2 DEF Spaced

\* One alert more in the table.
LEMMA AlertKept ==
    ASSUME TowerAssumption, AlertsInv, NEW key \in AlertKeys, NEW gap \in Nat,
           gap = IF key = "log" THEN Throttle ELSE ResourceThrottle + 1,
           alerts[key] = <<>> \/ now - Last(alerts[key]) >= gap,
           alerts' = [alerts EXCEPT ![key] = Append(@, now)]
    PROVE  TableSpaced'
<1>1. /\ MaxNow \in Nat /\ alerts[key] \in Seq(0..MaxNow) /\ now \in 0..MaxNow /\ "log" \notin Percents
    BY DEF AlertsInv, AlertsType, TowerAssumption, TailerAssumption
<1>2. Spaced(alerts[key], gap)
    BY DEF AlertsInv, AlertsSpaced, AlertKeys
<1>3. Append(alerts[key], now) \in Seq(0..MaxNow) /\ Spaced(Append(alerts[key], now), gap)
    BY <1>1, <1>2, SpacedOn
<1>4. \A k \in AlertKeys : alerts'[k] = IF k = key THEN Append(alerts[key], now) ELSE alerts[k]
    BY DEF AlertsInv, AlertsType
<1>5. alerts' \in [AlertKeys -> Seq(0..MaxNow)]
    BY <1>3 DEF AlertsInv, AlertsType
<1> QED
    BY <1>1, <1>3, <1>4, <1>5 DEF AlertsInv, AlertsSpaced, AlertKeys, TableSpaced

LEMMA LineKeepsAlerts == ASSUME TowerAssumption, AlertsInv, ProcessLogLine PROVE AlertsInv'
<1>1. UNCHANGED <<now, reports, checked>> /\ "log" \in AlertKeys
    BY DEF ProcessLogLine, AlertKeys
<1>2. CASE alerts' = alerts
    BY <1>1, <1>2 DEF AlertsInv, AlertsType, AlertsSpaced
<1>3. CASE Due("log") /\ alerts' = [alerts EXCEPT !["log"] = Append(@, now)]
  <2>1. Throttle \in Nat
      BY DEF TowerAssumption, TailerAssumption
  <2>2. TableSpaced'
      BY <1>1, <1>3, <2>1, AlertKept DEF Due
  <2> QED
      BY <1>1, <2>2 DEF TableSpaced, AlertsInv, AlertsType, AlertsSpaced
<1> QED
    BY <1>2, <1>3 DEF ProcessLogLine, Alerted

LEMMA ResourcesKeepAlerts == ASSUME TowerAssumption, AlertsInv, CheckResources PROVE AlertsInv'
<1>1. /\ checked' = now /\ now' = now /\ reports' = HealthReported /\ now \in 0..MaxNow
      /\ MaxNow \in Nat /\ ReportEvery \in Nat /\ ResourceThrottle \in Nat /\ "log" \notin Percents
      /\ reports \in Seq(0..MaxNow) /\ Spaced(reports, ReportEvery)
    BY DEF CheckResources, AlertsInv, AlertsType, AlertsSpaced, TowerAssumption, TailerAssumption
<1>2. reports' \in Seq(0..MaxNow) /\ Spaced(reports', ReportEvery)
    BY <1>1, SpacedOn DEF HealthReported
<1>3. CASE alerts' = alerts
    BY <1>1, <1>2, <1>3 DEF AlertsInv, AlertsType, AlertsSpaced
<1>4. ASSUME NEW p \in Percents, alerts' = [alerts EXCEPT ![p] = Append(@, now)],
             alerts[p] = <<>> \/ now - Last(alerts[p]) > ResourceThrottle
      PROVE  AlertsInv'
  <2>1. alerts[p] \in Seq(0..MaxNow) /\ p # "log" /\ p \in AlertKeys
      BY <1>1 DEF AlertKeys, AlertsInv, AlertsType
  <2>2. alerts[p] # <<>> => Last(alerts[p]) \in Int
      BY <1>1, <2>1, EmptySeq, LenProperties, ElementOfSeq DEF Last
  <2>3. alerts[p] = <<>> \/ now - Last(alerts[p]) >= ResourceThrottle + 1
      BY <1>1, <1>4, <2>2
  <2>4. PICK gap \in Nat : gap = ResourceThrottle + 1
      BY <1>1
  <2>5. TableSpaced'
      BY <1>4, <2>1, <2>3, <2>4, AlertKept
  <2> QED
      BY <1>1, <1>2, <2>5 DEF TableSpaced, AlertsInv, AlertsType, AlertsSpaced
<1> QED
    BY <1>3, <1>4 DEF CheckResources, ResourceAlerted

LEMMA AlertsKeep == ASSUME TowerAssumption, AlertsInv, [TowerNext]_mcVars PROVE AlertsInv'
<1>1. CASE UNCHANGED <<alerts, reports, checked, now>>
    BY <1>1 DEF AlertsInv, AlertsType, AlertsSpaced
<1>2. CASE Next
  <2>1. CASE Tick
      BY <2>1 DEF Tick, AlertsInv, AlertsType, AlertsSpaced, TowerAssumption, TailerAssumption
  <2>2. CASE (\E part \in {"whole", "front", "back"} : Write(part)) \/ Rotate \/ CheckLogFile \/ CheckFails
      BY <1>1, <2>2 DEF Write, Rotate, CheckLogFile, CheckFails
  <2> QED
      BY <1>2, <2>1, <2>2, LineKeepsAlerts, ResourcesKeepAlerts DEF Next
<1> QED
    BY <1>1, <1>2 DEF TowerNext, mcVars, tailerVars, BotTurn, TailerTurn, LabTurn, FlowTurn

LEMMA AlertsStart == ASSUME TowerAssumption, TowerInit PROVE AlertsInv
<1>1. Init /\ Len(<<>>) = 0 /\ <<>> \in Seq(0..MaxNow)
    BY EmptySeq DEF TowerInit
<1> QED
    BY <1>1 DEF Init, AlertsInv, AlertsType, AlertsSpaced, Spaced, AlertKeys, TowerAssumption, TailerAssumption

\* However often the file is emptied or cannot be read, a line is reported once and once more
\* for an error at most, and the two threads that alert keep every throttle.
THEOREM AlertsHold == TowerSpec => []AlertsInOrder
<1>1. LinesInv /\ AlertsInv => AlertsInOrder
    BY DEF LinesInv, OneLine, AlertsInv, AlertsInOrder, RepeatedByErrors
<1> QED
    BY <1>1, LinesStart, LinesKeep, AlertsStart, AlertsKeep, TowerAssumption, PTL DEF TowerSpec

-----------------------------------------------------------------------------
(* The event stream. *)

Increasing(s) == \A i, j \in 1..Len(s) : i < j => s[i] < s[j]

\* Events lie no closer than their places.
LEMMA Spread ==
    ASSUME NEW s \in Seq(Nat), Increasing(s), NEW i \in 1..Len(s), NEW j \in i..Len(s)
    PROVE  s[j] - s[i] >= j - i
<1> DEFINE P == {d \in Nat : i + d <= Len(s) => s[i + d] - s[i] >= d}
<1>1. Len(s) \in Nat /\ i \in Nat /\ \A k \in 1..Len(s) : s[k] \in Nat
    BY LenProperties, ElementOfSeq
<1>2. 0 \in P
    BY <1>1
<1>3. ASSUME NEW d \in P PROVE d + 1 \in P
  <2> SUFFICES ASSUME i + (d + 1) <= Len(s) PROVE s[i + (d + 1)] - s[i] >= d + 1
      OBVIOUS
  <2>1. d \in Nat /\ i + d \in 1..Len(s) /\ i + (d + 1) \in 1..Len(s) /\ i + d < i + (d + 1)
      BY <1>1
  <2>2. s[i + d] < s[i + (d + 1)] /\ s[i + d] - s[i] >= d
      BY <1>1, <2>1 DEF Increasing
  <2>3. \A x, y, z \in Nat : x < y /\ x - z >= d => y - z >= d + 1
      BY <2>1
  <2>4. s[i + d] \in Nat /\ s[i + (d + 1)] \in Nat /\ s[i] \in Nat
      BY <1>1, <2>1
  <2> HIDE DEF P
  <2> QED
      BY <2>2, <2>3, <2>4
<1>4. j - i \in P
  <2>1. \A n \in Nat : n \in P
      BY <1>2, <1>3, Induction
  <2> QED
      BY <1>1, <2>1
<1> QED
    BY <1>1, <1>4

\* What is left of a sequence without its place i.
LEMMA RemovedAt ==
    ASSUME NEW s \in Seq(Nat), NEW i \in 1..Len(s), NEW w, w = Lab!RemoveAt(s, i)
    PROVE  /\ w \in Seq(Nat) /\ Len(w) = Len(s) - 1
           /\ \A j \in 1..Len(w) : w[j] = IF j < i THEN s[j] ELSE s[j + 1]
<1> DEFINE front == SubSeq(s, 1, i - 1)
           back == SubSeq(s, i + 1, Len(s))
<1>1. Len(s) \in Nat /\ \A k \in 1..Len(s) : s[k] \in Nat
    BY LenProperties, ElementOfSeq
<1>2. /\ front \in Seq(Nat) /\ Len(front) = i - 1
      /\ \A j \in 1 .. i - 1 : front[j] = s[j]
  <2> DEFINE to == i - 1
  <2>1. to \in Nat /\ to <= Len(s) /\ \A j \in 1..to : s[j] \in Nat
      BY <1>1
  <2> HIDE DEF to
  <2>2. /\ SubSeq(s, 1, to) \in Seq(Nat) /\ Len(SubSeq(s, 1, to)) = IF 1 <= to THEN to - 1 + 1 ELSE 0
        /\ \A j \in 1 .. to - 1 + 1 : SubSeq(s, 1, to)[j] = s[1 + j - 1]
      BY <2>1, SubSeqProperties
  <2>3. /\ SubSeq(s, 1, to) \in Seq(Nat) /\ Len(SubSeq(s, 1, to)) = to
        /\ \A j \in 1..to : SubSeq(s, 1, to)[j] = s[j]
      BY <2>1, <2>2
  <2> QED
      BY <2>3 DEF to
<1>3. /\ back \in Seq(Nat) /\ Len(back) = Len(s) - i
      /\ \A j \in 1 .. Len(s) - i : back[j] = s[i + j]
  <2> DEFINE from == i + 1
             to == Len(s)
  <2>1. from \in Nat /\ to \in Nat /\ from <= to + 1 /\ \A j \in from..to : s[j] \in Nat
      BY <1>1
  <2> HIDE DEF from, to
  <2>2. /\ SubSeq(s, from, to) \in Seq(Nat)
        /\ Len(SubSeq(s, from, to)) = IF from <= to THEN to - from + 1 ELSE 0
        /\ \A j \in 1 .. to - from + 1 : SubSeq(s, from, to)[j] = s[from + j - 1]
      BY <2>1, SubSeqProperties
  <2>3. /\ SubSeq(s, from, to) \in Seq(Nat) /\ Len(SubSeq(s, from, to)) = to - from + 1
        /\ \A j \in 1 .. to - from + 1 : SubSeq(s, from, to)[j] = s[from + j - 1]
      BY <2>1, <2>2
  <2>4. to - from + 1 = Len(s) - i /\ \A j \in Nat : from + j - 1 = i + j
      BY <1>1 DEF from, to
  <2>5. ASSUME NEW j \in 1 .. Len(s) - i PROVE SubSeq(s, from, to)[j] = s[i + j]
    <3>1. j \in 1 .. to - from + 1 /\ from + j - 1 = i + j
        BY <1>1, <2>4
    <3> QED
        BY <2>3, <3>1
  <2>6. Len(SubSeq(s, from, to)) = Len(s) - i
      BY <2>3, <2>4
  <2> QED
      BY <2>3, <2>5, <2>6 DEF from, to
<1>4. w = front \o back
    BY DEF Lab!RemoveAt
<1> HIDE DEF front, back
<1>5. /\ w \in Seq(Nat) /\ Len(w) = Len(front) + Len(back)
      /\ \A j \in 1 .. Len(front) + Len(back) :
             w[j] = IF j <= Len(front) THEN front[j] ELSE back[j - Len(front)]
  <2>1. front \in Seq(Nat) /\ back \in Seq(Nat)
      BY <1>2, <1>3
  <2> QED
      BY <1>4, <2>1, ConcatProperties
<1>6. ASSUME NEW j \in 1..Len(w) PROVE w[j] = IF j < i THEN s[j] ELSE s[j + 1]
  <2>1. j \in Nat /\ j <= Len(s) - 1 /\ Len(w) = Len(s) - 1
      BY <1>1, <1>2, <1>3, <1>5
  <2>2. CASE j < i
      BY <1>1, <1>2, <1>5, <2>1, <2>2
  <2>3. CASE ~(j < i)
    <3>1. j - (i - 1) \in 1 .. Len(s) - i /\ i + (j - (i - 1)) = j + 1 /\ ~(j <= i - 1)
        BY <1>1, <2>1, <2>3
    <3>2. w[j] = back[j - (i - 1)]
        BY <1>2, <1>5, <3>1
    <3> QED
        BY <1>3, <2>3, <3>1, <3>2
  <2> QED
      BY <2>2, <2>3
<1> QED
    BY <1>1, <1>2, <1>3, <1>5, <1>6

\* Of s only e is not in w.
LacksOnly(w, s, e) ==
    /\ w \in Seq(Nat) /\ Increasing(w)
    /\ \A j \in 1..Len(w) : \E k \in 1..Len(s) : w[j] = s[k]
    /\ \A k \in 1..Len(s) : s[k] # e => \E j \in 1..Len(w) : w[j] = s[k]

\* Deleting an event takes nothing else and keeps the order.
LEMMA WithoutKeeps ==
    ASSUME NEW s \in Seq(Nat), Increasing(s), NEW e
    PROVE  LacksOnly(Lab!Without(s, e), s, e)
<1> DEFINE w == Lab!Without(s, e)
<1> SUFFICES /\ w \in Seq(Nat) /\ Increasing(w)
             /\ \A j \in 1..Len(w) : \E k \in 1..Len(s) : w[j] = s[k]
             /\ \A k \in 1..Len(s) : s[k] # e => \E j \in 1..Len(w) : w[j] = s[k]
    BY DEF LacksOnly
<1>1. Len(s) \in Nat /\ DOMAIN s = 1..Len(s) /\ \A k \in 1..Len(s) : s[k] \in Nat
    BY LenProperties, ElementOfSeq
<1>2. CASE e \notin Lab!ToSet(s)
    BY <1>1, <1>2 DEF Lab!Without
<1>3. CASE e \in Lab!ToSet(s)
  <2> DEFINE i == CHOOSE k \in DOMAIN s : s[k] = e
  <2>1. i \in 1..Len(s) /\ s[i] = e
      BY <1>1, <1>3 DEF Lab!ToSet
  <2>2. w = Lab!RemoveAt(s, i)
      BY <1>3 DEF Lab!Without
  <2> HIDE DEF i
  <2>3. /\ w \in Seq(Nat) /\ Len(w) = Len(s) - 1
        /\ \A j \in 1..Len(w) : w[j] = IF j < i THEN s[j] ELSE s[j + 1]
      BY <2>1, <2>2, RemovedAt
  <2>4. \A j \in 1..Len(w) : j \in 1..Len(s) /\ j + 1 \in 1..Len(s) /\ j \in Nat
      BY <1>1, <2>3
  <2>5. Increasing(w)
    <3> SUFFICES ASSUME NEW j \in 1..Len(w), NEW k \in 1..Len(w), j < k PROVE w[j] < w[k]
        BY DEF Increasing
    <3> DEFINE In(m) == IF m < i THEN m ELSE m + 1
    <3>1. /\ j \in Nat /\ k \in Nat /\ In(j) \in 1..Len(s) /\ In(k) \in 1..Len(s) /\ In(j) < In(k)
        BY <2>1, <2>4
    <3>2. w[j] = s[In(j)] /\ w[k] = s[In(k)]
        BY <2>3
    <3> HIDE DEF In
    <3> QED
        BY <3>1, <3>2 DEF Increasing
  <2>6. ASSUME NEW k \in 1..Len(s), s[k] # e PROVE \E j \in 1..Len(w) : w[j] = s[k]
    <3>1. CASE k < i
      <4>1. k \in 1..Len(w)
          BY <1>1, <2>1, <2>3, <3>1
      <4>2. w[k] = s[k]
          BY <2>3, <3>1, <4>1
      <4> QED
          BY <4>1, <4>2
    <3>2. CASE k > i
      <4>1. k - 1 \in 1..Len(w) /\ ~(k - 1 < i) /\ (k - 1) + 1 = k
          BY <1>1, <2>1, <2>3, <3>2
      <4>2. w[k - 1] = s[k]
          BY <2>3, <4>1
      <4> QED
          BY <4>1, <4>2
    <3> QED
        BY <2>1, <2>6, <3>1, <3>2
  <2> QED
      BY <2>3, <2>4, <2>5, <2>6
<1> QED
    BY <1>2, <1>3

\* A publisher that drops has something left to drop.
PublisherRecords == [at : {"idle", "check", "read", "delete"}, drop : 0..MaxDrop, batch : Seq(Nat)]
PublisherOf(r) ==
    /\ r \in PublisherRecords
    /\ r.at \in {"read", "delete"} => r.drop > 0
    /\ r.at = "delete" => r.batch # <<>>

StreamParts ==
    /\ stream \in Seq(Nat) /\ Increasing(stream) /\ \A i \in 1..Len(stream) : stream[i] \in 1..last
    /\ lows \subseteq 1..last /\ last \in 0..MaxPublished /\ delivered \in 0..last
    /\ redisUp \in BOOLEAN /\ connected \in BOOLEAN /\ outages \in 0..MaxOutages

Publishing ==
    /\ publisher = [p \in Publishers |-> publisher[p]]
    /\ \A p \in Publishers : PublisherOf(publisher[p])

\* Of the newest events up to top those are in s that are not low.
NewestKept(s, low, top) ==
    \A i \in (top - MaxLength + 1)..top :
        i > 0 /\ i \notin low => \E j \in 1..Len(s) : s[j] = i

StreamInv == StreamParts /\ Publishing /\ NewestKept(stream, lows, last)

LEMMA StreamConstants ==
    ASSUME TowerAssumption
    PROVE  /\ {MaxLength, CriticalLength, Slack, MaxDrop, Batch, MaxPublished, MaxOutages} \subseteq Nat
           /\ Batch > 0 /\ CriticalLength <= MaxLength
BY DEF TowerAssumption, Lab!StreamAssumption

LEMMA PublishingKept ==
    ASSUME Publishing, NEW p \in Publishers, NEW new, PublisherOf(new),
           publisher' = [publisher EXCEPT ![p] = new]
    PROVE  Publishing'
BY DEF Publishing

\* What an append and a trim leave.
LEMMA PublishKeepsStream ==
    ASSUME TowerAssumption, StreamInv, NEW p \in Publishers, NEW low \in BOOLEAN,
           Lab!PublishEvent(p, low)
    PROVE  StreamInv'
<1> DEFINE s == Append(stream, last + 1)
           n == Len(s)
<1>1. /\ last \in Nat /\ MaxPublished \in Nat /\ MaxLength \in Nat /\ last < MaxPublished
      /\ last' = last + 1 /\ lows' = (IF low THEN lows \cup {last + 1} ELSE lows)
      /\ publisher' = [publisher EXCEPT ![p].at = "check"]
      /\ UNCHANGED <<redisUp, outages, connected, delivered>>
    BY StreamConstants DEF StreamInv, StreamParts, Lab!PublishEvent
<1>2. PICK k \in 0..(IF n > MaxLength THEN n - MaxLength ELSE 0) : stream' = SubSeq(s, k + 1, n)
    BY DEF Lab!PublishEvent, Lab!Trims
<1>3. /\ stream \in Seq(Nat) /\ Len(stream) \in Nat /\ last + 1 \in Nat /\ Increasing(stream)
      /\ \A i \in 1..Len(stream) : stream[i] \in 1..last
    BY <1>1, LenProperties DEF StreamInv, StreamParts
<1>4. /\ s \in Seq(Nat) /\ n = Len(stream) + 1 /\ n \in Nat /\ s[n] = last + 1
      /\ \A i \in 1..Len(stream) : s[i] = stream[i]
    BY <1>3, AppendProperties
<1> HIDE DEF s, n
<1>5. \A i \in 1..n : s[i] \in 1..(last + 1) /\ (i < n => i \in 1..Len(stream) /\ s[i] = stream[i])
  <2> SUFFICES ASSUME NEW i \in 1..n
               PROVE  s[i] \in 1..(last + 1) /\ (i < n => i \in 1..Len(stream) /\ s[i] = stream[i])
      OBVIOUS
  <2>1. CASE i = n
      BY <1>1, <1>4, <2>1
  <2>2. CASE i # n
    <3>1. i \in 1..Len(stream)
        BY <1>3, <1>4, <2>2
    <3>2. s[i] = stream[i] /\ stream[i] \in 1..last
        BY <1>3, <1>4, <3>1
    <3> QED
        BY <1>1, <3>1, <3>2
  <2> QED
      BY <2>1, <2>2
<1>6. Increasing(s)
  <2> SUFFICES ASSUME NEW i \in 1..n, NEW j \in 1..n, i < j PROVE s[i] < s[j]
      BY DEF Increasing, n
  <2>1. i < n /\ s[i] = stream[i] /\ stream[i] \in 1..last /\ i \in 1..Len(stream)
      BY <1>3, <1>4, <1>5
  <2>2. CASE j = n
      BY <1>1, <1>4, <2>1, <2>2
  <2>3. CASE j # n
    <3>1. j \in 1..Len(stream) /\ s[j] = stream[j]
        BY <1>4, <1>5, <2>3
    <3> QED
        BY <1>3, <2>1, <3>1 DEF Increasing
  <2> QED
      BY <2>2, <2>3
<1>7. k \in 0..n /\ (k > 0 => k <= n - MaxLength) /\ (MaxLength > 0 => k < n)
    BY <1>1, <1>2, <1>4
<1>8. /\ stream' \in Seq(Nat) /\ Len(stream') = n - k
      /\ \A i \in 1 .. n - k : i + k \in 1..n /\ stream'[i] = s[i + k]
  <2> DEFINE from == k + 1
  <2>1. from \in Nat /\ from <= n + 1 /\ \A i \in from..n : s[i] \in Nat
      BY <1>4, <1>5, <1>7
  <2> HIDE DEF from
  <2>2. /\ SubSeq(s, from, n) \in Seq(Nat)
        /\ Len(SubSeq(s, from, n)) = IF from <= n THEN n - from + 1 ELSE 0
        /\ \A i \in 1 .. n - from + 1 : SubSeq(s, from, n)[i] = s[from + i - 1]
      BY <1>4, <2>1, SubSeqProperties
  <2>3. stream' = SubSeq(s, from, n) /\ n - from + 1 = n - k
      BY <1>2, <1>4, <1>7 DEF from
  <2>4. Len(stream') = n - k
    <3>1. from \in Nat /\ from <= n + 1 /\ n \in Nat /\ k \in Nat /\ n - from + 1 = n - k
        BY <1>4, <1>7, <2>1, <2>3
    <3>2. (IF from <= n THEN n - from + 1 ELSE 0) = n - k
        BY <3>1
    <3> QED
        BY <2>2, <2>3, <3>2
  <2>5. ASSUME NEW i \in 1 .. n - k PROVE i + k \in 1..n /\ stream'[i] = s[i + k]
    <3>1. i + k \in 1..n /\ i \in 1 .. n - from + 1 /\ from + i - 1 = i + k
        BY <1>4, <1>7, <2>3 DEF from
    <3> QED
        BY <2>2, <2>3, <3>1
  <2> QED
      BY <2>2, <2>3, <2>4, <2>5
<1>9. StreamParts'
  <2>1. Increasing(stream')
    <3> SUFFICES ASSUME NEW i \in 1..Len(stream'), NEW j \in 1..Len(stream'), i < j
                 PROVE  stream'[i] < stream'[j]
        BY DEF Increasing
    <3>1. /\ i + k \in 1..Len(s) /\ j + k \in 1..Len(s) /\ i + k < j + k
          /\ stream'[i] = s[i + k] /\ stream'[j] = s[j + k]
        BY <1>7, <1>8 DEF n
    <3> QED
        BY <1>6, <3>1 DEF Increasing
  <2>2. \A i \in 1..Len(stream') : stream'[i] \in 1..last'
      BY <1>1, <1>5, <1>8
  <2>3. lows' \subseteq 1..last' /\ last' \in 0..MaxPublished /\ delivered' \in 0..last'
      BY <1>1 DEF StreamInv, StreamParts
  <2> QED
      BY <1>1, <1>8, <2>1, <2>2, <2>3 DEF StreamInv, StreamParts
<1>10. Publishing'
  <2>1. PublisherOf(publisher[p])
      BY DEF StreamInv, Publishing
  <2>2. PublisherOf([publisher[p] EXCEPT !.at = "check"])
      BY <2>1 DEF PublisherOf, PublisherRecords
  <2> QED
      BY <1>1, <2>2, PublishingKept DEF StreamInv
<1>11. NewestKept(stream', lows', last')
  <2> SUFFICES ASSUME NEW i \in (last' - MaxLength + 1)..last', i > 0, i \notin lows'
               PROVE  \E j \in 1..Len(stream') : stream'[j] = i
      BY DEF NewestKept
  <2>1. i \in Nat /\ i >= last + 1 - MaxLength + 1 /\ i <= last + 1 /\ MaxLength > 0 /\ k < n
      BY <1>1, <1>7
  <2>2. PICK m \in 1..n : s[m] = i /\ m > k
    <3>1. CASE i = last + 1
        BY <1>4, <1>7, <2>1, <3>1
    <3>2. CASE i # last + 1
      <4>1. i \in (last - MaxLength + 1)..last /\ i \notin lows
          BY <1>1, <2>1, <3>2
      <4>2. PICK j \in 1..Len(stream) : stream[j] = i
          BY <2>1, <4>1 DEF StreamInv, NewestKept
      <4>3. j \in 1..Len(s) /\ n \in j..Len(s) /\ s[j] = i
          BY <1>4, <4>2 DEF n
      <4>4. s[n] - s[j] >= n - j
          BY <1>4, <1>6, <4>3, Spread
      <4>5. j >= n - MaxLength + 1
        <5>1. (last + 1) - i >= n - j /\ j \in Nat
            BY <1>4, <4>2, <4>3, <4>4
        <5> QED
            BY <1>1, <1>4, <2>1, <5>1
      <4>6. j > k
          BY <1>1, <1>4, <1>7, <4>2, <4>5
      <4> QED
          BY <1>4, <4>2, <4>3, <4>6
    <3> QED
        BY <3>1, <3>2
  <2>3. m - k \in 1 .. n - k /\ (m - k) + k = m
      BY <1>4, <1>7, <2>2
  <2> QED
      BY <1>8, <2>2, <2>3
<1> QED
    BY <1>9, <1>10, <1>11 DEF StreamInv

LEMMA DropKeepsStream ==
    ASSUME TowerAssumption, StreamInv, NEW p \in Publishers, Lab!DropEvent(p)
    PROVE  StreamInv'
<1> DEFINE e == Head(publisher[p].batch)
           rest == Tail(publisher[p].batch)
           left == Lab!Dropped(p, e)
           new == IF left = 0 THEN Lab!Idle
                  ELSE [at |-> IF rest = <<>> THEN "read" ELSE "delete", drop |-> left, batch |-> rest]
<1>1. /\ publisher[p].at = "delete" /\ publisher' = [publisher EXCEPT ![p] = new]
      /\ stream' = (IF Lab!LowPriority(e) THEN Lab!Without(stream, e) ELSE stream)
      /\ UNCHANGED <<lows, last, redisUp, outages, connected, delivered>>
    BY DEF Lab!DropEvent, Lab!At
<1>2. /\ PublisherOf(publisher[p]) /\ publisher[p].batch \in Seq(Nat) /\ publisher[p].batch # <<>>
      /\ publisher[p].drop \in 1..MaxDrop /\ MaxDrop \in Nat
    BY <1>1, StreamConstants DEF StreamInv, Publishing, PublisherOf, PublisherRecords
<1>3. rest \in Seq(Nat) /\ left \in 0..MaxDrop
    BY <1>2, HeadTailProperties DEF Lab!Dropped
<1> HIDE DEF rest, left
<1>4. PublisherOf(new)
    BY <1>2, <1>3, EmptySeq DEF PublisherOf, PublisherRecords, Lab!Idle
<1>5. Publishing'
    BY <1>1, <1>4, PublishingKept DEF StreamInv
<1> HIDE DEF e, new
<1>6. stream \in Seq(Nat) /\ Increasing(stream) /\ \A i \in 1..Len(stream) : stream[i] \in 1..last
    BY DEF StreamInv, StreamParts
<1>7. CASE ~Lab!LowPriority(e)
    BY <1>1, <1>5, <1>7 DEF StreamInv, StreamParts
<1>8. CASE Lab!LowPriority(e)
  <2>5. stream' = Lab!Without(stream, e)
      BY <1>1, <1>8
  <2>1. LacksOnly(stream', stream, e)
      BY <1>6, <2>5, WithoutKeeps
  <2>2. StreamParts'
      BY <1>1, <1>6, <2>1 DEF StreamInv, StreamParts, LacksOnly
  <2>3. e \in lows
      BY <1>8 DEF Lab!LowPriority
  <2>4. NewestKept(stream', lows', last')
      BY <1>1, <2>1, <2>3 DEF StreamInv, NewestKept, LacksOnly
  <2> QED
      BY <1>5, <2>2, <2>4 DEF StreamInv
<1> QED
    BY <1>7, <1>8

LEMMA ConsumeKeepsStream == ASSUME TowerAssumption, StreamInv, Lab!ConsumeEvents PROVE StreamInv'
<1>1. PICK i \in DOMAIN stream : delivered' = stream[Lab!Smaller(i + Batch - 1, Len(stream))]
    BY DEF Lab!ConsumeEvents
<1>2. UNCHANGED <<stream, lows, last, redisUp, outages, connected, publisher>>
    BY DEF Lab!ConsumeEvents
<1>3. /\ i \in 1..Len(stream) /\ Len(stream) \in Nat /\ Batch \in Nat /\ Batch > 0
    BY LenProperties, StreamConstants DEF StreamInv, StreamParts
<1>4. Lab!Smaller(i + Batch - 1, Len(stream)) \in 1..Len(stream)
    BY <1>3 DEF Lab!Smaller
<1>5. delivered' \in 1..last
    BY <1>1, <1>4 DEF StreamInv, StreamParts
<1>6. last \in Nat
    BY DEF StreamInv, StreamParts
<1> QED
    BY <1>2, <1>5, <1>6 DEF StreamInv, StreamParts, Publishing

\* The steps of a publisher that leave the stream alone.
LEMMA PublisherKeepsStream ==
    ASSUME TowerAssumption, StreamInv, NEW p \in Publishers,
           Lab!CheckBackpressure(p) \/ Lab!ReadOldest(p) \/ Lab!DropFails(p) \/ Lab!PublishFails(p)
    PROVE  StreamInv'
<1>1. PublisherOf(Lab!Idle)
    BY StreamConstants, EmptySeq DEF PublisherOf, PublisherRecords, Lab!Idle
<1>2. PublisherOf(publisher[p])
    BY DEF StreamInv, Publishing
<1>3. ASSUME NEW new, PublisherOf(new), publisher' = [publisher EXCEPT ![p] = new],
             UNCHANGED <<stream, lows, last, redisUp, outages, delivered>>, connected' \in BOOLEAN
      PROVE  StreamInv'
  <2>1. Publishing'
      BY <1>3, PublishingKept DEF StreamInv
  <2> QED
      BY <1>3, <2>1 DEF StreamInv, StreamParts
<1>4. CASE Lab!CheckBackpressure(p)
  <2> DEFINE n == Lab!DropCount(Len(stream))
             new == IF n <= 0 THEN Lab!Idle ELSE [at |-> "read", drop |-> n, batch |-> <<>>]
  <2>1. n \in Int /\ n <= MaxDrop /\ MaxDrop \in Nat
    <3>1. Len(stream) \in Nat
        BY LenProperties DEF StreamInv, StreamParts
    <3> QED
        BY <3>1, StreamConstants DEF Lab!DropCount, Lab!Smaller
  <2>2. publisher' = [publisher EXCEPT ![p] = new]
      BY <1>4 DEF Lab!CheckBackpressure
  <2> HIDE DEF n
  <2>3. PublisherOf(new)
      BY <1>1, <2>1, EmptySeq DEF PublisherOf, PublisherRecords
  <2> HIDE DEF new
  <2> QED
      BY <1>3, <1>4, <2>2, <2>3 DEF Lab!CheckBackpressure, StreamInv, StreamParts
<1>5. CASE Lab!ReadOldest(p)
  <2> DEFINE oldest == SubSeq(stream, 1, Lab!Smaller(Batch, Len(stream)))
             new == IF stream = <<>> THEN Lab!Idle
                    ELSE [at |-> "delete", drop |-> publisher[p].drop, batch |-> oldest]
  <2>1. publisher' = [publisher EXCEPT ![p] = new] /\ publisher[p].at = "read"
      BY <1>5 DEF Lab!ReadOldest, Lab!At
  <2>2. ASSUME stream # <<>> PROVE oldest \in Seq(Nat) /\ oldest # <<>>
    <3>1. PICK m \in Nat : m = Lab!Smaller(Batch, Len(stream)) /\ m >= 1 /\ m <= Len(stream)
      <4>1. Len(stream) \in Nat \ {0} /\ Batch \in Nat \ {0}
          BY <2>2, EmptySeq, StreamConstants DEF StreamInv, StreamParts
      <4> QED
          BY <4>1 DEF Lab!Smaller
    <3>2. stream \in Seq(Nat) /\ Len(stream) \in Nat
        BY LenProperties DEF StreamInv, StreamParts
    <3>3. \A i \in 1..m : stream[i] \in Nat
        BY <3>1, <3>2, ElementOfSeq
    <3>4. SubSeq(stream, 1, m) \in Seq(Nat) /\ Len(SubSeq(stream, 1, m)) = m - 1 + 1
        BY <3>1, <3>3, SubSeqProperties
    <3> QED
        BY <3>1, <3>4, EmptySeq
  <2> HIDE DEF oldest
  <2>3. PublisherOf(new)
      BY <1>1, <1>2, <2>1, <2>2 DEF PublisherOf, PublisherRecords
  <2> HIDE DEF new
  <2> QED
      BY <1>3, <1>5, <2>1, <2>3 DEF Lab!ReadOldest, StreamInv, StreamParts
<1>6. CASE Lab!DropFails(p)
    BY <1>1, <1>3, <1>6 DEF Lab!DropFails, StreamInv, StreamParts
<1>7. CASE Lab!PublishFails(p)
    BY <1>1, <1>3, <1>7 DEF Lab!PublishFails, Lab!GoesOffline
<1> QED
    BY <1>4, <1>5, <1>6, <1>7

LEMMA StreamKeeps == ASSUME TowerAssumption, StreamInv, [TowerNext]_mcVars PROVE StreamInv'
<1>1. CASE UNCHANGED labAll
    BY <1>1 DEF labAll, StreamInv, StreamParts, Publishing
<1>2. CASE Lab!Next
  <2>1. CASE Lab!RedisStops \/ Lab!RedisReturns
    <3>1. outages' \in 0..MaxOutages /\ redisUp' \in BOOLEAN
      <4>1. outages \in 0..MaxOutages /\ MaxOutages \in Nat
          BY StreamConstants DEF StreamInv, StreamParts
      <4>2. CASE Lab!RedisStops
        <5>1. redisUp' = FALSE
            BY <4>2 DEF Lab!RedisStops
        <5>2. outages < MaxOutages /\ outages' = outages + 1
            BY <4>2 DEF Lab!RedisStops
        <5>3. outages' \in 0..MaxOutages
            BY <4>1, <5>2
        <5> QED
            BY <5>1, <5>3
      <4>3. CASE Lab!RedisReturns
          BY <4>1, <4>3 DEF Lab!RedisReturns
      <4> QED
          BY <2>1, <4>2, <4>3
    <3>2. UNCHANGED <<stream, lows, last, connected, publisher, delivered>>
        BY <2>1 DEF Lab!RedisStops, Lab!RedisReturns
    <3> QED
        BY <3>1, <3>2 DEF StreamInv, StreamParts, Publishing
  <2> QED
      BY <1>2, <2>1, PublishKeepsStream, DropKeepsStream, ConsumeKeepsStream, PublisherKeepsStream
      DEF Lab!Next, Lab!PublisherStep
<1> QED
    BY <1>1, <1>2 DEF TowerNext, mcVars, BotTurn, TailerTurn, LabTurn, FlowTurn

LEMMA StreamStarts == ASSUME TowerAssumption, TowerInit PROVE StreamInv
<1>1. Lab!Init /\ Len(<<>>) = 0 /\ <<>> \in Seq(Nat)
    BY EmptySeq DEF TowerInit
<1>2. PublisherOf(Lab!Idle)
    BY StreamConstants, EmptySeq DEF PublisherOf, PublisherRecords, Lab!Idle
<1>3. Publishing
    BY <1>1, <1>2 DEF Lab!Init, Publishing
<1>4. StreamParts /\ NewestKept(stream, lows, last)
    BY <1>1, StreamConstants DEF Lab!Init, StreamParts, Increasing, NewestKept
<1> QED
    BY <1>3, <1>4 DEF StreamInv

\* Whatever the slack of the trims, the order in which publishers append, read and delete, and the
\* outages between: of the newest events up to the cap only low ones are ever gone.
THEOREM NewestKeptThere == TowerSpec => []KeepsNewest
<1>1. ASSUME TowerAssumption, StreamInv PROVE KeepsNewest
  <2>1. DOMAIN stream = 1..Len(stream)
      BY LenProperties, <1>1 DEF StreamInv, StreamParts
  <2> QED
      BY <1>1, <2>1 DEF StreamInv, NewestKept, KeepsNewest, Lab!KeepsNewest, Lab!ToSet
<1> QED
    BY <1>1, StreamStarts, StreamKeeps, TowerAssumption, PTL DEF TowerSpec

-----------------------------------------------------------------------------
(* The workflow. *)

LoopRecords == [at : {"off", "task", "step", "status", "save", "rest", "last"}, task : 1..4,
                next : ProgressSteps \cup {101}]

\* A loop that works on a task has one: the last save of all is told by its next.
LoopOf(r) ==
    /\ r \in LoopRecords
    /\ r.at \in {"step", "rest"} => r.task <= 3
    /\ r.at \in {"status", "save"} /\ r.next # 101 => r.task <= 3

FlowType ==
    /\ {active, wrecked, stopped, crowded} \subseteq BOOLEAN /\ kills \in 0..MaxKills
    /\ loops = [l \in 1..MaxLoops |-> loops[l]] /\ \A l \in 1..MaxLoops : LoopOf(loops[l])
    /\ work \in Flow!Works /\ kept \in Flow!Works \cup {Flow!Torn}

\* Until two loops met: one loop runs at most, and what it is about to save has the status of
\* its progress.
OneRuns == \A l, m \in 1..MaxLoops : loops[l].at # "off" /\ loops[m].at # "off" => l = m
SavesStatus == \A l \in 1..MaxLoops : loops[l].at = "save" => work.status = Flow!StatusOf(work.progress)
Alone == crowded \/ (OneRuns /\ SavesStatus)

FlowInv == FlowType /\ Flow!TornOnlyInWriting /\ Flow!CompletedWhole /\ Alone

LEMMA FlowConstants ==
    ASSUME TowerAssumption
    PROVE  /\ {0, 100} \subseteq ProgressSteps /\ ProgressSteps \subseteq 0..100
           /\ MaxLoops \in Nat \ {0} /\ MaxKills \in Nat
BY DEF TowerAssumption, Flow!WorkflowAssumption

\* The status says completed of whole work only.
LEMMA StatusTrue ==
    ASSUME TowerAssumption, NEW w \in Flow!Works
    PROVE  /\ Flow!StatusOf(w.progress) \in {"running", "completed"}
           /\ Flow!StatusOf(w.progress) = "completed" => \A t \in Flow!Tasks : w.progress[t] = 100
<1> DEFINE progress == w.progress
<1>1. progress = <<>> \/ progress \in [Flow!Tasks -> ProgressSteps]
    BY DEF Flow!Works
<1>2. CASE progress = <<>>
    BY <1>2 DEF Flow!StatusOf, Flow!OverallProgress
<1>3. CASE progress # <<>>
  <2>1. PICK a, b, c \in 0..100 : a = progress[1] /\ b = progress[2] /\ c = progress[3]
    <3>1. \A t \in 1..3 : progress[t] \in ProgressSteps
        BY <1>1, <1>3 DEF Flow!Tasks
    <3>2. progress[1] \in 0..100 /\ progress[2] \in 0..100 /\ progress[3] \in 0..100
        BY <3>1, FlowConstants
    <3> QED
        BY <3>2
  <2>2. ((((a + b) \div 2) + c) \div 2) >= 100 => a = 100 /\ b = 100 /\ c = 100
    <3>1. (a + b) \div 2 \in 0..100 /\ (((a + b) \div 2) = 100 => a + b >= 200)
        OBVIOUS
    <3> QED
        BY <3>1
  <2>3. Flow!OverallProgress(progress) = (((a + b) \div 2) + c) \div 2
      BY <1>3, <2>1 DEF Flow!OverallProgress, Flow!PhaseProgress
  <2>4. (((a + b) \div 2) + c) \div 2 \in Int
      OBVIOUS
  <2>5. Flow!StatusOf(progress) = "completed" => a = 100 /\ b = 100 /\ c = 100
      BY <2>2, <2>3, <2>4 DEF Flow!StatusOf
  <2> QED
      BY <2>1, <2>5 DEF Flow!StatusOf, Flow!Tasks
<1> QED
    BY <1>2, <1>3

LEMMA FollowingStep ==
    ASSUME TowerAssumption, NEW p \in ProgressSteps
    PROVE  Flow!Following(p) \in ProgressSteps \cup {101}
<1> DEFINE above == {q \in ProgressSteps : q > p}
<1>1. CASE p = 100
    BY <1>1 DEF Flow!Following
<1>2. CASE p # 100
  <2>1. above \in SUBSET Nat /\ 100 \in above
      BY <1>2, FlowConstants
  <2>2. \E m \in above : \A k \in above : m <= k
      BY <2>1, LeastNatural
  <2>3. Flow!Min(above) \in above
      BY <2>2 DEF Flow!Min
  <2> QED
      BY <1>2, <2>3 DEF Flow!Following
<1> QED
    BY <1>1, <1>2

\* A step of one loop.
LEMMA LoopMoves ==
    ASSUME FlowType, NEW l \in 1..MaxLoops, NEW new, LoopOf(new), loops' = [loops EXCEPT ![l] = new]
    PROVE  /\ loops' = [m \in 1..MaxLoops |-> loops'[m]] /\ \A m \in 1..MaxLoops : LoopOf(loops'[m])
           /\ \A m \in 1..MaxLoops : loops'[m] = IF m = l THEN new ELSE loops[m]
           /\ DOMAIN loops = 1..MaxLoops /\ DOMAIN loops' = 1..MaxLoops
BY DEF FlowType

LEMMA StartKeepsFlow ==
    ASSUME TowerAssumption, FlowInv, NEW l \in 1..MaxLoops, Flow!StartProcessing(l)
    PROVE  FlowInv'
<1> DEFINE new == [loops[l] EXCEPT !.at = "task"]
<1>1. /\ active' = TRUE /\ loops[l] = Flow!Off /\ loops' = [loops EXCEPT ![l] = new]
      /\ crowded' = (crowded \/ \E m \in DOMAIN loops : ~Flow!Idle(loops[m]))
      /\ UNCHANGED <<work, kept, kills, wrecked, stopped>>
    BY DEF Flow!StartProcessing
<1>2. LoopOf(new) /\ new.at = "task"
    BY <1>1, FlowConstants DEF LoopOf, LoopRecords, Flow!Off
<1> HIDE DEF new
<1>3. /\ loops' = [m \in 1..MaxLoops |-> loops'[m]] /\ \A m \in 1..MaxLoops : LoopOf(loops'[m])
      /\ \A m \in 1..MaxLoops : loops'[m] = IF m = l THEN new ELSE loops[m]
      /\ DOMAIN loops = 1..MaxLoops /\ DOMAIN loops' = 1..MaxLoops
    BY <1>1, <1>2, LoopMoves DEF FlowInv
<1>4. FlowType'
    BY <1>1, <1>3 DEF FlowInv, FlowType
<1>5. loops[l].at = "off"
    BY <1>1 DEF Flow!Off
<1>6. Flow!TornOnlyInWriting'
  <2>1. \A m \in 1..MaxLoops : loops[m].at = "save" => loops'[m].at = "save"
      BY <1>3, <1>5
  <2> QED
      BY <1>1, <1>3, <2>1 DEF FlowInv, Flow!TornOnlyInWriting, Flow!LoopsAt
<1>7. Flow!CompletedWhole'
    BY <1>1 DEF FlowInv, Flow!CompletedWhole
<1>8. Alone'
  <2> SUFFICES ASSUME ~crowded' PROVE OneRuns' /\ SavesStatus'
      BY DEF Alone
  <2>1. \A m \in 1..MaxLoops : loops[m].at = "off"
      BY <1>1, <1>3 DEF Flow!Idle
  <2> QED
      BY <1>1, <1>2, <1>3, <2>1 DEF OneRuns, SavesStatus
<1> QED
    BY <1>4, <1>6, <1>7, <1>8 DEF FlowInv

\* A step of a loop that neither writes the file nor ends.
LEMMA StepKeepsFlow ==
    ASSUME TowerAssumption, FlowInv, NEW l \in 1..MaxLoops, NEW new, LoopOf(new), new.at # "save",
           loops[l].at \notin {"off", "save"}, loops' = [loops EXCEPT ![l] = new],
           active' \in BOOLEAN, work' \in Flow!Works, UNCHANGED <<kept, kills, wrecked, stopped, crowded>>
    PROVE  FlowInv'
<1>1. /\ loops' = [m \in 1..MaxLoops |-> loops'[m]] /\ \A m \in 1..MaxLoops : LoopOf(loops'[m])
      /\ \A m \in 1..MaxLoops : loops'[m] = IF m = l THEN new ELSE loops[m]
      /\ DOMAIN loops = 1..MaxLoops /\ DOMAIN loops' = 1..MaxLoops
    BY LoopMoves DEF FlowInv
<1>2. FlowType'
    BY <1>1 DEF FlowInv, FlowType
<1>3. Flow!TornOnlyInWriting'
  <2>1. \A m \in 1..MaxLoops : loops[m].at = "save" => loops'[m].at = "save"
      BY <1>1
  <2> QED
      BY <1>1, <2>1 DEF FlowInv, Flow!TornOnlyInWriting, Flow!LoopsAt
<1>4. Flow!CompletedWhole'
    BY DEF FlowInv, Flow!CompletedWhole
<1>5. Alone'
    BY <1>1 DEF FlowInv, Alone, OneRuns, SavesStatus
<1> QED
    BY <1>2, <1>3, <1>4, <1>5 DEF FlowInv

LEMMA ProgressKeepsFlow ==
    ASSUME TowerAssumption, FlowInv, NEW l \in 1..MaxLoops, Flow!UpdateTaskProgress(l)
    PROVE  FlowInv'
<1> DEFINE t == loops[l].task
           p == loops[l].next
           on == active /\ p <= 100
           new == [loops[l] EXCEPT !.at = IF on THEN "status" ELSE "rest"]
<1>1. /\ loops[l].at = "step" /\ loops' = [loops EXCEPT ![l] = new]
      /\ UNCHANGED <<active, kept, kills, wrecked, stopped, crowded>>
    BY DEF Flow!UpdateTaskProgress, Flow!Go, Flow!past
<1>2. /\ LoopOf(loops[l]) /\ t \in 1..3 /\ p \in ProgressSteps \cup {101} /\ work \in Flow!Works
      /\ active \in BOOLEAN
    BY <1>1 DEF FlowInv, FlowType, LoopOf, LoopRecords
<1>3. LoopOf(new) /\ new.at # "save"
    BY <1>1, <1>2 DEF LoopOf, LoopRecords
<1>4. work' \in Flow!Works
  <2>1. CASE on /\ t \in DOMAIN work.progress
    <3>1. p \in ProgressSteps
        BY <1>2, <2>1
    <3>2. work.progress \in [Flow!Tasks -> ProgressSteps]
        BY <1>2, <2>1, EmptySeq DEF Flow!Works
    <3>3. /\ [work.progress EXCEPT ![t] = p] \in [Flow!Tasks -> ProgressSteps]
          /\ (IF p = 100 THEN work.ended \cup {t} ELSE work.ended) \subseteq Flow!Tasks
          /\ work.status \in {"initialized", "running", "completed"}
        BY <1>2, <3>1, <3>2 DEF Flow!Works, Flow!Tasks
    <3>4. work' = [progress |-> [work.progress EXCEPT ![t] = p], status |-> work.status,
                   ended |-> IF p = 100 THEN work.ended \cup {t} ELSE work.ended]
        BY <2>1 DEF Flow!UpdateTaskProgress
    <3> QED
        BY <3>3, <3>4 DEF Flow!Works
  <2>2. CASE ~(on /\ t \in DOMAIN work.progress)
      BY <1>2, <2>2 DEF Flow!UpdateTaskProgress
  <2> QED
      BY <2>1, <2>2
<1>5. loops[l].at \notin {"off", "save"} /\ active' \in BOOLEAN
    BY <1>1, <1>2
<1> HIDE DEF new
<1> QED
    BY <1>1, <1>3, <1>4, <1>5, StepKeepsFlow

LEMMA StatusKeepsFlow ==
    ASSUME TowerAssumption, FlowInv, NEW l \in 1..MaxLoops, Flow!UpdateWorkflowStatus(l)
    PROVE  FlowInv'
<1> DEFINE new == [loops[l] EXCEPT !.at = "save"]
           status == Flow!StatusOf(work.progress)
<1>1. /\ loops[l].at = "status" /\ loops' = [loops EXCEPT ![l] = new]
      /\ work' = [work EXCEPT !.status = status] /\ kept' = Flow!Torn
      /\ UNCHANGED <<active, kills, wrecked, stopped, crowded>>
    BY DEF Flow!UpdateWorkflowStatus, Flow!Go, Flow!past
<1>2. LoopOf(loops[l]) /\ work \in Flow!Works
    BY DEF FlowInv, FlowType
<1>3. LoopOf(new) /\ new.at = "save"
    BY <1>1, <1>2 DEF LoopOf, LoopRecords
<1> HIDE DEF new
<1>4. /\ loops' = [m \in 1..MaxLoops |-> loops'[m]] /\ \A m \in 1..MaxLoops : LoopOf(loops'[m])
      /\ \A m \in 1..MaxLoops : loops'[m] = IF m = l THEN new ELSE loops[m]
      /\ DOMAIN loops = 1..MaxLoops /\ DOMAIN loops' = 1..MaxLoops
    BY <1>1, <1>3, LoopMoves DEF FlowInv
<1>5. status \in {"running", "completed"}
    BY <1>2, StatusTrue
<1>6. work' \in Flow!Works /\ work'.progress = work.progress /\ work'.status = status
  <2> HIDE DEF status
  <2> QED
      BY <1>1, <1>2, <1>5 DEF Flow!Works
<1>7. FlowType'
    BY <1>1, <1>4, <1>6 DEF FlowInv, FlowType
<1>8. Flow!TornOnlyInWriting'
    BY <1>3, <1>4 DEF Flow!TornOnlyInWriting, Flow!LoopsAt
<1>9. Flow!CompletedWhole'
    BY <1>1 DEF Flow!CompletedWhole
<1>10. Alone'
    BY <1>1, <1>4, <1>6 DEF FlowInv, Alone, OneRuns, SavesStatus
<1> QED
    BY <1>7, <1>8, <1>9, <1>10 DEF FlowInv

LEMMA SaveKeepsFlow ==
    ASSUME TowerAssumption, FlowInv, NEW l \in 1..MaxLoops, Flow!SaveWorkflow(l)
    PROVE  FlowInv'
<1> DEFINE r == loops[l]
           new == IF r.next = 101 THEN [r EXCEPT !.at = "off"]
                  ELSE [at |-> "step", task |-> r.task, next |-> Flow!Following(r.next)]
<1>1. /\ r.at = "save" /\ loops' = [loops EXCEPT ![l] = new] /\ kept' = work /\ wrecked' = FALSE
      /\ UNCHANGED <<active, work, kills, stopped, crowded>>
    BY DEF Flow!SaveWorkflow
<1>2. LoopOf(r) /\ work \in Flow!Works
    BY DEF FlowInv, FlowType
<1>3. r.next # 101 => Flow!Following(r.next) \in ProgressSteps \cup {101} /\ r.task <= 3
    BY <1>1, <1>2, FollowingStep DEF LoopOf, LoopRecords
<1>4. LoopOf(new) /\ new.at \in {"off", "step"}
    BY <1>1, <1>2, <1>3 DEF LoopOf, LoopRecords
<1> HIDE DEF new
<1>5. /\ loops' = [m \in 1..MaxLoops |-> loops'[m]] /\ \A m \in 1..MaxLoops : LoopOf(loops'[m])
      /\ \A m \in 1..MaxLoops : loops'[m] = IF m = l THEN new ELSE loops[m]
      /\ DOMAIN loops = 1..MaxLoops /\ DOMAIN loops' = 1..MaxLoops
    BY <1>1, <1>4, LoopMoves DEF FlowInv
<1>6. FlowType'
    BY <1>1, <1>2, <1>5 DEF FlowInv, FlowType
<1>7. Flow!TornOnlyInWriting'
  <2>1. work # Flow!Torn
      BY <1>2 DEF Flow!Works, Flow!Torn
  <2> QED
      BY <1>1, <2>1 DEF Flow!TornOnlyInWriting
<1>8. Flow!CompletedWhole'
  <2> SUFFICES ASSUME kept'.status = "completed", ~crowded
               PROVE  \A t \in Flow!Tasks : kept'.progress[t] = 100
      BY <1>1 DEF Flow!CompletedWhole
  <2>1. work.status = Flow!StatusOf(work.progress)
      BY <1>1 DEF FlowInv, Alone, SavesStatus
  <2> QED
      BY <1>1, <1>2, <2>1, StatusTrue
<1>9. Alone'
    BY <1>1, <1>4, <1>5 DEF FlowInv, Alone, OneRuns, SavesStatus
<1> QED
    BY <1>6, <1>7, <1>8, <1>9 DEF FlowInv

LEMMA LoopStepKeepsFlow ==
    ASSUME TowerAssumption, FlowInv, NEW l \in 1..MaxLoops, Flow!LoopStep(l)
    PROVE  FlowInv'
<1>1. LoopOf(loops[l]) /\ work \in Flow!Works /\ active \in BOOLEAN
    BY DEF FlowInv, FlowType
<1>2. CASE Flow!TestTask(l)
  <2> DEFINE new == [loops[l] EXCEPT !.at = IF active /\ loops[l].task <= 3 THEN "step" ELSE "last"]
  <2>1. /\ loops[l].at = "task" /\ loops' = [loops EXCEPT ![l] = new]
        /\ UNCHANGED <<active, work, kept, kills, wrecked, stopped, crowded>>
      BY <1>2 DEF Flow!TestTask, Flow!Go, Flow!past
  <2>2. LoopOf(new) /\ new.at # "save"
      BY <1>1, <2>1 DEF LoopOf, LoopRecords
  <2> QED
      BY <1>1, <2>1, <2>2, StepKeepsFlow
<1>3. CASE Flow!Rest(l)
  <2> DEFINE new == [at |-> "task", task |-> loops[l].task + 1, next |-> 0]
  <2>1. /\ loops[l].at = "rest" /\ loops' = [loops EXCEPT ![l] = new]
        /\ UNCHANGED <<active, work, kept, kills, wrecked, stopped, crowded>>
      BY <1>3 DEF Flow!Rest, Flow!past
  <2>2. loops[l].task + 1 \in 1..4
      BY <1>1, <2>1 DEF LoopOf, LoopRecords
  <2>3. LoopOf(new) /\ new.at # "save"
      BY <2>2, FlowConstants DEF LoopOf, LoopRecords
  <2> QED
      BY <1>1, <2>1, <2>3, StepKeepsFlow
<1>4. CASE Flow!Last(l)
  <2> DEFINE new == [at |-> "status", task |-> loops[l].task, next |-> 101]
  <2>1. /\ loops[l].at = "last" /\ loops' = [loops EXCEPT ![l] = new] /\ active' = FALSE
        /\ UNCHANGED <<work, kept, kills, wrecked, stopped, crowded>>
      BY <1>4 DEF Flow!Last, Flow!past
  <2>2. LoopOf(new) /\ new.at # "save"
      BY <1>1 DEF LoopOf, LoopRecords
  <2> QED
      BY <1>1, <2>1, <2>2, StepKeepsFlow
<1> QED
    BY <1>2, <1>3, <1>4, ProgressKeepsFlow, StatusKeepsFlow, SaveKeepsFlow DEF Flow!LoopStep

LEMMA FlowKeeps == ASSUME TowerAssumption, FlowInv, [TowerNext]_mcVars PROVE FlowInv'
<1>1. CASE UNCHANGED flowAll
    BY <1>1 DEF flowAll, FlowInv, FlowType, Flow!TornOnlyInWriting, Flow!LoopsAt, Flow!CompletedWhole,
                Alone, OneRuns, SavesStatus
<1>2. CASE Flow!Next
  <2>1. DOMAIN loops = 1..MaxLoops
      BY DEF FlowInv, FlowType
  <2>2. CASE Flow!StopProcessing
      BY <2>2 DEF Flow!StopProcessing, FlowInv, FlowType, Flow!TornOnlyInWriting, Flow!LoopsAt,
                  Flow!CompletedWhole, Alone, OneRuns, SavesStatus
  <2>3. CASE Flow!Restart
    <3>1. /\ kills < MaxKills /\ kills' = kills + 1 /\ active' = FALSE /\ stopped' = TRUE
          /\ loops' = [l \in 1..MaxLoops |-> Flow!Off] /\ wrecked' = (kept = Flow!Torn)
          /\ work' = (IF kept = Flow!Torn THEN Flow!DefaultWorkflow ELSE kept)
          /\ UNCHANGED <<kept, crowded>>
        BY <2>1, <2>3 DEF Flow!Restart
    <3>2. Flow!DefaultWorkflow \in Flow!Works
        BY DEF Flow!DefaultWorkflow, Flow!Works
    <3>3. LoopOf(Flow!Off) /\ Flow!Off.at = "off"
        BY FlowConstants DEF LoopOf, LoopRecords, Flow!Off
    <3>4. kills' \in 0..MaxKills
        BY <3>1, FlowConstants DEF FlowInv, FlowType
    <3>5. FlowType'
        BY <3>1, <3>2, <3>3, <3>4 DEF FlowInv, FlowType
    <3>6. Alone'
        BY <3>1, <3>3 DEF Alone, OneRuns, SavesStatus
    <3>7. Flow!TornOnlyInWriting' /\ Flow!CompletedWhole'
        BY <3>1 DEF FlowInv, Flow!TornOnlyInWriting, Flow!CompletedWhole
    <3> QED
        BY <3>5, <3>6, <3>7 DEF FlowInv
  <2> QED
      BY <1>2, <2>1, <2>2, <2>3, StartKeepsFlow, LoopStepKeepsFlow DEF Flow!Next
<1> QED
    BY <1>1, <1>2 DEF TowerNext, mcVars, BotTurn, TailerTurn, LabTurn, FlowTurn

LEMMA FlowStarts == ASSUME TowerAssumption, TowerInit PROVE FlowInv
<1>1. Flow!Init
    BY DEF TowerInit
<1>2. LoopOf(Flow!Off) /\ Flow!Off.at = "off"
    BY FlowConstants DEF LoopOf, LoopRecords, Flow!Off
<1>3. kept = work /\ work \in Flow!Works /\ work.status = "initialized" /\ work # Flow!Torn
    BY <1>1, FlowConstants DEF Flow!Init, Flow!Works, Flow!Tasks, Flow!Torn
<1>4. FlowType
  <2>1. /\ active \in BOOLEAN /\ wrecked \in BOOLEAN /\ stopped \in BOOLEAN /\ crowded \in BOOLEAN
        /\ kept \in Flow!Works \cup {Flow!Torn}
      BY <1>1, <1>3 DEF Flow!Init
  <2>2. loops = [l \in 1..MaxLoops |-> Flow!Off]
      BY <1>1 DEF Flow!Init
  <2>3. loops = [l \in 1..MaxLoops |-> loops[l]] /\ \A l \in 1..MaxLoops : LoopOf(loops[l])
      BY <1>2, <2>2
  <2>4. kills \in 0..MaxKills
      BY <1>1, FlowConstants DEF Flow!Init
  <2> QED
      BY <1>3, <2>1, <2>3, <2>4 DEF FlowType
<1>5. Alone
    BY <1>1, <1>2 DEF Flow!Init, Alone, OneRuns, SavesStatus
<1> QED
    BY <1>3, <1>4, <1>5 DEF FlowInv, Flow!TornOnlyInWriting, Flow!CompletedWhole

-----------------------------------------------------------------------------
LEMMA Within ==
    ASSUME NEW S, NEW s \in Seq(Nat), \A i \in 1..Len(s) : s[i] \in S
    PROVE  s \in Seq(S)
<1>1. Len(s) \in Nat /\ s = [i \in 1..Len(s) |-> s[i]]
    BY LenProperties
<1> QED
    BY <1>1, IsASeq

LEMMA BotParts == ASSUME TowerAssumption, BotInv PROVE Bot!TowerTypeOK
<1>1. ASSUME NEW b \in Bot!Bots
      PROVE  /\ bot[b].alive \in BOOLEAN /\ bot[b].busy \in BOOLEAN
             /\ bot[b].offset \in 0..(Len(updates) + 1) /\ bot[b].batch \in Seq(1..Len(updates))
  <2>1. /\ bot[b] \in BotRecords /\ InOrder(bot[b], Len(updates), answered) /\ Len(updates) \in Nat
      BY LenProperties DEF BotInv, BotType, BotOf
  <2>2. bot[b].batch \in Seq(Nat) /\ Len(bot[b].batch) \in Nat /\ bot[b].offset \in Nat
      BY <2>1, LenProperties DEF BotRecords
  <2>3. ASSUME NEW i \in 1..Len(bot[b].batch)
        PROVE  bot[b].batch[i] \in 1..Len(updates)
    <3>1. bot[b].batch # <<>>
        BY <2>2, <2>3, EmptySeq
    <3>2. PICK q : q = bot[b].batch
        OBVIOUS
    <3>3. Consecutive(q, Len(updates)) /\ q # <<>> /\ Len(q) \in Nat /\ i \in 1..Len(q)
        BY <2>1, <2>2, <2>3, <3>1, <3>2 DEF InOrder
    <3>4. /\ q[i] = q[1] + i - 1 /\ q[Len(q)] = q[1] + Len(q) - 1 /\ q[1] \in 1..Len(updates)
          /\ q[Len(q)] <= Len(updates)
        BY <3>3 DEF Consecutive
    <3> QED
        BY <2>1, <3>2, <3>3, <3>4
  <2>4. bot[b].batch \in Seq(1..Len(updates))
      BY <2>2, <2>3, Within
  <2> QED
      BY <2>1, <2>2, <2>4 DEF BotRecords, InOrder
<1> QED
    BY <1>1 DEF BotInv, BotType, Bot!TowerTypeOK

LEMMA StreamWhole == ASSUME TowerAssumption, StreamInv PROVE Lab!StreamTypeOK
<1>1. DOMAIN stream = 1..Len(stream) /\ stream \in Seq(1..last)
    BY LenProperties, Within DEF StreamInv, StreamParts
<1>2. \A p \in Publishers : /\ publisher[p].at \in {"idle", "check", "read", "delete"}
                            /\ publisher[p].drop \in 0..MaxDrop
    BY DEF StreamInv, Publishing, PublisherOf, PublisherRecords
<1> QED
    BY <1>1, <1>2 DEF StreamInv, StreamParts, Increasing, Lab!StreamTypeOK

LEMMA FlowWhole == ASSUME TowerAssumption, FlowInv PROVE Flow!TypeOK
<1>1. loops \in [1..MaxLoops -> LoopRecords]
    BY DEF FlowInv, FlowType, LoopOf
<1> QED
    BY <1>1 DEF FlowInv, FlowType, LoopRecords, Flow!TypeOK

LEMMA TailerWhole == ASSUME TowerAssumption, LinesInv, AlertsInv PROVE TailerTypeOK
<1>1. checked \in 0..MaxNow /\ checked <= now /\ MaxNow \in Nat
    BY DEF AlertsInv, AlertsType, TowerAssumption, TailerAssumption
<1> QED
    BY <1>1 DEF LinesInv, LinesType, AlertsInv, AlertsType, TailerTypeOK

\* All four parts are well formed, and of the workflow's file: it is torn only under the hand of a
\* loop or since a kill, and says completed of whole work only, until two loops had it at once.
THEOREM FilesTellTheTruth == TowerSpec => []CompletedWhole
<1>1. ASSUME TowerAssumption, BotInv, LinesInv, AlertsInv, StreamInv, FlowInv PROVE CompletedWhole
  <2>1. PartsWellFormed
      BY <1>1, BotParts, TailerWhole, StreamWhole, FlowWhole DEF PartsWellFormed
  <2> QED
      BY <1>1, <2>1 DEF FlowInv, CompletedWhole
<1> QED
    BY <1>1, BotStarts, BotKeeps, LinesStart, LinesKeep, AlertsStart, AlertsKeep, StreamStarts,
       StreamKeeps, FlowStarts, FlowKeeps, TowerAssumption, PTL DEF TowerSpec

=============================================================================
