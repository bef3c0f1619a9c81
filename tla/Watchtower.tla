----------------------------- MODULE Watchtower -----------------------------
(***************************************************************************)
(* The Telegram bot that operates the system (src/telegram_watchtower), with  *)
(* the start and stop scripts it runs, systemd, and Telegram's update queue.   *)
(*   Telegram keeps an update until a getUpdates call names a higher offset;   *)
(* the bot keeps its offset in a local variable and names it in its next call.  *)
(* The scripts kill and launch the bots, the one that runs them included: a     *)
(* script lives on when its bot dies.                                        *)
(***************************************************************************)
EXTENDS Integers, Sequences, SequencesExt

CONSTANTS Service,     \* the bot systemd keeps alive (Restart=always)
          Child,       \* the bot the start script launches; its pid is in telegram.pid
          MaxUpdates,  \* bound: updates sent to the bot
          MaxCrashes   \* bound: bots that crash by themselves

\* What the constants are assumed to be.
WatchtowerAssumption == {MaxUpdates, MaxCrashes} \subseteq Nat

Bots == {Service, Child}
Kinds == {"query", "quant", "order", "on", "off", "restart"}
SystemKinds == {"on", "off", "restart"}

VARIABLES installed,   \* the systemd unit is in use
          updates,     \* what the updates ask for; the update's id is its place
          confirmed,   \* Telegram forgets the updates up to this one
          bot,         \* [Bots -> [alive, offset, batch, busy, placed]]
          script,      \* [Bots -> what the script a bot ran does next]
          up,          \* the other components run
          answered,    \* the updates handled to the end, by any bot
          crashes

towerVars == <<installed, updates, confirmed, bot, script, up, answered, crashes>>

\* A bot that was just started: nothing is remembered of an earlier one.
\* placed counts, for this life of the bot, the orders sent for each update.
Fresh == [alive |-> TRUE, offset |-> 0, batch |-> <<>>, busy |-> FALSE, placed |-> [u \in 1..MaxUpdates |-> 0]]
Dead == [Fresh EXCEPT !.alive = FALSE]

ScriptStates == {"none", "stop", "stop, then start", "kill", "launch", "done"}

TowerTypeOK ==
    /\ installed \in BOOLEAN /\ up \in BOOLEAN /\ crashes \in 0..MaxCrashes
    /\ updates \in Seq(Kinds) /\ Len(updates) <= MaxUpdates
    /\ confirmed \in 0..Len(updates) /\ answered \subseteq 1..Len(updates)
    /\ \A b \in Bots :
         /\ bot[b].alive \in BOOLEAN /\ bot[b].busy \in BOOLEAN
         /\ bot[b].offset \in 0..(Len(updates) + 1)
         /\ bot[b].batch \in Seq(1..Len(updates))
         /\ script[b] \in ScriptStates

Init ==
    /\ installed \in BOOLEAN /\ up = TRUE /\ crashes = 0
    /\ updates = <<>> /\ confirmed = 0 /\ answered = {}
    /\ bot = [b \in Bots |-> IF b = (IF installed THEN Service ELSE Child) THEN Fresh ELSE Dead]
    /\ script = [b \in Bots |-> "none"]

-----------------------------------------------------------------------------
Send(kind) ==
    /\ Len(updates) < MaxUpdates
    /\ updates' = Append(updates, kind)
    /\ UNCHANGED <<installed, confirmed, bot, script, up, answered, crashes>>

\* The next getUpdates: it confirms what lies below the offset and gets the rest.
PollUpdates(b) ==
    /\ bot[b].alive /\ ~bot[b].busy /\ bot[b].batch = <<>>
    /\ confirmed' = IF bot[b].offset > confirmed THEN bot[b].offset - 1 ELSE confirmed
    /\ bot' = [bot EXCEPT ![b].batch = [i \in 1..(Len(updates) - confirmed') |-> confirmed' + i]]
    /\ UNCHANGED <<installed, updates, script, up, answered, crashes>>

\* The update is done with: the offset moves past it.
DoneWithBatch(b) == \* variant: the offset moves past the whole batch
    /\ bot' = [bot EXCEPT ![b].busy = FALSE, ![b].batch = <<>>, ![b].offset = Last(bot[b].batch) + 1]
    /\ answered' = answered \cup {Head(bot[b].batch)}
    /\ UNCHANGED <<installed, updates, confirmed, up, crashes>>
Done(b) ==
    /\ bot' = [bot EXCEPT ![b] = [alive |-> @.alive, offset |-> Head(@.batch) + 1, batch |-> Tail(@.batch),
                                  busy |-> FALSE, placed |-> @.placed]]
    /\ answered' = answered \cup {Head(bot[b].batch)}
    /\ UNCHANGED <<installed, updates, confirmed, up, crashes>>

Handles(b, kinds) ==
    bot[b].alive /\ ~bot[b].busy /\ bot[b].batch # <<>> /\ updates[Head(bot[b].batch)] \in kinds

\* A command that only reads is answered at once.  (Every error inside a command's
\* handler is caught there and becomes its answer.)
HandleQuery(b) == Handles(b, {"query"}) /\ Done(b) /\ UNCHANGED script

\* So is one that only asks the dashboard: if that is down, its error is the answer.
HandleQuant(b) == Handles(b, {"quant"}) /\ Done(b) /\ UNCHANGED script

\* A trading command is posted to the dashboard, which takes it or not, and then answered.
Placing(r) ==
    [alive |-> r.alive, offset |-> r.offset, batch |-> r.batch, busy |-> TRUE,
     placed |-> [r.placed EXCEPT ![Head(r.batch)] = @ + 1]]
Place(b) ==
    /\ Handles(b, {"order"})
    /\ bot' = [bot EXCEPT ![b] = Placing(@)]
    /\ UNCHANGED <<installed, updates, confirmed, script, up, answered, crashes>>

AnswerOrder(b) ==
    /\ bot[b].alive /\ bot[b].busy /\ updates[Head(bot[b].batch)] = "order"
    /\ Done(b) /\ UNCHANGED script

\* The system commands run a script and wait for it.
RunScript(b, kinds, first) ==
    /\ Handles(b, kinds) /\ script[b] = "none"
    /\ bot' = [bot EXCEPT ![b].busy = TRUE]
    /\ script' = [script EXCEPT ![b] = first]
    /\ UNCHANGED <<installed, updates, confirmed, up, answered, crashes>>

SystemOn(b) == RunScript(b, {"on"}, "kill")
SystemOff(b) == RunScript(b, {"off"}, "stop")
SystemRestart(b) == RunScript(b, {"restart"}, "stop, then start")

\* The script ended, or the bot gave up on it after its timeout and killed it.
ScriptReturns(b) ==
    /\ bot[b].alive /\ bot[b].busy /\ updates[Head(bot[b].batch)] \in SystemKinds
    /\ script[b] \in {"done", "stop", "stop, then start"}
    /\ script' = [script EXCEPT ![b] = "none"]
    /\ Done(b)

-----------------------------------------------------------------------------
\* A bot is killed or crashes.
Die(dying) == bot' = [b \in Bots |-> IF b \in dying THEN Dead ELSE bot[b]]

\* The script of b goes on to its next step; with nobody to return to it just ends.
\* When systemd's own bot is gone, systemd also kills what the bot had started (the
\* unit has the default KillMode).
ScriptGoes(b, to) ==
    script' = [c \in Bots |-> IF c = Service /\ ~bot'[c].alive THEN "none"
                              ELSE IF c # b THEN script[c]
                              ELSE IF to = "done" /\ ~bot'[c].alive THEN "none" ELSE to]

\* The stop script kills the processes of the pid files: the bot only if the start
\* script launched it.  A restart runs the start script next, if the bot still lives.
StopComponents(b) ==
    /\ script[b] \in {"stop", "stop, then start"}
    /\ Die({Child}) /\ up' = FALSE
    /\ ScriptGoes(b, IF script[b] = "stop" \/ ~bot'[b].alive THEN "done" ELSE "kill")
    /\ UNCHANGED <<installed, updates, confirmed, answered, crashes>>

\* The start script first kills every bot, by its command line, and then the others;
\* a script of systemd's bot is itself killed after the first of the two.
KillByPattern(b) ==
    /\ script[b] = "kill"
    /\ Die(Bots) /\ up' \in (IF b = Service THEN {up, FALSE} ELSE {FALSE})
    /\ ScriptGoes(b, "launch")
    /\ UNCHANGED <<installed, updates, confirmed, answered, crashes>>

\* Some seconds later it launches everything, one bot included.
StartComponents(b) ==
    /\ script[b] = "launch"
    /\ bot' = [bot EXCEPT ![Child] = Fresh] /\ up' = TRUE
    /\ script' = [script EXCEPT ![b] = "none"]
    /\ UNCHANGED <<installed, updates, confirmed, answered, crashes>>

\* systemd starts its bot again ten seconds after it died, however it died.
Revive ==
    /\ installed /\ ~bot[Service].alive
    /\ bot' = [bot EXCEPT ![Service] = Fresh]
    /\ UNCHANGED <<installed, updates, confirmed, script, up, answered, crashes>>

Crash(b) ==
    /\ bot[b].alive /\ crashes < MaxCrashes /\ crashes' = crashes + 1
    /\ Die({b})
    /\ script' = IF b = Service THEN [script EXCEPT ![b] = "none"] ELSE script
    /\ UNCHANGED <<installed, updates, confirmed, up, answered>>

\* Somebody runs the start script by hand.
StartByHand ==
    /\ ~bot[Child].alive /\ \A b \in Bots : script[b] = "none"
    /\ script' = [script EXCEPT ![Child] = "kill"]
    /\ UNCHANGED <<installed, updates, confirmed, bot, up, answered, crashes>>

-----------------------------------------------------------------------------
BotStep(b) ==
    \/ PollUpdates(b) \/ HandleQuery(b) \/ HandleQuant(b) \/ Place(b) \/ AnswerOrder(b)
    \/ SystemOn(b) \/ SystemOff(b) \/ SystemRestart(b)

ScriptStep(b) == StopComponents(b) \/ KillByPattern(b) \/ StartComponents(b)

Next ==
    \/ \E kind \in Kinds : Send(kind)
    \/ \E b \in Bots : BotStep(b) \/ ScriptStep(b) \/ ScriptReturns(b) \/ Crash(b)
    \/ Revive \/ StartByHand

\* The bot's one thread and the scripts go on; systemd restarts its bot.  Nobody is
\* bound to start a stopped system by hand.
Fairness ==
    /\ \A b \in Bots : WF_towerVars(BotStep(b)) /\ WF_towerVars(ScriptStep(b))
                       /\ WF_towerVars(script[b] = "done" /\ ScriptReturns(b))
    /\ WF_towerVars(Revive)

-----------------------------------------------------------------------------
\* Telegram forgets no update that no bot handled to the end, although the bots are
\* killed at any point and two of them may poll at once.
NoneForgotten == 1..confirmed \subseteq answered

\* Within one life of a bot no order is sent twice for one update.
PlacedOnce == \A b \in Bots, u \in 1..MaxUpdates : bot[b].placed[u] <= 1

\* With systemd, a plain command is handled at last unless a system command that was sent
\* before it is still in Telegram's queue.
Stuck(u) == \E v \in DOMAIN updates : confirmed < v /\ v <= u /\ updates[v] \in SystemKinds
Heard == \A u \in 1..MaxUpdates : (installed /\ u <= Len(updates)) ~> (u \in answered \/ Stuck(u))
=============================================================================
