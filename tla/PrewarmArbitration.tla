------------------------- MODULE PrewarmArbitration -------------------------
(* The arbitration of prewarm requests: executePrewarmRequest, the scheduler *)
(* of startBrokerServer and the once-reset of the quota settings, in         *)
(* vscode-extension/src/broker/server.ts and quotaSettingsStore.ts.          *)
(*                                                                           *)
(* A prewarm starts a provider's quota timer by one tiny request.  Clients   *)
(* ask for it by hand, the scheduler on its own; a window of a target is     *)
(* claimed in a file, so that two requests do not both dispatch.  A handler  *)
(* awaits the token status and later the dispatcher: everything between two  *)
(* awaits is one action.  The file read before the second await is written   *)
(* back after it.                                                            *)
EXTENDS Integers, Sequences

CONSTANTS
  Targets,       \* antigravity, argon, opus, codex
  Order,         \* each target's place in the order the scheduler visits them
  Reported,      \* targets whose quota the token status reports
  Clients,       \* slots for the requests clients send
  Poller,        \* the scheduler's own slot
  Keys,          \* idempotency keys clients repeat
  None,          \* a key nobody repeats (a fresh UUID), no sample, nothing held
  Asks,          \* the requests clients may send
  Writes,        \* <<target, mode>>: the settings the user may save
  FirstMode,     \* the saved mode of each target at the start
  BucketLength,  \* length of a policy window on the clock
  MaxTime, MaxWrites, MaxPolls, MaxCrashes   \* bounds

Modes == {"click", "once", "always"}
Ask == [target : Targets, manual : BOOLEAN, key : Keys \cup {None}]

ASSUME PrewarmAssumption ==
  /\ Asks \subseteq Ask /\ Writes \subseteq Targets \X Modes
  /\ Reported \subseteq Targets /\ Order \in [Targets -> Nat]
  /\ \A t, u \in Targets : Order[t] = Order[u] => t = u
  /\ FirstMode \in [Targets -> Modes]
  /\ Poller \notin Clients /\ None \notin Keys
  /\ BucketLength \in Nat \ {0}
  /\ {MaxTime, MaxWrites, MaxPolls, MaxCrashes} \subseteq Nat

\* The code's durations, in the order it puts them: 5 s for a manual request and
\* for a measurement to count as new, 30 s after a failure, 60 s after a
\* dispatch, data valid for 5 min.
ManualCooldown == 1
Settle         == 1
FailedCooldown == 2
AutoCooldown   == 3
Freshness      == 4

VARIABLES
  now,       \* Date.now()
  windows,   \* file: the claim of each policy window
  known,     \* file: the idempotency keys with a recorded result
  settings,  \* file of QuotaSettingsStore, with the once-reset keys it has seen
  pc, ask,   \* per slot: its await and its request
  held,      \* per slot: what it read before it awaited the dispatcher
  poll,      \* the scheduler's pass: targets left, settings revision, token status
  sent,      \* history: the dispatches that ended, and whether a process started
  writes, polls, crashes

file == <<windows, known>>
slots == <<pc, ask, held>>
bounds == <<writes, polls, crashes>>
vars == <<now, file, settings, slots, poll, sent, bounds>>

Slots == Clients \cup {Poller}
Windows == Targets \X (0 .. MaxTime \div BucketLength)
Window(t) == <<t, now \div BucketLength>>
Unclaimed == [status |-> "none", at |-> 0]
Unchecked == -1    \* no expectedSettingsRevision
NoPoll == [left |-> {}, rev |-> 0, status |-> None]

Init ==
  /\ now = 0
  /\ windows = [w \in Windows |-> Unclaimed] /\ known = {}
  /\ settings = [rev |-> 1, mode |-> FirstMode, resets |-> {}]
  /\ pc = [r \in Slots |-> "idle"]
  /\ ask = [r \in Slots |-> None]
  /\ held = [r \in Slots |-> None]
  /\ poll = NoPoll /\ sent = <<>>
  /\ writes = 0 /\ polls = 0 /\ crashes = 0

-----------------------------------------------------------------------------
(* The token status: a target's last measurement, when it was made and       *)
(* whether it shows a full quota without a running timer (if not, its *)
(* age makes no difference).                                                 *)
Sample(t, from) == IF t \notin Reported THEN {None}
                   ELSE [at : from .. now, full : {TRUE}] \cup {[at |-> now, full |-> FALSE]}
Oldest == IF now > Freshness THEN now - Freshness - 1 ELSE 0
Ready(s) == s # None /\ s.full /\ now - s.at <= Freshness

\* A request ends; the scheduler goes on to its next target.
Reply(r) ==
  /\ pc' = [pc EXCEPT ![r] = IF r # Poller THEN "done"
                             ELSE IF poll'.left = {} THEN "idle" ELSE "next"]
  /\ ask' = [ask EXCEPT ![r] = None]
  /\ UNCHANGED <<held, sent, settings>>

RememberAny(a) == known' = known \cup {a.key}   \* mutant: absent keys are stored too
\* rememberPrewarmResult of a request that dispatched nothing.
Remember(a) == known' = known \cup ({a.key} \ {None})

SeenNever(a) == FALSE   \* mutant: the key is not looked up
Seen(a) == a.key \in known

BusyAfterDispatch(c, manual) ==   \* mutant: a dispatch in progress does not block
  \/ c.status = "dispatched" /\ now - c.at < (IF manual THEN ManualCooldown ELSE AutoCooldown)
  \/ c.status = "failed" /\ now - c.at < (IF manual THEN ManualCooldown ELSE FailedCooldown)
\* The window has an active or a recent claim.
Busy(c, manual) ==
  \/ c.status = "dispatching"
  \/ BusyAfterDispatch(c, manual)

\* The settings changed since the client read them, or do not allow an automatic
\* prewarm of the target.
Refused(a) == \/ a.exp \notin {Unchecked, settings.rev}
              \/ ~a.manual /\ settings.mode[a.target] = "click"

UnmeasuredNever(c, a, s) == FALSE   \* mutant: any fresh measurement will do
\* After a dispatch an automatic request waits for a newer measurement.
Unmeasured(c, a, s) ==
  ~a.manual /\ c.status = "dispatched" /\ s # None /\ s.at < c.at + Settle

\* The claim is written, then the dispatcher is awaited with the file's content
\* and the settings in local variables.
Claim(r, a, s) ==
  /\ windows' = [windows EXCEPT ![Window(a.target)] = [status |-> "dispatching", at |-> now]]
  /\ held' = [held EXCEPT ![r] = [windows |-> windows', known |-> known, rev |-> settings.rev,
                                  mode |-> settings.mode, window |-> Window(a.target),
                                  measured |-> s.at]]
  /\ ask' = [ask EXCEPT ![r] = a]
  /\ pc' = [pc EXCEPT ![r] = "dispatching"]
  /\ UNCHANGED <<known, settings, sent>>

\* executePrewarmRequest from the token status to its end or to the dispatcher.
Arbitrate(r, a, s) ==
  LET c == windows[Window(a.target)] IN
  /\ IF Seen(a) THEN Reply(r) /\ UNCHANGED file
     ELSE IF Busy(c, a.manual) THEN Reply(r) /\ Remember(a) /\ UNCHANGED windows
     ELSE IF Refused(a) THEN Reply(r) /\ UNCHANGED file
     ELSE IF Unmeasured(c, a, s) \/ ~Ready(s) THEN Reply(r) /\ Remember(a) /\ UNCHANGED windows
     ELSE Claim(r, a, s)
  /\ UNCHANGED <<now, bounds>>

-----------------------------------------------------------------------------
(* Requests of clients                                                       *)

Request(r) ==
  /\ pc[r] = "idle" /\ r # Poller
  /\ \E a \in Asks, exp \in {settings.rev, Unchecked} :
       ask' = [ask EXCEPT ![r] = [target |-> a.target, manual |-> a.manual,
                                  key |-> a.key, exp |-> exp]]
  /\ pc' = [pc EXCEPT ![r] = "reading"]
  /\ UNCHANGED <<now, file, settings, held, poll, sent, bounds>>

\* readTokenStatus returned ...
StatusRead(r) ==
  /\ pc[r] = "reading" /\ r # Poller
  /\ UNCHANGED poll
  /\ \E s \in Sample(ask[r].target, Oldest) : Arbitrate(r, ask[r], s)

\* ... or threw.
StatusFails(r) ==
  /\ pc[r] = "reading"
  /\ poll' = IF r = Poller THEN NoPoll ELSE poll
  /\ Reply(r)
  /\ UNCHANGED <<now, file, bounds>>

-----------------------------------------------------------------------------
(* The scheduler                                                             *)

\* A tick of the interval, when no pass is active and some target is armed.  The
\* targets armed in the settings it read are visited with their revision.
PollStarts ==
  /\ pc[Poller] = "idle" /\ polls < MaxPolls
  /\ \E t \in Targets : settings.mode[t] # "click"
  /\ polls' = polls + 1
  /\ poll' = [left |-> {t \in Targets : settings.mode[t] # "click"},
              rev |-> settings.rev, status |-> None]
  /\ pc' = [pc EXCEPT ![Poller] = "reading"]
  /\ UNCHANGED <<now, file, settings, ask, held, sent, writes, crashes>>

\* One token status serves the whole pass.  A recent dispatch of an armed target makes
\* the scan a forced one; forced or not, it may be answered from the status file, whose
\* measurements are as old as any that count.
PollMeasured ==
  /\ pc[Poller] = "reading"
  /\ \E status \in [Targets -> UNION {Sample(t, 0) : t \in Targets}] :
       /\ \A t \in Targets : status[t] \in Sample(t, Oldest)
       /\ poll' = [poll EXCEPT !.status = status]
  /\ pc' = [pc EXCEPT ![Poller] = "next"]
  /\ UNCHANGED <<now, file, settings, ask, held, sent, bounds>>

\* The pass requests its next target's prewarm, under a key of its own.
PollNext ==
  /\ pc[Poller] = "next"
  /\ \E t \in poll.left :
     /\ \A u \in poll.left : Order[t] <= Order[u]
     /\ poll' = [poll EXCEPT !.left = @ \ {t}]
     /\ Arbitrate(Poller, [target |-> t, manual |-> FALSE, key |-> None, exp |-> poll.rev],
                  poll.status[t])

-----------------------------------------------------------------------------
(* The dispatcher                                                            *)

OutcomeIfSpawned(spawned) ==   \* mutant: the dispatcher's error is not caught
  IF spawned THEN "dispatched" ELSE "dispatching"
Outcome(spawned) == IF spawned THEN "dispatched" ELSE "failed"

ConsumesAlways(r) == ~ask[r].manual /\ held[r].mode[ask[r].target] = "always"   \* mutant
\* An automatic dispatch of a target saved as "once" uses the mode up.
Consumes(r) == ~ask[r].manual /\ held[r].mode[ask[r].target] = "once"

AcceptsAny(r) == TRUE   \* mutant: the write does not compare the revision
\* QuotaSettingsStore.put of the reset: its key was not used for another write,
\* and nobody wrote the settings since.
Accepts(r) == held[r].window \notin settings.resets /\ held[r].rev = settings.rev

\* The modes written are those the handler read before it awaited.
ResetOnce(r) ==
  settings' = IF Consumes(r) /\ Accepts(r)
              THEN [rev |-> settings.rev + 1,
                    mode |-> [held[r].mode EXCEPT ![ask[r].target] = "click"],
                    resets |-> settings.resets \cup {held[r].window}]
              ELSE settings

\* The dispatcher settled (it always does: a process is up after 300 ms, or an
\* error or an exit settles it).  The content of the file that was read before
\* the claim replaces the file.
DispatchEnds(r) ==
  /\ pc[r] = "dispatching"
  /\ \E spawned \in BOOLEAN :
       /\ windows' = [held[r].windows EXCEPT ![held[r].window] =
                        [status |-> Outcome(spawned), at |-> now]]
       /\ known' = held[r].known \cup ({ask[r].key} \ {None})
       /\ IF spawned THEN ResetOnce(r) ELSE UNCHANGED settings
       /\ sent' = Append(sent,
            [target |-> ask[r].target, manual |-> ask[r].manual, key |-> ask[r].key,
             spawned |-> spawned, at |-> now, measured |-> held[r].measured,
             once |-> ~ask[r].manual /\ held[r].mode[ask[r].target] = "once",
             rev |-> held[r].rev])
  /\ pc' = [pc EXCEPT ![r] = IF r # Poller THEN "done"
                             ELSE IF poll.left = {} THEN "idle" ELSE "next"]
  /\ held' = [held EXCEPT ![r] = None]
  /\ ask' = [ask EXCEPT ![r] = None]
  /\ UNCHANGED <<now, poll, bounds>>

-----------------------------------------------------------------------------
(* The user, the clock and the process                                       *)

\* A client saves a mode at the current revision; a stale save changes nothing.
SaveSettings ==
  /\ writes < MaxWrites /\ writes' = writes + 1
  /\ \E w \in Writes : settings' = [settings EXCEPT !.rev = @ + 1, !.mode[w[1]] = w[2]]
  /\ UNCHANGED <<now, file, slots, poll, sent, polls, crashes>>

Tick == now < MaxTime /\ now' = now + 1
        /\ UNCHANGED <<file, settings, slots, poll, sent, bounds>>

\* The broker stops and starts again: the files stay, requests are lost.
CrashAndRestart ==
  /\ crashes < MaxCrashes /\ crashes' = crashes + 1
  /\ pc' = [r \in Slots |-> IF r = Poller \/ pc[r] = "idle" THEN "idle" ELSE "done"]
  /\ held' = [r \in Slots |-> None] /\ ask' = [r \in Slots |-> None]
  /\ poll' = NoPoll
  /\ UNCHANGED <<now, file, settings, sent, writes, polls>>

Next ==
  \/ \E r \in Slots : Request(r) \/ StatusRead(r) \/ StatusFails(r) \/ DispatchEnds(r)
  \/ PollStarts \/ PollMeasured \/ PollNext
  \/ SaveSettings \/ Tick \/ CrashAndRestart

Spec == Init /\ [][Next]_vars

-----------------------------------------------------------------------------
(* Properties                                                                *)

Claims == [status : {"none", "dispatching", "dispatched", "failed"}, at : 0 .. MaxTime]
Held == [windows : [Windows -> Claims], known : SUBSET Keys, rev : Nat,
         mode : [Targets -> Modes], window : Windows, measured : 0 .. MaxTime]

\* The type invariant: the two files and the handlers' local copies.
TypeOK ==
  /\ now \in 0 .. MaxTime
  /\ windows \in [Windows -> Claims] /\ known \subseteq Keys
  /\ settings.rev \in Nat /\ settings.mode \in [Targets -> Modes]
  /\ settings.resets \subseteq Windows
  /\ pc \in [Slots -> {"idle", "reading", "next", "dispatching", "done"}]
  /\ \A r \in Slots : IF pc[r] = "dispatching" THEN held[r] \in Held ELSE held[r] = None
  /\ poll.left \subseteq Targets

Dispatching(w) == {r \in Slots : pc[r] = "dispatching" /\ held[r].window = w}

\* Two requests never dispatch the same window at once (the test of the server
\* at scripts/run-broker-tests.js:708, for every interleaving).
ClaimExcludes ==
  \A r, x \in Slots : pc[r] = "dispatching" /\ pc[x] = "dispatching"
                      /\ held[r].window = held[x].window => r = x

\* A window whose claim says "dispatching" refuses everybody; unless the broker
\* was restarted meanwhile, some request is there to end that claim.
ClaimHasOwner ==
  \A w \in Windows : windows[w].status = "dispatching" => Dispatching(w) # {} \/ crashes > 0

\* A request repeated with its key starts one process at most, whether the
\* repetition overlaps the first, follows it, or follows a restart.
KeyDispatchesOnce ==
  \A i, j \in DOMAIN sent :
    sent[i].spawned /\ sent[j].spawned /\ sent[i].key # None /\ sent[i].key = sent[j].key
    => i = j

Follows(j, i) == /\ i < j /\ sent[i].target = sent[j].target
                 /\ \A k \in i + 1 .. j - 1 : sent[k].target # sent[i].target

\* An automatic prewarm that follows a spawned one of its target relies on a
\* quota measurement in which that one could show.  (With a failed dispatch in
\* between it may not: the failure takes the place of the claim.)
MeasuredAfterLast ==
  \A i, j \in DOMAIN sent : Follows(j, i) /\ sent[i].spawned /\ ~sent[j].manual
                            => sent[j].measured >= sent[i].at + Settle

\* "once ... automatically fires once ..., then reverts to click"
\* (shared/quota/prewarm.ts:24): after such a dispatch the settings have moved on
\* from the revision it read, by the reset or by a write of the user.
OnceMovesOn ==
  \A i \in DOMAIN sent : sent[i].once /\ sent[i].spawned => settings.rev > sent[i].rev

\* A dispatch that ends never undoes what the user saved while it ran: it leaves
\* the modes of other targets alone, and only ever turns "once" into "click".
ResetKeepsSaves ==
  [][\A r \in Slots : DispatchEnds(r) =>
       \A t \in Targets : settings'.mode[t] # settings.mode[t] =>
          t = ask[r].target /\ settings.mode[t] = "once" /\ settings'.mode[t] = "click"]_vars
=============================================================================
