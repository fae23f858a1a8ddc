---------------------- MODULE PrewarmArbitrationProofs ----------------------
(* Theorems about PrewarmArbitration.  The modes of the settings are safe for *)
(* every value of the constants; the claims exclude each other as long as     *)
(* there is one window to claim, since the file of all windows is written     *)
(* back as it was read before the dispatcher.                                 *)
EXTENDS PrewarmArbitration, SequenceTheorems, TLAPS

Asked == [target : Targets, manual : BOOLEAN, key : Keys \cup {None}, exp : Int]
Samples == [at : 0 .. MaxTime, full : BOOLEAN] \cup {None}
Sent == [target : Targets, manual : BOOLEAN, key : Keys \cup {None}, spawned : BOOLEAN,
         at : 0 .. MaxTime, measured : 0 .. MaxTime, once : BOOLEAN, rev : Nat]
\* A token status has no sample of a target whose quota is not reported.
Statuses == {f \in [Targets -> Samples] : \A t \in Targets \ Reported : f[t] = None}
Polls == [left : SUBSET Targets, rev : Nat, status : [Targets -> Samples] \cup {None}]
Settings == [rev : Nat, mode : [Targets -> Modes], resets : SUBSET Windows]

\* The local variables of the handlers and of the scheduler, and the history.
LocalsOK ==
  /\ settings \in Settings
  /\ ask \in [Slots -> Asked \cup {None}] /\ held \in [Slots -> Held \cup {None}]
  /\ \A r \in Slots : pc[r] = "dispatching" => ask[r] \in Asked
  /\ \A r \in Clients : pc[r] = "reading" => ask[r] \in Asked
  /\ \A r \in Clients : pc[r] # "next"
  /\ poll \in Polls
  /\ pc[Poller] \in {"next", "dispatching"} => poll.status \in Statuses
  /\ sent \in Seq(Sent)

\* What a handler read before it awaited the dispatcher: the claim of a reported
\* target, and settings no newer than the file's, and exactly those while nobody
\* wrote them.
ReadOK == \A r \in Slots : pc[r] = "dispatching" =>
  /\ held[r].window[1] = ask[r].target /\ ask[r].target \in Reported
  /\ held[r].rev <= settings.rev
  /\ held[r].rev = settings.rev => held[r].mode = settings.mode

PrewarmInv == TypeOK /\ LocalsOK /\ ReadOK

\* The user does not arm a reported target again while the broker runs.
NeverRearmed == \A t \in Reported : <<t, "once">> \notin Writes

\* A window whose reset was written is of a target that is no longer armed.
ResetsClicked == \A w \in settings.resets :
  w[1] \in Reported /\ settings.mode[w[1]] # "once"

OnceInv == PrewarmInv /\ ResetsClicked /\ OnceMovesOn

\* There is one window to claim: one reported target, within one bucket.
OneWindow == MaxTime < BucketLength /\ \A t, u \in Reported : t = u

\* A request that awaits the dispatcher is the only one; its claim is in the file,
\* and nothing else has changed there.
ClaimOwned == \A r \in Slots : pc[r] = "dispatching" =>
  /\ \A x \in Slots : pc[x] = "dispatching" => x = r
  /\ held[r].window = <<ask[r].target, 0>>
  /\ windows = held[r].windows /\ windows[held[r].window].status = "dispatching"

\* The keys of the dispatches that ended are in the file, and in the copy that a
\* request will write back; its own key is not among them.
KeysKept ==
  /\ \A i \in DOMAIN sent : sent[i].key # None => sent[i].key \in known
  /\ \A r \in Slots : pc[r] = "dispatching" =>
       /\ ask[r].key \notin held[r].known
       /\ \A i \in DOMAIN sent : sent[i].key # None => sent[i].key \in held[r].known
  /\ \A i, j \in DOMAIN sent : sent[i].key # None /\ sent[i].key = sent[j].key => i = j

\* The claim of the window tells of the last dispatch, or of a later claim; that
\* claim is made after a measurement in which the last dispatch could show.
LastClaimed == sent # <<>> =>
  LET l == sent[Len(sent)]
      c == windows[<<l.target, 0>>] IN
  /\ c.status = "dispatching" \/ c = [status |-> Outcome(l.spawned), at |-> l.at]
  /\ \A r \in Slots : pc[r] = "dispatching" /\ l.spawned /\ ~ask[r].manual =>
       held[r].measured >= l.at + Settle

MeasuredInTurn ==
  /\ \A i \in DOMAIN sent : sent[i].target \in Reported
  /\ \A i \in DOMAIN sent : i + 1 \in DOMAIN sent /\ sent[i].spawned /\ ~sent[i + 1].manual =>
       sent[i + 1].measured >= sent[i].at + Settle

WindowInv ==
  /\ PrewarmInv /\ crashes \in Nat
  /\ ClaimOwned /\ ClaimHasOwner /\ KeysKept /\ LastClaimed /\ MeasuredInTurn

-----------------------------------------------------------------------------
(* Types                                                                     *)

\* The clock stays in the windows of the file.
LEMMA BucketInRange ==
  ASSUME NEW n \in 0 .. MaxTime
  PROVE  n \div BucketLength \in 0 .. MaxTime \div BucketLength
BY PrewarmAssumption, SMTT(60)

LEMMA WindowType ==
  ASSUME TypeOK, NEW t \in Targets
  PROVE  Window(t) \in Windows /\ Window(t)[1] = t
BY BucketInRange DEF TypeOK, Window, Windows

\* What a target's measurement can be is a sample.
LEMMA SampleType ==
  ASSUME TypeOK, NEW t \in Targets, NEW from \in 0 .. MaxTime
  PROVE  Sample(t, from) \subseteq Samples
<1>1. now \in 0 .. MaxTime /\ from .. now \subseteq 0 .. MaxTime /\ TRUE \in BOOLEAN /\ FALSE \in BOOLEAN
  BY PrewarmAssumption DEF TypeOK
<1>2. [at : from .. now, full : {TRUE}] \subseteq [at : 0 .. MaxTime, full : BOOLEAN]
  BY <1>1
<1>3. [at |-> now, full |-> FALSE] \in [at : 0 .. MaxTime, full : BOOLEAN]
  BY <1>1
<1> QED BY <1>2, <1>3 DEF Sample, Samples

LEMMA PrewarmInit == Init => PrewarmInv
<1> SUFFICES ASSUME Init PROVE PrewarmInv
  OBVIOUS
<1>1. windows \in [Windows -> Claims]
  BY PrewarmAssumption DEF Init, Claims, Unclaimed
<1>2. TypeOK
  BY <1>1, PrewarmAssumption DEF Init, TypeOK, NoPoll
<1>3. LocalsOK
  BY PrewarmAssumption, EmptySeq DEF Init, LocalsOK, Settings, Polls, NoPoll, Slots
<1> QED BY <1>2, <1>3 DEF PrewarmInv, ReadOK, Init

-----------------------------------------------------------------------------
(* One lemma per way a request moves                                         *)

\* A request ends without a dispatch.
LEMMA ReplyStep ==
  ASSUME PrewarmInv, NEW r \in Slots, pc[r] \in {"reading", "next"}, Reply(r),
         UNCHANGED <<now, windows>>, known' \subseteq Keys, poll' \in Polls,
         r # Poller => poll' = poll,
         r = Poller /\ poll'.left # {} => poll'.status \in Statuses
  PROVE  PrewarmInv'
<1>1. /\ pc'[r] \in {"done", "idle", "next"} /\ ask'[r] = None /\ held' = held
      /\ \A x \in Slots \ {r} : pc'[x] = pc[x] /\ ask'[x] = ask[x]
      /\ r # Poller => pc'[r] = "done"
      /\ pc' \in [Slots -> {"idle", "reading", "next", "dispatching", "done"}]
      /\ UNCHANGED <<sent, settings>>
  BY DEF Reply, PrewarmInv, TypeOK, LocalsOK
<1>2. TypeOK'
  BY <1>1 DEF PrewarmInv, TypeOK, Polls
<1>3. LocalsOK'
  <2>1. ask' \in [Slots -> Asked \cup {None}]
    BY DEF Reply, PrewarmInv, LocalsOK
  <2>2. pc'[Poller] \in {"next", "dispatching"} => poll'.status \in Statuses
    BY PrewarmAssumption DEF Reply, PrewarmInv, LocalsOK, TypeOK, Slots
  <2>3. \A x \in Clients : x # Poller /\ x \in Slots
    BY PrewarmAssumption DEF Slots
  <2> QED BY <1>1, <2>1, <2>2, <2>3 DEF PrewarmInv, LocalsOK
<1>4. ReadOK'
  BY <1>1 DEF PrewarmInv, ReadOK
<1> QED BY <1>2, <1>3, <1>4 DEF PrewarmInv

\* A request claims its window and awaits the dispatcher.
LEMMA ClaimStep ==
  ASSUME PrewarmInv, NEW r \in Slots, NEW a \in Asked, NEW s \in Samples,
         pc[r] \in {"reading", "next"}, a.target \in Reported, Ready(s), Claim(r, a, s), now' = now,
         poll' \in Polls, r # Poller => poll' = poll,
         r = Poller => poll'.status \in Statuses
  PROVE  PrewarmInv'
<1> DEFINE w == Window(a.target)
           c == [status |-> "dispatching", at |-> now]
           h == [windows |-> windows', known |-> known, rev |-> settings.rev,
                 mode |-> settings.mode, window |-> w, measured |-> s.at]
<1>1. w \in Windows /\ w[1] = a.target /\ a.target \in Targets
  BY WindowType DEF PrewarmInv, Asked
<1>2. c \in Claims
  BY DEF Claims, PrewarmInv, TypeOK
<1>3. windows' \in [Windows -> Claims]
  BY <1>1, <1>2 DEF Claim, PrewarmInv, TypeOK
<1>4. s.at \in 0 .. MaxTime
  BY DEF Ready, Samples
<1>5. h \in Held
  BY <1>1, <1>3, <1>4 DEF Held, PrewarmInv, TypeOK
<1>6. /\ pc'[r] = "dispatching" /\ ask'[r] = a /\ held'[r] = h
      /\ \A x \in Slots \ {r} : pc'[x] = pc[x] /\ ask'[x] = ask[x] /\ held'[x] = held[x]
      /\ held' \in [Slots -> Held \cup {None}] /\ ask' \in [Slots -> Asked \cup {None}]
      /\ pc' \in [Slots -> {"idle", "reading", "next", "dispatching", "done"}]
      /\ UNCHANGED <<known, settings, sent>>
  BY <1>5 DEF Claim, PrewarmInv, TypeOK, LocalsOK
<1>7. TypeOK'
  <2> HIDE DEF h
  <2> QED BY <1>3, <1>5, <1>6 DEF PrewarmInv, TypeOK, Polls
<1>8. LocalsOK'
  <2>1. Poller \in Slots /\ \A x \in Clients : x # Poller /\ x \in Slots
    BY PrewarmAssumption DEF Slots
  <2> QED BY <1>6, <2>1 DEF PrewarmInv, LocalsOK
<1>9. ReadOK'
  <2>1. h.window[1] = a.target /\ h.rev = settings.rev /\ h.mode = settings.mode /\ settings.rev \in Nat
    BY <1>1 DEF PrewarmInv, TypeOK
  <2> HIDE DEF h
  <2> QED BY <1>6, <2>1 DEF PrewarmInv, ReadOK
<1> QED BY <1>7, <1>8, <1>9 DEF PrewarmInv

LEMMA ArbitrateStep ==
  ASSUME PrewarmInv, NEW r \in Slots, NEW a \in Asked, NEW s \in Samples,
         pc[r] \in {"reading", "next"}, Arbitrate(r, a, s),
         s # None => a.target \in Reported, poll' \in Polls,
         r # Poller => poll' = poll,
         r = Poller => poll'.status \in Statuses
  PROVE  PrewarmInv'
<1>1. now' = now
  BY DEF Arbitrate
<1>2. CASE Reply(r) /\ (UNCHANGED file \/ (Remember(a) /\ UNCHANGED windows))
  <2>1. windows' = windows /\ known' \subseteq Keys
    BY <1>2 DEF file, Remember, Asked, PrewarmInv, TypeOK
  <2> QED BY <1>1, <1>2, <2>1, ReplyStep
<1>3. CASE Ready(s) /\ Claim(r, a, s)
  BY <1>1, <1>3, ClaimStep DEF Ready
<1> QED BY <1>2, <1>3 DEF Arbitrate

-----------------------------------------------------------------------------
(* The actions                                                               *)

LEMMA RequestStep ==
  ASSUME PrewarmInv, NEW r \in Slots, Request(r)
  PROVE  PrewarmInv'
<1>1. PICK a \in Asks, exp \in {settings.rev, Unchecked} :
        ask' = [ask EXCEPT ![r] = [target |-> a.target, manual |-> a.manual,
                                   key |-> a.key, exp |-> exp]]
  BY DEF Request
<1> DEFINE q == [target |-> a.target, manual |-> a.manual, key |-> a.key, exp |-> exp]
<1>2. q \in Asked
  BY PrewarmAssumption DEF Asked, Ask, PrewarmInv, TypeOK, Unchecked
<1>3. /\ pc' = [pc EXCEPT ![r] = "reading"] /\ pc[r] = "idle" /\ r # Poller
      /\ ask' \in [Slots -> Asked \cup {None}] /\ ask'[r] \in Asked
      /\ \A x \in Slots \ {r} : pc'[x] = pc[x] /\ ask'[x] = ask[x]
      /\ UNCHANGED <<now, windows, known, settings, held, poll, sent>>
  <2> HIDE DEF q
  <2> QED BY <1>1, <1>2 DEF Request, PrewarmInv, LocalsOK, TypeOK, file, q
<1>4. TypeOK'
  BY <1>3 DEF PrewarmInv, TypeOK
<1>5. LocalsOK'
  <2>1. Poller \in Slots /\ \A x \in Clients : x \in Slots
    BY DEF Slots
  <2> QED BY <1>3, <2>1 DEF PrewarmInv, LocalsOK, TypeOK
<1>6. ReadOK'
  BY <1>3 DEF PrewarmInv, ReadOK, TypeOK
<1> QED BY <1>4, <1>5, <1>6 DEF PrewarmInv

LEMMA StatusStep ==
  ASSUME PrewarmInv, NEW r \in Slots, StatusRead(r) \/ StatusFails(r)
  PROVE  PrewarmInv'
<1>1. poll \in Polls
  BY DEF PrewarmInv, LocalsOK
<1>2. CASE StatusRead(r)
  <2>1. ask[r] \in Asked /\ pc[r] = "reading" /\ poll' = poll /\ r # Poller
    BY <1>2 DEF StatusRead, PrewarmInv, LocalsOK, Slots
  <2>2. Oldest \in 0 .. MaxTime
    BY PrewarmAssumption DEF Oldest, Freshness, PrewarmInv, TypeOK
  <2>3. PICK s \in Sample(ask[r].target, Oldest) : Arbitrate(r, ask[r], s)
    BY <1>2 DEF StatusRead
  <2>4. s \in Samples /\ (s # None => ask[r].target \in Reported)
    <3>1. s # None => ask[r].target \in Reported
      BY <2>3 DEF Sample
    <3> QED BY <2>1, <2>2, <3>1, SampleType DEF Asked, PrewarmInv
  <2> QED BY <1>1, <2>1, <2>3, <2>4, ArbitrateStep
<1>3. CASE StatusFails(r)
  <2>1. poll' \in Polls /\ (r = Poller => poll'.left = {})
    BY <1>1, <1>3 DEF StatusFails, NoPoll, Polls
  <2>2. known' \subseteq Keys /\ UNCHANGED <<now, windows>> /\ pc[r] = "reading" /\ Reply(r)
    BY <1>3 DEF StatusFails, file, PrewarmInv, TypeOK
  <2>3. r # Poller => poll' = poll
    BY <1>3 DEF StatusFails
  <2> QED BY <2>1, <2>2, <2>3, ReplyStep
<1> QED BY <1>2, <1>3

LEMMA PollStep ==
  ASSUME PrewarmInv, PollStarts \/ PollMeasured \/ PollNext
  PROVE  PrewarmInv'
<1>1. Poller \in Slots /\ \A x \in Clients : x # Poller /\ x \in Slots
  BY PrewarmAssumption DEF Slots
<1>2. poll \in Polls /\ now \in 0 .. MaxTime
  BY DEF PrewarmInv, LocalsOK, TypeOK
<1>3. ASSUME NEW step \in {"reading", "next"}, pc[Poller] \in {"idle", "reading"},
             pc' = [pc EXCEPT ![Poller] = step], poll' \in Polls,
             step = "next" => poll'.status \in Statuses,
             UNCHANGED <<now, file, settings, ask, held, sent>>
      PROVE  PrewarmInv'
  <2>1. TypeOK'
    BY <1>1, <1>3 DEF PrewarmInv, TypeOK, file, Polls
  <2>2. LocalsOK'
    BY <1>1, <1>3 DEF PrewarmInv, LocalsOK, TypeOK
  <2>3. ReadOK'
    BY <1>1, <1>3 DEF PrewarmInv, ReadOK, TypeOK
  <2> QED BY <2>1, <2>2, <2>3 DEF PrewarmInv
<1>4. CASE PollStarts
  <2>1. poll' \in Polls
    BY <1>4 DEF PollStarts, Polls, PrewarmInv, TypeOK
  <2> QED BY <1>3, <1>4, <2>1 DEF PollStarts
<1>5. CASE PollMeasured
  <2>1. PICK status \in [Targets -> UNION {Sample(t, 0) : t \in Targets}] :
          /\ \A t \in Targets : status[t] \in Sample(t, Oldest)
          /\ poll' = [poll EXCEPT !.status = status]
    BY <1>5 DEF PollMeasured
  <2>2. 0 \in 0 .. MaxTime
    BY PrewarmAssumption
  <2>3. \A t \in Targets : Sample(t, 0) \subseteq Samples
    BY <2>2, SampleType DEF PrewarmInv
  <2>4. status \in Statuses
    <3>1. status \in [Targets -> Samples]
      BY <2>3
    <3>2. \A t \in Targets \ Reported : status[t] = None
      BY <2>1 DEF Sample
    <3> QED BY <3>1, <3>2 DEF Statuses
  <2>5. poll' \in Polls /\ poll'.status = status
    BY <1>2, <2>1, <2>4 DEF Polls, Statuses
  <2> QED BY <1>3, <1>5, <2>4, <2>5 DEF PollMeasured
<1>6. CASE PollNext
  <2>1. PICK t \in poll.left :
          /\ poll' = [poll EXCEPT !.left = @ \ {t}]
          /\ Arbitrate(Poller, [target |-> t, manual |-> FALSE, key |-> None, exp |-> poll.rev],
                       poll.status[t])
    BY <1>6 DEF PollNext
  <2>2. t \in Targets /\ poll.status[t] \in Samples /\ poll.status \in Statuses
        /\ pc[Poller] = "next" /\ (poll.status[t] # None => t \in Reported)
    BY <1>2, <1>6, <2>1 DEF PollNext, PrewarmInv, LocalsOK, Polls, Statuses
  <2>3. [target |-> t, manual |-> FALSE, key |-> None, exp |-> poll.rev] \in Asked
    BY <1>2, <2>2 DEF Asked, Polls
  <2>4. poll' \in Polls /\ poll'.status = poll.status
    BY <1>2, <2>1 DEF Polls
  <2> QED BY <1>1, <2>1, <2>2, <2>3, <2>4, ArbitrateStep
<1> QED BY <1>4, <1>5, <1>6

\* What the settings become when a dispatch ends.
LEMMA ResetOnceType ==
  ASSUME PrewarmInv, NEW r \in Slots, pc[r] = "dispatching", ResetOnce(r) \/ UNCHANGED settings
  PROVE  /\ settings' \in Settings
         /\ settings' = settings \/ settings'.rev = settings.rev + 1
<1>1. held[r] \in Held /\ ask[r] \in Asked /\ settings \in Settings
  BY DEF PrewarmInv, TypeOK, LocalsOK
<1>2. [held[r].mode EXCEPT ![ask[r].target] = "click"] \in [Targets -> Modes]
  BY <1>1 DEF Held, Asked, Modes
<1>3. settings.resets \cup {held[r].window} \subseteq Windows /\ settings.rev + 1 \in Nat
  BY <1>1 DEF Held, Settings
<1> QED BY <1>1, <1>2, <1>3 DEF ResetOnce, Settings

LEMMA DispatchEndsStep ==
  ASSUME PrewarmInv, NEW r \in Slots, DispatchEnds(r)
  PROVE  PrewarmInv'
<1>1. PICK spawned \in BOOLEAN :
       /\ windows' = [held[r].windows EXCEPT ![held[r].window] =
                        [status |-> Outcome(spawned), at |-> now]]
       /\ known' = held[r].known \cup ({ask[r].key} \ {None})
       /\ IF spawned THEN ResetOnce(r) ELSE UNCHANGED settings
       /\ sent' = Append(sent,
            [target |-> ask[r].target, manual |-> ask[r].manual, key |-> ask[r].key,
             spawned |-> spawned, at |-> now, measured |-> held[r].measured,
             once |-> ~ask[r].manual /\ held[r].mode[ask[r].target] = "once",
             rev |-> held[r].rev])
  BY DEF DispatchEnds
<1>2. /\ pc[r] = "dispatching" /\ held[r] \in Held /\ ask[r] \in Asked /\ now \in 0 .. MaxTime
  BY DEF DispatchEnds, PrewarmInv, TypeOK, LocalsOK
<1> DEFINE d == [target |-> ask[r].target, manual |-> ask[r].manual, key |-> ask[r].key,
                 spawned |-> spawned, at |-> now, measured |-> held[r].measured,
                 once |-> ~ask[r].manual /\ held[r].mode[ask[r].target] = "once",
                 rev |-> held[r].rev]
<1>3. windows' \in [Windows -> Claims] /\ known' \subseteq Keys
  BY <1>1, <1>2 DEF Held, Asked, Claims, Outcome
<1>4. d \in Sent
  <2>1. (~ask[r].manual /\ held[r].mode[ask[r].target] = "once") \in BOOLEAN
    OBVIOUS
  <2> QED BY <1>2, <2>1 DEF Sent, Held, Asked
<1>5. sent' \in Seq(Sent)
  <2> HIDE DEF d
  <2> QED BY <1>1, <1>4, AppendProperties DEF PrewarmInv, LocalsOK, d
<1>6. settings' \in Settings /\ (settings' = settings \/ settings'.rev = settings.rev + 1)
  BY <1>1, <1>2, ResetOnceType
<1>7. /\ pc'[r] \in {"done", "idle", "next"} /\ held'[r] = None /\ ask'[r] = None
      /\ \A x \in Slots \ {r} : pc'[x] = pc[x] /\ ask'[x] = ask[x] /\ held'[x] = held[x]
      /\ r # Poller => pc'[r] = "done"
      /\ pc' \in [Slots -> {"idle", "reading", "next", "dispatching", "done"}]
      /\ held' \in [Slots -> Held \cup {None}] /\ ask' \in [Slots -> Asked \cup {None}]
      /\ UNCHANGED <<now, poll>>
  BY DEF DispatchEnds, PrewarmInv, TypeOK, LocalsOK
<1>8. TypeOK'
  BY <1>3, <1>6, <1>7 DEF PrewarmInv, TypeOK, Settings
<1>9. LocalsOK'
  <2>1. Poller \in Slots /\ \A x \in Clients : x # Poller /\ x \in Slots
    BY PrewarmAssumption DEF Slots
  <2>2. pc'[Poller] \in {"next", "dispatching"} => poll.status \in Statuses
    BY <1>2, <1>7, <2>1 DEF PrewarmInv, LocalsOK
  <2> QED BY <1>5, <1>6, <1>7, <2>1, <2>2 DEF PrewarmInv, LocalsOK
<1>10. ReadOK'
  <2>1. \A x \in Slots : pc[x] = "dispatching" => held[x].rev \in Nat
    BY DEF PrewarmInv, TypeOK, Held
  <2>2. settings.rev \in Nat
    BY DEF PrewarmInv, TypeOK
  <2> QED BY <1>6, <1>7, <2>1, <2>2 DEF PrewarmInv, ReadOK
<1> QED BY <1>8, <1>9, <1>10 DEF PrewarmInv

\* The user saves a mode at the settings' revision, which moves on.
LEMMA SaveSettingsStep ==
  ASSUME PrewarmInv, SaveSettings
  PROVE  PrewarmInv'
<1>1. PICK w \in Writes : settings' = [settings EXCEPT !.rev = @ + 1, !.mode[w[1]] = w[2]]
  BY DEF SaveSettings
<1>2. w[1] \in Targets /\ w[2] \in Modes /\ settings \in Settings
  BY PrewarmAssumption DEF PrewarmInv, LocalsOK
<1>3. settings' \in Settings /\ settings'.rev = settings.rev + 1
  <2>1. settings' = [rev |-> settings.rev + 1, mode |-> [settings.mode EXCEPT ![w[1]] = w[2]],
                     resets |-> settings.resets]
    BY <1>1, <1>2 DEF Settings
  <2>2. settings.rev + 1 \in Nat /\ [settings.mode EXCEPT ![w[1]] = w[2]] \in [Targets -> Modes]
    BY <1>2 DEF Settings
  <2> QED BY <1>2, <2>1, <2>2 DEF Settings
<1>4. UNCHANGED <<now, windows, known, pc, ask, held, poll, sent>>
  BY DEF SaveSettings, file, slots
<1>5. TypeOK'
  BY <1>3, <1>4 DEF PrewarmInv, TypeOK, Settings
<1>6. LocalsOK'
  BY <1>3, <1>4 DEF PrewarmInv, LocalsOK
<1>7. ReadOK'
  <2>1. \A x \in Slots : pc[x] = "dispatching" => held[x].rev \in Nat
    BY DEF PrewarmInv, TypeOK, Held
  <2> QED BY <1>2, <1>3, <1>4, <2>1 DEF PrewarmInv, ReadOK, Settings
<1> QED BY <1>5, <1>6, <1>7 DEF PrewarmInv

LEMMA ClockAndCrashStep ==
  ASSUME PrewarmInv, Tick \/ CrashAndRestart \/ UNCHANGED vars
  PROVE  PrewarmInv'
<1>1. CASE Tick
  <2>1. now' \in 0 .. MaxTime
    BY <1>1, PrewarmAssumption DEF Tick, PrewarmInv, TypeOK
  <2> QED BY <1>1, <2>1 DEF Tick, file, slots, PrewarmInv, TypeOK, LocalsOK, ReadOK
<1>2. CASE CrashAndRestart
  <2>1. /\ \A x \in Slots : pc'[x] \in {"idle", "done"} /\ held'[x] = None
        /\ pc' \in [Slots -> {"idle", "reading", "next", "dispatching", "done"}]
        /\ held' \in [Slots -> Held \cup {None}] /\ ask' \in [Slots -> Asked \cup {None}]
        /\ UNCHANGED <<now, windows, known, settings, sent>>
    BY <1>2 DEF CrashAndRestart, file
  <2>2. poll' \in Polls /\ poll'.left \subseteq Targets
    BY <1>2 DEF CrashAndRestart, NoPoll, Polls
  <2>3. TypeOK'
    BY <2>1, <2>2 DEF PrewarmInv, TypeOK
  <2>4. Poller \in Slots /\ \A x \in Clients : x \in Slots
    BY DEF Slots
  <2>5. LocalsOK'
    BY <2>1, <2>2, <2>4 DEF PrewarmInv, LocalsOK
  <2> QED BY <2>1, <2>3, <2>5 DEF PrewarmInv, ReadOK
<1>3. CASE UNCHANGED vars
  BY <1>3 DEF vars, file, slots, PrewarmInv, TypeOK, LocalsOK, ReadOK
<1> QED BY <1>1, <1>2, <1>3

LEMMA PrewarmNext == PrewarmInv /\ [Next]_vars => PrewarmInv'
BY RequestStep, StatusStep, PollStep, DispatchEndsStep, SaveSettingsStep, ClockAndCrashStep
   DEF Next

-----------------------------------------------------------------------------
(* Theorems                                                                  *)

\* The two files and what the handlers hold of them keep their types: the clock
\* never leaves the windows of the file, and a handler holds a copy of the file
\* exactly while it awaits the dispatcher.
THEOREM PrewarmTypes == Spec => []TypeOK
<1>1. PrewarmInv => TypeOK
  BY DEF PrewarmInv
<1> QED BY <1>1, PrewarmInit, PrewarmNext, PTL DEF Spec

\* The modes a dispatch writes back are those it read before it awaited the
\* dispatcher; they are written at the revision it read, so nothing is undone
\* that the user saved meanwhile.
THEOREM SavesSurvive == Spec => ResetKeepsSaves
<1> DEFINE Keeps(r) ==
      \A t \in Targets : settings'.mode[t] # settings.mode[t] =>
         t = ask[r].target /\ settings.mode[t] = "once" /\ settings'.mode[t] = "click"
<1>1. ASSUME PrewarmInv, NEW r \in Slots, DispatchEnds(r)
      PROVE  Keeps(r)
  <2>1. pc[r] = "dispatching" /\ (ResetOnce(r) \/ settings' = settings)
    BY <1>1 DEF DispatchEnds
  <2>2. CASE settings' = settings
    BY <2>2
  <2>3. CASE Consumes(r) /\ Accepts(r) /\ settings' # settings
    <3>1. held[r].mode = settings.mode /\ settings.mode[ask[r].target] = "once"
      BY <1>1, <2>1, <2>3 DEF Accepts, Consumes, PrewarmInv, ReadOK
    <3>2. settings.mode \in [Targets -> Modes] /\ ask[r].target \in Targets
      BY <1>1, <2>1 DEF PrewarmInv, TypeOK, LocalsOK, Asked
    <3>3. settings'.mode = [settings.mode EXCEPT ![ask[r].target] = "click"]
      BY <2>1, <2>3, <3>1 DEF ResetOnce
    <3> QED BY <3>1, <3>2, <3>3
  <2> QED BY <2>1, <2>2, <2>3 DEF ResetOnce
<1>2. PrewarmInv /\ [Next]_vars => [\A r \in Slots : DispatchEnds(r) => Keeps(r)]_vars
  BY <1>1
<1> QED BY <1>2, PrewarmInit, PrewarmNext, PTL DEF Spec, ResetKeepsSaves

-----------------------------------------------------------------------------
(* How a step touches the claims: it makes one, ends one, loses all, or none  *)

Claiming(r, a, s) ==
  /\ pc[r] # "dispatching" /\ a.target \in Reported /\ s # None
  /\ ~Seen(a) /\ ~Busy(windows[Window(a.target)], a.manual)
  /\ ~Unmeasured(windows[Window(a.target)], a, s)
  /\ Claim(r, a, s) /\ UNCHANGED <<now, crashes>>

Quiet ==
  /\ UNCHANGED <<windows, sent, crashes>> /\ known \subseteq known'
  /\ \A x \in Slots : /\ pc'[x] = "dispatching" <=> pc[x] = "dispatching"
                      /\ pc[x] = "dispatching" => ask'[x] = ask[x] /\ held'[x] = held[x]
  /\ \/ UNCHANGED settings
     \/ \E w \in Writes : settings' = [settings EXCEPT !.rev = @ + 1, !.mode[w[1]] = w[2]]

LEMMA ArbitratesHow ==
  ASSUME PrewarmInv, NEW r \in Slots, NEW a \in Asked, NEW s \in Samples,
         pc[r] \in {"reading", "next"}, Arbitrate(r, a, s), s # None => a.target \in Reported
  PROVE  Claiming(r, a, s) \/ Quiet
<1>1. UNCHANGED <<now, crashes>>
  BY DEF Arbitrate, bounds
<1>2. CASE Reply(r) /\ (UNCHANGED file \/ (Remember(a) /\ UNCHANGED windows))
  <2>1. \A x \in Slots : /\ pc'[x] = "dispatching" <=> pc[x] = "dispatching"
                        /\ pc[x] = "dispatching" => ask'[x] = ask[x]
    BY <1>2 DEF Reply, PrewarmInv, TypeOK, LocalsOK
  <2> QED BY <1>1, <1>2, <2>1 DEF Reply, Remember, file, Quiet
<1>3. CASE /\ ~Seen(a) /\ ~Busy(windows[Window(a.target)], a.manual) /\ Ready(s)
           /\ ~Unmeasured(windows[Window(a.target)], a, s) /\ Claim(r, a, s)
  BY <1>1, <1>3 DEF Claiming, Ready
<1> QED BY <1>2, <1>3 DEF Arbitrate

LEMMA StepsHow ==
  ASSUME PrewarmInv, [Next]_vars
  PROVE  \/ \E r \in Slots, a \in Asked, s \in Samples : Claiming(r, a, s)
         \/ \E r \in Slots : DispatchEnds(r)
         \/ CrashAndRestart
         \/ Quiet
<1>1. ASSUME NEW r \in Slots, Request(r) PROVE Quiet
  BY <1>1 DEF Request, Quiet, file, bounds, PrewarmInv, TypeOK, LocalsOK
<1>2. ASSUME NEW r \in Slots, StatusRead(r)
      PROVE  Quiet \/ \E a \in Asked, s \in Samples : Claiming(r, a, s)
  <2>1. ask[r] \in Asked /\ pc[r] = "reading"
    BY <1>2 DEF StatusRead, PrewarmInv, LocalsOK, Slots
  <2>2. PICK s \in Sample(ask[r].target, Oldest) : Arbitrate(r, ask[r], s)
    BY <1>2 DEF StatusRead
  <2>3. Oldest \in 0 .. MaxTime
    BY PrewarmAssumption DEF Oldest, Freshness, PrewarmInv, TypeOK
  <2>4. s # None => ask[r].target \in Reported
    BY <2>2 DEF Sample
  <2>5. s \in Samples
    BY <2>1, <2>2, <2>3, SampleType DEF Asked, PrewarmInv
  <2> QED BY <2>1, <2>2, <2>4, <2>5, ArbitratesHow
<1>3. ASSUME NEW r \in Slots, StatusFails(r) PROVE Quiet
  BY <1>3 DEF StatusFails, Reply, Quiet, file, bounds, PrewarmInv, TypeOK, LocalsOK
<1>4. Poller \in Slots
  BY DEF Slots
<1>5. CASE PollStarts \/ PollMeasured
  BY <1>4, <1>5 DEF PollStarts, PollMeasured, Quiet, file, bounds, PrewarmInv, TypeOK, LocalsOK
<1>6. CASE PollNext
  <2>1. PICK t \in poll.left :
          Arbitrate(Poller, [target |-> t, manual |-> FALSE, key |-> None, exp |-> poll.rev],
                    poll.status[t])
    BY <1>6 DEF PollNext
  <2>2. t \in Targets /\ poll.status[t] \in Samples /\ pc[Poller] = "next"
        /\ (poll.status[t] # None => t \in Reported)
    BY <1>6, <2>1 DEF PollNext, PrewarmInv, LocalsOK, Polls, Statuses
  <2>3. [target |-> t, manual |-> FALSE, key |-> None, exp |-> poll.rev] \in Asked
    BY <2>2 DEF Asked, Polls, PrewarmInv, LocalsOK
  <2> QED BY <1>4, <2>1, <2>2, <2>3, ArbitratesHow
<1>7. CASE SaveSettings
  BY <1>7 DEF SaveSettings, Quiet, file, slots
<1>8. CASE Tick \/ UNCHANGED vars
  BY <1>8 DEF Tick, Quiet, file, slots, bounds, vars
<1> QED BY <1>1, <1>2, <1>3, <1>5, <1>6, <1>7, <1>8 DEF Next

\* A dispatch that ends is the next of the history.
LEMMA SentGrows ==
  ASSUME PrewarmInv, NEW r \in Slots, DispatchEnds(r)
  PROVE  /\ Len(sent) \in Nat /\ DOMAIN sent = 1 .. Len(sent)
         /\ DOMAIN sent' = 1 .. Len(sent) + 1 /\ Len(sent') = Len(sent) + 1
         /\ \A i \in DOMAIN sent : sent'[i] = sent[i]
         /\ \E spawned \in BOOLEAN :
              /\ windows' = [held[r].windows EXCEPT ![held[r].window] =
                               [status |-> Outcome(spawned), at |-> now]]
              /\ IF spawned THEN ResetOnce(r) ELSE UNCHANGED settings
              /\ sent'[Len(sent) + 1] =
                   [target |-> ask[r].target, manual |-> ask[r].manual, key |-> ask[r].key,
                    spawned |-> spawned, at |-> now, measured |-> held[r].measured,
                    once |-> ~ask[r].manual /\ held[r].mode[ask[r].target] = "once",
                    rev |-> held[r].rev]
         /\ known' = held[r].known \cup ({ask[r].key} \ {None})
<1>1. sent \in Seq(Sent)
  BY DEF PrewarmInv, LocalsOK
<1>2. PICK spawned \in BOOLEAN :
       /\ windows' = [held[r].windows EXCEPT ![held[r].window] =
                        [status |-> Outcome(spawned), at |-> now]]
       /\ known' = held[r].known \cup ({ask[r].key} \ {None})
       /\ IF spawned THEN ResetOnce(r) ELSE UNCHANGED settings
       /\ sent' = Append(sent,
            [target |-> ask[r].target, manual |-> ask[r].manual, key |-> ask[r].key,
             spawned |-> spawned, at |-> now, measured |-> held[r].measured,
             once |-> ~ask[r].manual /\ held[r].mode[ask[r].target] = "once",
             rev |-> held[r].rev])
  BY DEF DispatchEnds
<1> DEFINE d == [target |-> ask[r].target, manual |-> ask[r].manual, key |-> ask[r].key,
                 spawned |-> spawned, at |-> now, measured |-> held[r].measured,
                 once |-> ~ask[r].manual /\ held[r].mode[ask[r].target] = "once",
                 rev |-> held[r].rev]
<1>3. ASSUME NEW e PROVE /\ DOMAIN Append(sent, e) = 1 .. Len(sent) + 1
                         /\ Len(Append(sent, e)) = Len(sent) + 1
                         /\ \A i \in DOMAIN sent : Append(sent, e)[i] = sent[i]
                         /\ Append(sent, e)[Len(sent) + 1] = e
  BY <1>1, AppendProperties, LenProperties
<1>4. /\ DOMAIN sent' = 1 .. Len(sent) + 1 /\ Len(sent') = Len(sent) + 1
      /\ \A i \in DOMAIN sent : sent'[i] = sent[i]
      /\ sent'[Len(sent) + 1] = d
  <2> HIDE DEF d
  <2> QED BY <1>2, <1>3 DEF d
<1>5. Len(sent) \in Nat /\ DOMAIN sent = 1 .. Len(sent)
  BY <1>1, LenProperties
<1> QED BY <1>2, <1>4, <1>5

-----------------------------------------------------------------------------
(* "once" is used up                                                         *)

LEMMA OnceStep ==
  ASSUME NeverRearmed, OnceInv, [Next]_vars
  PROVE  OnceInv'
<1>1. PrewarmInv'
  BY PrewarmNext DEF OnceInv
<1>2. settings \in Settings /\ settings.rev \in Nat
      /\ (\A i \in DOMAIN sent : sent[i].rev \in Nat) /\ DOMAIN sent = 1 .. Len(sent)
  <2>1. sent \in Seq(Sent) /\ settings \in Settings
    BY DEF OnceInv, PrewarmInv, LocalsOK
  <2>2. DOMAIN sent = 1 .. Len(sent) /\ \A i \in DOMAIN sent : sent[i] \in Sent
    BY <2>1, LenProperties, ElementOfSeq
  <2> QED BY <2>1, <2>2 DEF Settings, Sent
<1>3. CASE UNCHANGED sent /\ (\/ UNCHANGED settings
                             \/ \E w \in Writes : settings' = [settings EXCEPT !.rev = @ + 1, !.mode[w[1]] = w[2]])
  <2>1. CASE UNCHANGED settings
    BY <1>1, <1>3, <2>1 DEF OnceInv, ResetsClicked, OnceMovesOn
  <2>2. CASE \E w \in Writes : settings' = [settings EXCEPT !.rev = @ + 1, !.mode[w[1]] = w[2]]
    <3>1. PICK w \in Writes : settings' = [settings EXCEPT !.rev = @ + 1, !.mode[w[1]] = w[2]]
      BY <2>2
    <3>2. w \in Targets \X Modes /\ w = <<w[1], w[2]>>
      BY PrewarmAssumption
    <3>3. /\ settings'.rev = settings.rev + 1 /\ settings'.resets = settings.resets
          /\ settings'.mode = [settings.mode EXCEPT ![w[1]] = w[2]]
      BY <1>2, <3>1 DEF Settings
    <3>4. ResetsClicked'
      <4>1. \A t \in Reported : settings.mode[t] # "once" => settings'.mode[t] # "once"
        BY <1>2, <3>2, <3>3, PrewarmAssumption DEF NeverRearmed, Settings
      <4> QED BY <3>3, <4>1 DEF OnceInv, ResetsClicked
    <3>5. OnceMovesOn'
      <4>1. ASSUME NEW i \in DOMAIN sent, sent[i].once, sent[i].spawned
            PROVE  settings'.rev > sent[i].rev
        BY <1>2, <3>3, <4>1 DEF OnceInv, OnceMovesOn
      <4> QED BY <1>3, <4>1 DEF OnceMovesOn
    <3> QED BY <1>1, <3>4, <3>5 DEF OnceInv
  <2> QED BY <1>3, <2>1, <2>2
<1>4. ASSUME NEW r \in Slots, DispatchEnds(r) PROVE OnceInv'
  <2> DEFINE n == Len(sent) + 1
  <2>1. PrewarmInv /\ pc[r] = "dispatching" /\ held[r] \in Held /\ held[r].rev \in Nat
        /\ ask[r] \in Asked /\ held[r].window \in Windows
    BY <1>4 DEF DispatchEnds, OnceInv, PrewarmInv, TypeOK, LocalsOK, Held
  <2>2. /\ DOMAIN sent' = 1 .. n /\ \A i \in DOMAIN sent : sent'[i] = sent[i]
        /\ sent'[n].rev = held[r].rev
        /\ sent'[n].spawned => ResetOnce(r)
        /\ sent'[n].once => Consumes(r)
        /\ ~sent'[n].spawned => UNCHANGED settings
        /\ Len(sent) \in Nat
    <3>1. PICK spawned \in BOOLEAN :
            /\ IF spawned THEN ResetOnce(r) ELSE UNCHANGED settings
            /\ sent'[Len(sent) + 1] =
                   [target |-> ask[r].target, manual |-> ask[r].manual, key |-> ask[r].key,
                    spawned |-> spawned, at |-> now, measured |-> held[r].measured,
                    once |-> ~ask[r].manual /\ held[r].mode[ask[r].target] = "once",
                    rev |-> held[r].rev]
      BY <1>4, <2>1, SentGrows
    <3>2. sent'[n].rev = held[r].rev /\ sent'[n].spawned = spawned
          /\ sent'[n].once = (~ask[r].manual /\ held[r].mode[ask[r].target] = "once")
      BY <3>1
    <3>3. /\ DOMAIN sent' = 1 .. n /\ (\A i \in DOMAIN sent : sent'[i] = sent[i])
          /\ Len(sent) \in Nat
      BY <1>4, <2>1, SentGrows
    <3> QED BY <3>1, <3>2, <3>3 DEF Consumes
  <2>3. held[r].rev <= settings.rev /\ held[r].window[1] = ask[r].target /\ ask[r].target \in Reported
        /\ (held[r].rev = settings.rev => held[r].mode = settings.mode)
    BY <2>1 DEF PrewarmInv, ReadOK
  <2>4. CASE Consumes(r) /\ Accepts(r) /\ sent'[n].spawned
    <3>1. /\ settings'.rev = settings.rev + 1
          /\ settings'.resets = settings.resets \cup {held[r].window}
          /\ settings'.mode = [settings.mode EXCEPT ![ask[r].target] = "click"]
      BY <2>2, <2>3, <2>4 DEF ResetOnce, Accepts
    <3>2. \A t \in Targets : settings'.mode[t] = IF t = ask[r].target THEN "click" ELSE settings.mode[t]
      BY <1>2, <3>1 DEF Settings
    <3>3. ResetsClicked'
      BY <2>1, <2>3, <3>1, <3>2, PrewarmAssumption DEF OnceInv, ResetsClicked
    <3>4. OnceMovesOn'
      <4>1. ASSUME NEW i \in DOMAIN sent', sent'[i].once, sent'[i].spawned
            PROVE  settings'.rev > sent'[i].rev
        <5>1. CASE i = n
          BY <1>2, <2>1, <2>2, <2>3, <3>1, <5>1
        <5>2. CASE i \in DOMAIN sent
          <6>1. sent[i].once /\ sent[i].spawned /\ sent'[i].rev = sent[i].rev
            BY <2>2, <4>1, <5>2
          <6> QED BY <1>2, <3>1, <5>2, <6>1 DEF OnceInv, OnceMovesOn
        <5> QED BY <1>2, <2>2, <4>1, <5>1, <5>2
      <4> QED BY <4>1 DEF OnceMovesOn
    <3> QED BY <1>1, <3>3, <3>4 DEF OnceInv
  <2>5. CASE ~(Consumes(r) /\ Accepts(r) /\ sent'[n].spawned)
    <3>1. UNCHANGED settings
      BY <2>2, <2>5 DEF ResetOnce
    <3>2. OnceMovesOn'
      <4>1. ASSUME NEW i \in DOMAIN sent', sent'[i].once, sent'[i].spawned
            PROVE  settings'.rev > sent'[i].rev
        <5>1. CASE i = n
          <6>1. Consumes(r) /\ ~Accepts(r) /\ sent'[n].rev = held[r].rev
            BY <2>2, <2>5, <4>1, <5>1
          <6>2. held[r].rev # settings.rev
            BY <2>3, <6>1 DEF Accepts, Consumes, OnceInv, ResetsClicked
          <6> QED BY <1>2, <2>1, <2>3, <3>1, <5>1, <6>1, <6>2
        <5>2. CASE i \in DOMAIN sent
          <6>1. sent[i].once /\ sent[i].spawned /\ sent'[i].rev = sent[i].rev
            BY <2>2, <4>1, <5>2
          <6> QED BY <3>1, <5>2, <6>1 DEF OnceInv, OnceMovesOn
        <5> QED BY <1>2, <2>2, <4>1, <5>1, <5>2
      <4> QED BY <4>1 DEF OnceMovesOn
    <3> QED BY <1>1, <3>1, <3>2 DEF OnceInv, ResetsClicked
  <2> QED BY <2>4, <2>5
<1>5. ASSUME NEW r \in Slots, NEW a \in Asked, NEW s \in Samples, Claiming(r, a, s)
      PROVE  OnceInv'
  BY <1>3, <1>5 DEF Claiming, Claim
<1> QED BY <1>3, <1>4, <1>5, StepsHow DEF OnceInv, Quiet, CrashAndRestart

\* A prewarm armed "once" that started a process uses the mode up: the settings
\* have moved on from what it read, unless the user arms the target again (the
\* key of the reset is then taken, as a run shows).
THEOREM OnceUsedUp == ASSUME NeverRearmed PROVE Spec => []OnceMovesOn
<1>1. Init => OnceInv
  BY PrewarmInit, EmptySeq DEF Init, OnceInv, ResetsClicked, OnceMovesOn
<1>2. OnceInv /\ [Next]_vars => OnceInv'
  BY OnceStep
<1>3. OnceInv => OnceMovesOn
  BY DEF OnceInv
<1> QED BY <1>1, <1>2, <1>3, PTL DEF Spec

-----------------------------------------------------------------------------
(* One window to claim                                                       *)

LEMMA OneBucket ==
  ASSUME OneWindow, TypeOK, NEW t
  PROVE  Window(t) = <<t, 0>>
<1>1. /\ now \in Nat /\ BucketLength \in Nat /\ MaxTime \in Nat /\ MaxTime < BucketLength
      /\ now <= MaxTime
  BY PrewarmAssumption DEF TypeOK, OneWindow
<1>2. now \div BucketLength = 0
  BY <1>1, SMTT(60)
<1> QED BY <1>2 DEF Window

\* Nothing about the claims depends on the rest of the state.
LEMMA WindowQuiet ==
  ASSUME WindowInv, PrewarmInv', Quiet
  PROVE  WindowInv'
<1>1. /\ UNCHANGED <<windows, sent, crashes>> /\ known \subseteq known'
      /\ \A x \in Slots : /\ pc'[x] = "dispatching" <=> pc[x] = "dispatching"
                          /\ pc[x] = "dispatching" => ask'[x] = ask[x] /\ held'[x] = held[x]
  BY DEF Quiet
<1>2. ClaimOwned'
  BY <1>1 DEF WindowInv, ClaimOwned
<1>3. ClaimHasOwner'
  <2>1. \A w : Dispatching(w)' = Dispatching(w)
    BY <1>1 DEF Dispatching
  <2> QED BY <1>1, <2>1 DEF WindowInv, ClaimHasOwner
<1>4. KeysKept'
  BY <1>1 DEF WindowInv, KeysKept
<1>5. LastClaimed'
  BY <1>1 DEF WindowInv, LastClaimed
<1>6. MeasuredInTurn'
  BY <1>1 DEF WindowInv, MeasuredInTurn
<1> QED BY <1>1, <1>2, <1>3, <1>4, <1>5, <1>6 DEF WindowInv

\* A restart leaves no request to end a claim.
LEMMA WindowCrash ==
  ASSUME WindowInv, PrewarmInv', CrashAndRestart
  PROVE  WindowInv'
<1>1. /\ UNCHANGED <<windows, known, sent>> /\ crashes' = crashes + 1
      /\ \A x \in Slots : pc'[x] # "dispatching"
  BY DEF CrashAndRestart, file
<1>2. ClaimOwned' /\ KeysKept' /\ LastClaimed' /\ MeasuredInTurn'
  BY <1>1 DEF WindowInv, ClaimOwned, KeysKept, LastClaimed, MeasuredInTurn
<1>3. crashes \in Nat
  BY DEF WindowInv
<1> QED BY <1>1, <1>2, <1>3 DEF WindowInv, ClaimHasOwner

\* A request that claims the window finds no other that awaits the dispatcher: its
\* claim would still be in the file.
LEMMA WindowClaim ==
  ASSUME OneWindow, WindowInv, PrewarmInv', NEW r \in Slots, NEW a \in Asked,
         NEW s \in Samples, Claiming(r, a, s)
  PROVE  WindowInv'
<1> DEFINE w == <<a.target, 0>>
<1>1. /\ Window(a.target) = w /\ w \in Windows /\ a.target \in Reported
  BY OneBucket, WindowType DEF WindowInv, PrewarmInv, Asked, Claiming
<1>2. \A x \in Slots : pc[x] # "dispatching"
  <2>1. ASSUME NEW x \in Slots, pc[x] = "dispatching" PROVE FALSE
    <3>1. held[x].window = w
      BY <1>1, <2>1 DEF WindowInv, ClaimOwned, PrewarmInv, ReadOK, OneWindow
    <3>2. windows[w].status = "dispatching"
      BY <2>1, <3>1 DEF WindowInv, ClaimOwned
    <3> QED BY <1>1, <3>2 DEF Claiming, Busy
  <2> QED BY <2>1
<1>3. /\ windows' = [windows EXCEPT ![w] = [status |-> "dispatching", at |-> now]]
      /\ pc' = [pc EXCEPT ![r] = "dispatching"] /\ ask' = [ask EXCEPT ![r] = a]
      /\ held'[r].windows = windows' /\ held'[r].known = known /\ held'[r].window = w
      /\ held'[r].measured = s.at /\ ask'[r] = a
      /\ UNCHANGED <<known, sent, crashes>>
  BY <1>1 DEF Claiming, Claim, WindowInv, PrewarmInv, LocalsOK
<1>4. /\ pc'[r] = "dispatching" /\ \A x \in Slots : pc'[x] = "dispatching" => x = r
      /\ windows'[w].status = "dispatching"
      /\ \A v \in Windows : v # w => windows'[v] = windows[v]
  BY <1>1, <1>2, <1>3 DEF WindowInv, PrewarmInv, TypeOK
<1>5. ClaimOwned'
  BY <1>3, <1>4 DEF ClaimOwned
<1>6. ClaimHasOwner'
  <2>1. Dispatching(w)' # {}
    BY <1>3, <1>4 DEF Dispatching
  <2>2. ASSUME NEW v \in Windows, v # w, windows'[v].status = "dispatching"
        PROVE  crashes' > 0
    <3>1. Dispatching(v) = {}
      BY <1>2 DEF Dispatching
    <3> QED BY <1>3, <1>4, <2>2, <3>1 DEF WindowInv, ClaimHasOwner
  <2> QED BY <2>1, <2>2 DEF ClaimHasOwner
<1>7. KeysKept'
  <2>1. a.key \notin known
    BY DEF Claiming, Seen
  <2> QED BY <1>3, <1>4, <2>1 DEF WindowInv, KeysKept
<1>8. LastClaimed'
  <2>1. ASSUME sent # <<>>, sent[Len(sent)].spawned, ~a.manual
        PROVE  s.at >= sent[Len(sent)].at + Settle
    <3> DEFINE l == sent[Len(sent)]
    <3>1. sent \in Seq(Sent) /\ Len(sent) \in DOMAIN sent
      <4>1. sent \in Seq(Sent)
        BY DEF WindowInv, PrewarmInv, LocalsOK
      <4> QED BY <2>1, <4>1, LenProperties, EmptySeq
    <3>2. l.target = a.target
      BY <1>1, <3>1 DEF WindowInv, MeasuredInTurn, OneWindow
    <3>3. windows[w].status # "dispatching"
      BY <1>1 DEF Claiming, Busy
    <3>4. windows[w] = [status |-> "dispatched", at |-> l.at]
      BY <2>1, <3>2, <3>3 DEF WindowInv, LastClaimed, Outcome
    <3>5. ~(s.at < l.at + Settle)
      BY <1>1, <2>1, <3>4 DEF Claiming, Unmeasured
    <3>6. s.at \in Int /\ l.at \in Int
      <4>1. l \in Sent
        BY <3>1, ElementOfSeq, LenProperties
      <4> QED BY <4>1 DEF Claiming, Samples, Sent
    <3> QED BY <3>5, <3>6 DEF Settle
  <2>2. sent # <<>> => sent[Len(sent)].target = a.target
    <3>1. sent \in Seq(Sent)
      BY DEF WindowInv, PrewarmInv, LocalsOK
    <3>2. sent # <<>> => Len(sent) \in DOMAIN sent
      BY <3>1, LenProperties, EmptySeq
    <3> QED BY <1>1, <3>2 DEF WindowInv, MeasuredInTurn, OneWindow
  <2> QED BY <1>3, <1>4, <2>1, <2>2 DEF LastClaimed
<1>9. MeasuredInTurn'
  BY <1>3 DEF WindowInv, MeasuredInTurn
<1> QED BY <1>3, <1>5, <1>6, <1>7, <1>8, <1>9 DEF WindowInv

\* The dispatch of the one request that awaited it ends; the copy it writes back
\* is the file itself, but for keys of refusals recorded meanwhile.
LEMMA WindowEnds ==
  ASSUME OneWindow, WindowInv, PrewarmInv', NEW r \in Slots, DispatchEnds(r)
  PROVE  WindowInv'
<1> DEFINE w == <<ask[r].target, 0>>
           n == Len(sent) + 1
<1>1. /\ pc[r] = "dispatching" /\ ask[r] \in Asked /\ held[r] \in Held
      /\ held[r].windows = windows /\ held[r].window = w /\ ask[r].target \in Reported
      /\ windows \in [Windows -> Claims] /\ w \in Windows
      /\ \A x \in Slots : pc[x] = "dispatching" => x = r
  <2>1. pc[r] = "dispatching"
    BY DEF DispatchEnds
  <2>2. /\ ask[r] \in Asked /\ held[r] \in Held /\ ask[r].target \in Reported
        /\ windows \in [Windows -> Claims]
    BY <2>1 DEF WindowInv, PrewarmInv, TypeOK, LocalsOK, ReadOK
  <2>3. /\ held[r].windows = windows /\ held[r].window = w
        /\ \A x \in Slots : pc[x] = "dispatching" => x = r
    BY <2>1 DEF WindowInv, ClaimOwned
  <2> QED BY <2>1, <2>2, <2>3 DEF Held
<1>2. PICK spawned \in BOOLEAN :
        /\ windows' = [windows EXCEPT ![w] = [status |-> Outcome(spawned), at |-> now]]
        /\ sent'[n] =
             [target |-> ask[r].target, manual |-> ask[r].manual, key |-> ask[r].key,
              spawned |-> spawned, at |-> now, measured |-> held[r].measured,
              once |-> ~ask[r].manual /\ held[r].mode[ask[r].target] = "once",
              rev |-> held[r].rev]
  BY <1>1, SentGrows DEF WindowInv
<1>3. /\ Len(sent) \in Nat /\ DOMAIN sent = 1 .. Len(sent)
      /\ DOMAIN sent' = 1 .. n /\ Len(sent') = n
      /\ \A i \in DOMAIN sent : sent'[i] = sent[i]
      /\ known' = held[r].known \cup ({ask[r].key} \ {None})
  BY SentGrows DEF WindowInv
<1>4. /\ sent'[n].target = ask[r].target /\ sent'[n].key = ask[r].key
      /\ sent'[n].spawned = spawned /\ sent'[n].at = now /\ sent'[n].manual = ask[r].manual
      /\ sent'[n].measured = held[r].measured
  BY <1>2
<1>5. /\ \A x \in Slots : pc'[x] # "dispatching"
      /\ crashes' = crashes
  BY <1>1 DEF DispatchEnds, bounds, WindowInv, PrewarmInv, TypeOK
<1>6. ClaimOwned'
  BY <1>5 DEF ClaimOwned
<1>7. ClaimHasOwner'
  <2>1. windows'[w].status # "dispatching" /\ \A v \in Windows : v # w => windows'[v] = windows[v]
    BY <1>1, <1>2 DEF Outcome
  <2>2. \A v \in Windows : v # w => Dispatching(v) = {}
    BY <1>1 DEF Dispatching
  <2> QED BY <1>5, <2>1, <2>2 DEF WindowInv, ClaimHasOwner
<1>8. KeysKept'
  <2>1. /\ ask[r].key \notin held[r].known
        /\ \A i \in DOMAIN sent : sent[i].key # None => sent[i].key \in held[r].known
    BY <1>1 DEF WindowInv, KeysKept
  <2>2. \A i \in DOMAIN sent' : i \in DOMAIN sent \/ i = n
    BY <1>3
  <2>3. \A i \in DOMAIN sent' : sent'[i].key # None => sent'[i].key \in known'
    BY <1>3, <1>4, <2>1, <2>2
  <2>4. \A i, j \in DOMAIN sent' : sent'[i].key # None /\ sent'[i].key = sent'[j].key => i = j
    <3>1. \A i, j \in DOMAIN sent : sent[i].key # None /\ sent[i].key = sent[j].key => i = j
      BY DEF WindowInv, KeysKept
    <3> QED BY <1>3, <1>4, <2>1, <2>2, <3>1
  <2> QED BY <1>5, <2>3, <2>4 DEF KeysKept
<1>9. LastClaimed'
  <2>1. windows'[w] = [status |-> Outcome(spawned), at |-> now]
    BY <1>1, <1>2
  <2> QED BY <1>3, <1>4, <1>5, <2>1 DEF LastClaimed
<1>10. MeasuredInTurn'
  <2>1. \A i \in DOMAIN sent' : sent'[i].target \in Reported
    BY <1>1, <1>3, <1>4 DEF WindowInv, MeasuredInTurn
  <2>2. ASSUME NEW i \in DOMAIN sent', i + 1 \in DOMAIN sent', sent'[i].spawned, ~sent'[i + 1].manual
        PROVE  sent'[i + 1].measured >= sent'[i].at + Settle
    <3>1. CASE i + 1 \in DOMAIN sent
      BY <1>3, <2>2, <3>1 DEF WindowInv, MeasuredInTurn
    <3>2. CASE i + 1 = n
      <4>1. i = Len(sent) /\ i \in DOMAIN sent /\ sent # <<>>
        BY <1>3, <2>2, <3>2
      <4>2. sent[Len(sent)].spawned /\ ~ask[r].manual
        BY <1>3, <1>4, <2>2, <3>2, <4>1
      <4>3. held[r].measured >= sent[Len(sent)].at + Settle
        BY <1>1, <4>1, <4>2 DEF WindowInv, LastClaimed
      <4> QED BY <1>3, <1>4, <3>2, <4>1, <4>3
    <3> QED BY <1>3, <2>2, <3>1, <3>2
  <2> QED BY <2>1, <2>2 DEF MeasuredInTurn
<1> QED BY <1>5, <1>6, <1>7, <1>8, <1>9, <1>10 DEF WindowInv

LEMMA WindowInvariant == ASSUME OneWindow PROVE Spec => []WindowInv
<1>1. Init => WindowInv
  <2> SUFFICES ASSUME Init PROVE WindowInv
    OBVIOUS
  <2>1. DOMAIN sent = {} /\ crashes = 0 /\ \A r \in Slots : pc[r] # "dispatching"
    BY EmptySeq DEF Init
  <2>2. \A w \in Windows : windows[w].status # "dispatching"
    BY DEF Init, Unclaimed
  <2> QED BY <2>1, <2>2, PrewarmInit
          DEF Init, WindowInv, ClaimOwned, ClaimHasOwner, KeysKept, LastClaimed, MeasuredInTurn
<1>2. WindowInv /\ [Next]_vars => WindowInv'
  <2> SUFFICES ASSUME WindowInv, [Next]_vars PROVE WindowInv'
    OBVIOUS
  <2>1. PrewarmInv /\ PrewarmInv'
    BY PrewarmNext DEF WindowInv
  <2> QED BY <2>1, StepsHow, WindowQuiet, WindowCrash, WindowClaim, WindowEnds
<1> QED BY <1>1, <1>2, PTL DEF Spec

\* While there is one window to claim, its claim excludes every second request
\* from the dispatcher: whatever the interleaving, the repetitions and the crashes.
THEOREM WindowClaimExcludes == ASSUME OneWindow PROVE Spec => []ClaimExcludes
<1>1. WindowInv => ClaimExcludes
  BY DEF WindowInv, ClaimOwned, ClaimExcludes
<1> QED BY <1>1, WindowInvariant, PTL

\* A claim found in the file belongs to a request that awaits the dispatcher, as
\* long as the broker did not stop.
THEOREM WindowClaimOwned == ASSUME OneWindow PROVE Spec => []ClaimHasOwner
<1>1. WindowInv => ClaimHasOwner
  BY DEF WindowInv
<1> QED BY <1>1, WindowInvariant, PTL

\* A request repeated with its key starts one process at most: the key of an
\* ended dispatch is never lost from the file, although a copy is written back.
THEOREM WindowKeyOnce == ASSUME OneWindow PROVE Spec => []KeyDispatchesOnce
<1>1. WindowInv => KeyDispatchesOnce
  BY DEF WindowInv, KeysKept, KeyDispatchesOnce
<1> QED BY <1>1, WindowInvariant, PTL

\* An automatic prewarm that follows a spawned one relies on a measurement in
\* which that one could show.
THEOREM WindowMeasured == ASSUME OneWindow PROVE Spec => []MeasuredAfterLast
<1>1. WindowInv => MeasuredAfterLast
  <2> SUFFICES ASSUME WindowInv, NEW i \in DOMAIN sent, NEW j \in DOMAIN sent,
                      Follows(j, i), sent[i].spawned, ~sent[j].manual
               PROVE  sent[j].measured >= sent[i].at + Settle
    BY DEF MeasuredAfterLast
  <2>1. sent \in Seq(Sent)
    BY DEF WindowInv, PrewarmInv, LocalsOK
  <2>2. Len(sent) \in Nat /\ DOMAIN sent = 1 .. Len(sent)
    BY <2>1, LenProperties
  <2>3. i + 1 \in DOMAIN sent /\ (j # i + 1 => i + 1 \in i + 1 .. j - 1)
    BY <2>2 DEF Follows
  <2>4. sent[i + 1].target = sent[i].target
    BY <2>3 DEF WindowInv, MeasuredInTurn, OneWindow
  <2>5. j = i + 1
    BY <2>3, <2>4 DEF Follows
  <2> QED BY <2>3, <2>5 DEF WindowInv, MeasuredInTurn
<1> QED BY <1>1, WindowInvariant, PTL
=============================================================================
