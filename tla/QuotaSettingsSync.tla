-------------------------- MODULE QuotaSettingsSync --------------------------
(* One set of quota settings in three places: the broker's QuotaSettingsStore, *)
(* the configuration of VS Code, which the IDE dashboard keeps in step with it *)
(* (DashboardController), and the desktop window (control-center/src/main.js). *)
(*                                                                            *)
(* The dashboard and the desktop poll the broker and write to it with the      *)
(* revision they last saw; the user edits the configuration, the dashboard's   *)
(* menu and the desktop's controls.  Every request, every answer and every     *)
(* await of the dashboard's is a step of its own, and answers arrive in any    *)
(* order.                                                                      *)
EXTENDS Integers, Sequences, FiniteSets, SequencesExt

CONSTANTS
  Values,     \* of a setting
  Default,    \* the value of both settings before anybody chose
  None,
  Configurations,      \* of VS Code when the dashboard starts
  MaxUpsets, MaxSaves  \* bounds: edits, resets and failures together; the dashboard's saves

\* A prewarm mode, in VS Code's section integratedPower.quota, and a notification, in
\* integratedPower.notifications; an apply writes them in this order.
Fields == <<"mode", "notify">>
Settings == [Range(Fields) -> Values]

ASSUME SettingsAssumption ==
  /\ Default \in Values /\ None \notin Values \cup Settings
  /\ Configurations \subseteq Settings /\ {MaxUpsets, MaxSaves} \subseteq Nat

VARIABLES
  store,   \* quota-settings.json: revision, whether anybody initialised it, settings
  local,   \* VS Code's configuration
  ide,     \* the dashboard: revision, ready, settings last synced, the menu's mode, applying
  desk,    \* the desktop: revision, initialised, settings
  calls,   \* per kind, the operations under way
  hist,    \* history: what a user edited and nothing has overwritten; whether the last
           \* applies overlapped or one was cut short; whether VS Code refused the menu's
           \* mode; rollbacks
  upsets, saves

vars == <<store, local, ide, desk, calls, hist, upsets, saves>>

\* The dashboard's loads and saves and its menu's configuration writes; the desktop's
\* polls and saves.
Kinds == {"load", "ide", "menu", "poll", "desk"}

Init ==
  /\ LET fresh == [f \in Range(Fields) |-> Default] IN
     /\ store \in {[rev |-> r, init |-> r = 1, set |-> fresh] : r \in 0 .. 1}
     /\ desk = [rev |-> 0, init |-> FALSE, set |-> fresh]
  /\ local \in Configurations
  /\ ide = [rev |-> 0, ready |-> FALSE, synced |-> None, mode |-> local["mode"], applying |-> FALSE]
  /\ calls = [k \in Kinds |-> <<>>]
  /\ hist = [ide |-> {}, desk |-> {}, mixed |-> FALSE, refused |-> FALSE,
             rolled |-> FALSE]
  /\ upsets = 0 /\ saves = 0

-----------------------------------------------------------------------------
(* Operations under way                                                      *)

\* A read carries nothing: it is sent when it is answered.  Only the read after a
\* conflict waits.
Read(now) == [at |-> "read", now |-> now]
Reread == [at |-> "reread"]
\* A write: "first" allows it to initialise the store; "undo" is what the desktop does
\* when it fails.  For the properties: the fields the author's user touched, and
\* whether the settings are known to belong to the revision.
Write(rev, set, first, undo, touched, known) ==
  [at |-> "asked", rev |-> rev, set |-> set, first |-> first, undo |-> undo,
   touched |-> touched, known |-> known]

At(k, i, at) == i \in DOMAIN calls[k] /\ calls[k][i].at = at
Started(cs, k, c) == [cs EXCEPT ![k] = Append(@, c)]
Becomes(k, i, c) == [calls EXCEPT ![k][i] = c]
Ended(k, i) == [calls EXCEPT ![k] = RemoveAt(@, i)]

\* Applies under way, other than one.
Others(k, i) ==
  \E l \in {"load", "ide"} : \E j \in DOMAIN calls[l] :
    <<l, j>> # <<k, i>> /\ calls[l][j].at = "applying"

-----------------------------------------------------------------------------
(* The broker                                                                *)

AcceptsAny(c) == store.init \/ c.first   \* mutant: the last write wins
\* QuotaSettingsStore.put: a compare-and-set on the revision.
Accepts(c) == c.rev = store.rev /\ (store.init \/ c.first)

\* The answer carries the settings there are now, whether the write is accepted or not.
Put(k, i) ==
  /\ At(k, i, "asked")
  /\ LET c == calls[k][i]
         new == IF Accepts(c) THEN [rev |-> store.rev + 1, init |-> TRUE, set |-> c.set] ELSE store
     IN /\ store' = new
        /\ calls' = Becomes(k, i, [at |-> "answered", ok |-> Accepts(c), now |-> new, undo |-> c.undo])
  /\ UNCHANGED <<local, ide, desk, hist, upsets, saves>>

\* An edit or a reset; a request, or its answer, that is lost, because the broker
\* restarts or 5 s pass; a write of the configuration that VS Code refuses.
Upset == upsets < MaxUpsets /\ upsets' = upsets + 1

\* A mode that was armed once is reset by the broker itself.
ResetOnce ==
  /\ Upset /\ store.init /\ store.set["mode"] # Default
  /\ store' = [store EXCEPT !.rev = @ + 1, !.set["mode"] = Default]
  /\ UNCHANGED <<local, ide, desk, calls, hist, saves>>

-----------------------------------------------------------------------------
(* The dashboard                                                             *)

LoadsOnce ==   \* mutant: a dashboard that has settings does not load them again
  /\ calls["load"] = <<>> /\ ~ide.ready
  /\ calls' = Started(calls, "load", Read(store))
  /\ UNCHANGED <<store, local, ide, desk, hist, upsets, saves>>
\* refreshQuotaSettings: one load at a time.
LoadStarts ==
  /\ calls["load"] = <<>>
  /\ calls' = Started(calls, "load", Read(store))
  /\ UNCHANGED <<store, local, ide, desk, hist, upsets, saves>>

\* writeSharedQuotaSettings.
Save(cs, set, touched) ==
  /\ saves < MaxSaves /\ saves' = saves + 1
  /\ calls' = Started(cs, "ide",
       Write(ide.rev, set, FALSE, None, touched, ~hist.mixed /\ ~Others("ide", 0)))

KeepsMenu(l, f, cs, touched) ==   \* mutant: the menu does not follow
  /\ local' = l
  /\ hist' = [hist EXCEPT !.ide = touched]
  /\ IF ide.ready /\ ~ide.applying /\ l # ide.synced THEN Save(cs, l, touched)
     ELSE calls' = cs /\ UNCHANGED saves
  /\ UNCHANGED ide
\* The configuration changed at f: the menu follows; what is not being applied is
\* persisted.
Changed(l, f, cs, touched) ==
  /\ local' = l
  /\ ide' = [ide EXCEPT !.mode = IF f = "mode" THEN l["mode"] ELSE @]
  /\ hist' = [hist EXCEPT !.ide = touched, !.refused = @ /\ f # "mode"]
  /\ IF ide.ready /\ ~ide.applying /\ l # ide.synced THEN Save(cs, l, touched)
     ELSE calls' = cs /\ UNCHANGED saves

\* The fields in which two settings differ, in the order of an apply.
Differing(a, b) ==
  (IF a["mode"] # b["mode"] THEN <<"mode">> ELSE <<>>)
    \o (IF a["notify"] # b["notify"] THEN <<"notify">> ELSE <<>>)

\* applyQuotaSettings up to its first await, of an answer that may be older than what
\* the dashboard has.
Apply(k, i, now) ==
  LET differ == Differing(local, now.set) IN
  /\ ide' = [ide EXCEPT !.rev = now.rev, !.ready = TRUE, !.synced = now.set,
                        !.mode = now.set["mode"], !.applying = @ \/ differ # <<>>]
  /\ calls' = IF differ = <<>> THEN Ended(k, i)
              ELSE Becomes(k, i, [at |-> "applying", set |-> now.set, todo |-> differ])
  /\ hist' = [hist EXCEPT !.ide = @ \cap Range(differ), !.mixed = Others(k, i),
                          !.refused = FALSE]

\* loadQuotaSettings: a store that nobody initialised is offered the configuration;
\* if somebody else was first, it is read again.
OfferLocal ==
  /\ At("load", 1, "read") /\ ~calls["load"][1].now.init
  /\ calls' = Becomes("load", 1, Write(0, local, TRUE, None, Range(Fields), TRUE))
  /\ UNCHANGED <<store, local, ide, desk, hist, upsets, saves>>

ReadAgain ==
  /\ \/ At("load", 1, "answered") /\ ~calls["load"][1].ok /\ calls' = Becomes("load", 1, Reread)
     \/ At("load", 1, "reread") /\ calls' = Becomes("load", 1, Read(store))
  /\ UNCHANGED <<store, local, ide, desk, hist, upsets, saves>>

LoadApplies ==
  /\ \/ At("load", 1, "read")
     \/ At("load", 1, "answered") /\ calls["load"][1].ok
  /\ calls["load"][1].now.init /\ Apply("load", 1, calls["load"][1].now)
  /\ UNCHANGED <<store, local, desk, upsets, saves>>

\* Without an answer the dashboard asks for the broker's health and goes on without it.
Failing == [at |-> "failing"]
LoadFails ==
  /\ Upset /\ \E at \in {"read", "asked", "answered", "reread"} : At("load", 1, at)
  /\ calls' = Becomes("load", 1, Failing)
  /\ UNCHANGED <<store, local, ide, desk, hist, saves>>

LoadGivesUp ==
  /\ At("load", 1, "failing")
  /\ ide' = [ide EXCEPT !.ready = FALSE] /\ calls' = Ended("load", 1)
  /\ UNCHANGED <<store, local, desk, hist, upsets, saves>>

\* A conflict is answered with the broker's settings, which are applied all the same.
SaveAnswered(i) ==
  /\ At("ide", i, "answered") /\ Apply("ide", i, calls["ide"][i].now)
  /\ UNCHANGED <<store, local, desk, upsets, saves>>

\* A failed save is logged, nothing else.
SaveFails(i) ==
  /\ Upset /\ (At("ide", i, "asked") \/ At("ide", i, "answered"))
  /\ calls' = Ended("ide", i)
  /\ UNCHANGED <<store, local, ide, desk, hist, saves>>

\* One awaited config.update of an apply.
UpdateConfig(k, i) ==
  /\ At(k, i, "applying") /\ calls[k][i].todo # <<>>
  /\ LET c == calls[k][i]
         f == Head(c.todo)
         cs == Becomes(k, i, [c EXCEPT !.todo = Tail(@)]) IN
     IF local[f] # c.set[f] THEN Changed([local EXCEPT ![f] = c.set[f]], f, cs, hist.ide \ {f})
     ELSE /\ calls' = cs /\ hist' = [hist EXCEPT !.ide = @ \ {f}] /\ UNCHANGED <<local, ide, saves>>
  /\ UNCHANGED <<store, desk, upsets>>

\* VS Code refuses one: the apply is over, and what it had still to write stays as it
\* was, at the new revision.  A save's apply is logged, nothing else.
ConfigRefused(k, i) ==
  /\ Upset /\ At(k, i, "applying") /\ calls[k][i].todo # <<>>
  /\ ide' = [ide EXCEPT !.applying = FALSE]
  /\ hist' = [hist EXCEPT !.mixed = TRUE, !.refused = @ \/ "mode" \in Range(calls[k][i].todo)]
  /\ calls' = IF k = "load" THEN Becomes(k, i, Failing) ELSE Ended(k, i)
  /\ UNCHANGED <<store, local, desk, saves>>

KeepsApplying(k, i) ==   \* mutant: the end of an apply does not say so
  /\ At(k, i, "applying") /\ calls[k][i].todo = <<>>
  /\ calls' = Ended(k, i) /\ UNCHANGED <<store, local, ide, desk, hist, upsets, saves>>
ApplyEnds(k, i) ==
  /\ At(k, i, "applying") /\ calls[k][i].todo = <<>>
  /\ ide' = [ide EXCEPT !.applying = FALSE] /\ calls' = Ended(k, i)
  /\ UNCHANGED <<store, local, desk, hist, upsets, saves>>

-----------------------------------------------------------------------------
(* The desktop                                                               *)

PollStarts ==
  /\ calls["poll"] = <<>> /\ calls' = Started(calls, "poll", Read(store))
  /\ UNCHANGED <<store, local, ide, desk, hist, upsets, saves>>

\* applyQuotaSettingsEnvelope.
Envelope(now) ==
  /\ desk' = IF now.init THEN now ELSE [desk EXCEPT !.rev = now.rev, !.init = FALSE]
  /\ hist' = IF now.init THEN [hist EXCEPT !.desk = {}, !.rolled = FALSE] ELSE hist

PollAnswered ==
  /\ At("poll", 1, "read") /\ Envelope(calls["poll"][1].now) /\ calls' = Ended("poll", 1)
  /\ UNCHANGED <<store, local, ide, upsets, saves>>

\* A failed edit is undone unless the field has another value by then.
Rollback(undo) ==
  IF desk.set[undo.field] = undo.to
  THEN desk' = [desk EXCEPT !.set[undo.field] = undo.from] /\ hist' = [hist EXCEPT !.rolled = TRUE]
  ELSE UNCHANGED <<desk, hist>>

\* The settings that come with a conflict are not applied.
EditAnswered(i) ==
  /\ At("desk", i, "answered")
  /\ LET c == calls["desk"][i] IN IF c.ok THEN Envelope(c.now) ELSE Rollback(c.undo)
  /\ calls' = Ended("desk", i)
  /\ UNCHANGED <<store, local, ide, upsets, saves>>

EditFails(i) ==
  /\ Upset /\ (At("desk", i, "asked") \/ At("desk", i, "answered"))
  /\ Rollback(calls["desk"][i].undo) /\ calls' = Ended("desk", i)
  /\ UNCHANGED <<store, local, ide, saves>>

-----------------------------------------------------------------------------
(* The user                                                                  *)

\* In the settings of VS Code.
EditConfig(f, v) ==
  /\ Upset /\ local[f] # v
  /\ Changed([local EXCEPT ![f] = v], f, calls, hist.ide \cup {f})
  /\ UNCHANGED <<store, desk>>

\* In the menu of the dashboard, setPrewarmMode.
Choose(v) ==
  /\ Upset /\ ide.mode # v
  /\ IF ide.ready
     THEN Save(calls, [local EXCEPT !["mode"] = v], hist.ide \cup {"mode"}) /\ UNCHANGED ide
     ELSE UNCHANGED saves /\ calls' = Started(calls, "menu", [at |-> "writing", to |-> v]) /\ ide' = [ide EXCEPT !.mode = v]
  /\ UNCHANGED <<store, local, desk, hist>>

\* The configuration write of a choice that was made without the broker.
MenuWrites(i) ==
  /\ At("menu", i, "writing")
  /\ LET v == calls["menu"][i].to IN
     IF local["mode"] # v
     THEN Changed([local EXCEPT !["mode"] = v], "mode", Ended("menu", i), hist.ide \cup {"mode"})
     ELSE calls' = Ended("menu", i) /\ UNCHANGED <<local, ide, hist, saves>>
  /\ UNCHANGED <<store, desk, upsets>>

\* VS Code refuses it: the menu keeps the choice.
MenuRefused(i) ==
  /\ Upset /\ At("menu", i, "writing") /\ calls' = Ended("menu", i)
  /\ hist' = [hist EXCEPT !.refused = TRUE]
  /\ UNCHANGED <<store, local, ide, desk, saves>>

\* In the desktop: shown at once, and sent.
EditDesk(f, v) ==
  /\ Upset /\ desk.set[f] # v
  /\ LET new == [desk.set EXCEPT ![f] = v] IN
     /\ desk' = [desk EXCEPT !.set = new]
     /\ calls' = Started(calls, "desk",
          Write(desk.rev, new, ~desk.init, [field |-> f, to |-> v, from |-> desk.set[f]],
              IF desk.init THEN hist.desk \cup {f} ELSE Range(Fields), ~hist.rolled))
     /\ hist' = [hist EXCEPT !.desk = @ \cup {f}]
  /\ UNCHANGED <<store, local, ide, saves>>

IdeStep ==
  \/ OfferLocal \/ ReadAgain \/ LoadApplies \/ LoadGivesUp
  \/ \E i \in DOMAIN calls["ide"] : SaveAnswered(i)
  \/ \E i \in DOMAIN calls["menu"] : MenuWrites(i)
  \/ \E k \in {"load", "ide"} : \E i \in DOMAIN calls[k] : UpdateConfig(k, i) \/ ApplyEnds(k, i)
DeskStep == PollAnswered \/ \E i \in DOMAIN calls["desk"] : EditAnswered(i)
Broker == \E k \in {"load", "ide", "desk"} : \E i \in DOMAIN calls[k] : Put(k, i)
Failure ==
  \/ LoadFails
  \/ \E i \in DOMAIN calls["ide"] : SaveFails(i)
  \/ \E i \in DOMAIN calls["desk"] : EditFails(i)
  \/ \E i \in DOMAIN calls["menu"] : MenuRefused(i)
  \/ \E k \in {"load", "ide"} : \E i \in DOMAIN calls[k] : ConfigRefused(k, i)
Users ==
  \/ ResetOnce
  \/ \E v \in Values : Choose(v) \/ \E f \in Range(Fields) : EditConfig(f, v) \/ EditDesk(f, v)

Next == LoadStarts \/ PollStarts \/ IdeStep \/ DeskStep \/ Broker \/ Failure \/ Users

\* The timers poll, the broker answers, and nothing that was answered waits for ever.
Fairness ==
  /\ WF_vars(LoadStarts) /\ WF_vars(OfferLocal \/ ReadAgain \/ LoadApplies \/ LoadGivesUp)
  /\ WF_vars(PollStarts) /\ WF_vars(PollAnswered)
  /\ WF_vars(\E i \in DOMAIN calls["menu"] : MenuWrites(i))
  /\ WF_vars(\E i \in DOMAIN calls["ide"] : SaveAnswered(i))
  /\ WF_vars(\E i \in DOMAIN calls["desk"] : EditAnswered(i))
  /\ \A k \in {"load", "ide", "desk"} : WF_vars(\E i \in DOMAIN calls[k] : Put(k, i))
  /\ \A k \in {"load", "ide"} :
       WF_vars(\E i \in DOMAIN calls[k] : UpdateConfig(k, i) \/ ApplyEnds(k, i))

Spec == Init /\ [][Next]_vars /\ Fairness

-----------------------------------------------------------------------------
(* Properties                                                                *)

\* The type invariant: nobody knows a revision the store has not reached, and the
\* dashboard never says that it applies settings when it does not.
TypeOK ==
  /\ store.set \in Settings /\ local \in Settings /\ desk.set \in Settings
  /\ ide.synced \in Settings \cup {None} /\ ide.mode \in Values
  /\ ide.rev <= store.rev /\ desk.rev <= store.rev
  /\ ide.ready => store.init /\ ide.synced # None
  /\ ide.applying => Others("ide", 0)

\* No accepted write takes back what somebody else changed: it changes the fields that
\* its author's user edited, and no other.  It says so of writes that were made while
\* the dashboard applied nothing, after applies that did not overlap and were not cut
\* short by a refused write, and by a desktop that has rolled nothing back since the
\* last answer: the four ways in which the code sends settings that are not those of
\* the revision it names.
NoSilentRevert ==
  [][\A k \in {"load", "ide", "desk"} : \A i \in DOMAIN calls[k] :
       Put(k, i) /\ store' # store /\ calls[k][i].known =>
         \A f \in Range(Fields) : store'.set[f] # store.set[f] => f \in calls[k][i].touched]_vars

\* While nothing is under way the menu shows the configured mode; a mode that VS Code
\* refused to write it may show until the mode is edited, or settings are applied, the
\* next time.
MenuMatchesConfig ==
  calls["menu"] = <<>> /\ ~Others("ide", 0) /\ ~hist.refused => ide.mode = local["mode"]

\* When the users have stopped and nothing fails any more, all three places agree some
\* time and from then on, whatever was lost, refused or rolled back before; unless two
\* applies of the dashboard's overlapped once.
Agreed ==
  /\ store.init /\ ide.ready /\ ide.rev = store.rev /\ desk.rev = store.rev
  /\ local = store.set /\ desk.set = store.set /\ ide.mode = store.set["mode"]
Overlap == \E k \in {"load", "ide"} : \E i \in DOMAIN calls[k] : At(k, i, "applying") /\ Others(k, i)
SettingsConverge == <>[]Agreed \/ <>Overlap
=============================================================================
