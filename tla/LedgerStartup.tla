---------------------------- MODULE LedgerStartup ----------------------------
(* How a process comes to own the broker's ledger: the start-up of the IDE    *)
(* extension (BrokerController.start), of the desktop's HTTP and MCP launchers *)
(* (broker-server.js, mcp-server.js) and of the standalone daemon, the         *)
(* migration of older ledgers they run first (migrateBrokerLedgers), the key    *)
(* store and the two ledger formats.                                          *)
(*                                                                            *)
(* The hosts share files, a key store and a TCP port, and nothing locks any of *)
(* them: what one step read may be stale in the next.  They do not look for    *)
(* older ledgers in the same places.                                          *)
EXTENDS Integers, Sequences, FiniteSets, SequencesExt

CONSTANTS
  Ide, Desktop, Mcp, Standalone,  \* the hosts, by kind
  Native,        \* hosts that can load the SQLCipher module
  Places, Looks, \* where older ledgers may be, and where each host looks for them
  Past,          \* the events that older versions may have recorded
  Legacies,      \* what older versions may have left behind
  NoHost, NoKey, \* nobody has the port; no key
  MaxStarts, MaxCommits, MaxTears, MaxKeyFaults   \* bounds

Hosts == Ide \cup Desktop \cup Mcp \cup Standalone
Paths == {"base", "fallback"}      \* events.enc.jsonl and events.enc.jsonl.jsonl
Keys == Hosts \cup {NoKey}         \* a key is named after the host that generated it
Torn == [ev |-> <<0, "torn">>, key |-> NoKey]        \* a line without its end
Garbled == [ev |-> <<0, "garbled">>, key |-> NoKey]  \* a torn line and the next one in it

\* An event of the one task that is followed is <<revision, author>>.  Older versions
\* left a set of ledgers: each has its place, its history, its format, and its key
\* may be gone.  An event has an id of its own, so no history has it twice; among
\* some ledgers one is the longest.
ASSUME LedgerAssumption ==
  /\ Native \subseteq Hosts /\ NoHost \notin Hosts /\ NoKey \notin Hosts
  /\ Looks \in [Hosts -> SUBSET Places]
  /\ \A ledgers \in Legacies :
       /\ ledgers \subseteq [place : Places, hist : Seq(Past), sqlite : BOOLEAN, keyed : BOOLEAN]
       /\ \A l \in ledgers : IsInjective(l.hist)
       /\ \A S \in SUBSET ledgers :
            S # {} => \E l \in S : \A m \in S : Len(m.hist) <= Len(l.hist)
  /\ Torn.ev \notin Past
  /\ {MaxStarts, MaxCommits, MaxTears, MaxKeyFaults} \subseteq Nat

VARIABLES
  legacy,   \* the older ledgers
  file,     \* the canonical ledger in its two possible places
  stored,   \* the key store: the key under each place's name
  port,     \* who listens on 127.0.0.1:37241
  pc, loc,  \* per host: where its start-up is, and its local variables
  mem,      \* per host: the event history its broker has in memory
  acked,    \* history: the events whose command was answered
  wrote,    \* history: hosts whose present start wrote to the ledger
  raced, rekeyed,   \* history: a ledger was written during another host's migration; a
                    \* stored key was replaced
  starts, tears, keyFaults

disk == <<file, stored>>
hist == <<acked, wrote, raced, rekeyed>>
bounds == <<starts, tears, keyFaults>>
vars == <<legacy, disk, port, pc, loc, mem, hist, bounds>>

NoFile == [fmt |-> "none", key |-> NoKey, recs |-> <<>>]
NoLocals == [path |-> "base", existed |-> FALSE, src |-> <<>>, key |-> NoKey,
             left |-> <<>>, sqlite |-> FALSE, ret |-> "off", why |-> "none"]

Init ==
  /\ legacy \in Legacies
  /\ file = [p \in Paths |-> NoFile] /\ stored = [p \in Paths |-> NoKey]
  /\ port = NoHost
  /\ pc = [h \in Hosts |-> "off"] /\ loc = [h \in Hosts |-> NoLocals]
  /\ mem = [h \in Hosts |-> <<>>]
  /\ acked = {} /\ wrote = {} /\ raced = FALSE /\ rekeyed = FALSE
  /\ starts = 0 /\ tears = 0 /\ keyFaults = 0

-----------------------------------------------------------------------------
(* The two ledger formats                                                    *)

EventsOf(f) == [i \in DOMAIN f.recs |-> f.recs[i].ev]
Exists(p) == file[p] # NoFile

\* list: one bad record refuses the whole ledger.
Readable(f, k) == IF f.fmt = "sqlite" THEN f.key = k
                  ELSE \A i \in DOMAIN f.recs : f.recs[i].key = k
CanRead(h, f, k) == Readable(f, k) /\ (f.fmt = "sqlite" => h \in Native)

ReplaceLines(f, r) == [fmt |-> "jsonl", key |-> NoKey, recs |-> <<r>>]   \* mutant: writeFile
\* EncryptedEventLedger.append: appendFile does not end a torn line first.  (Lines
\* appended to an SQLCipher file are not part of the database.)
AppendLine(f, r) ==
  IF f.fmt = "sqlite" THEN f
  ELSE [fmt |-> "jsonl", key |-> NoKey,
        recs |-> IF f.recs # <<>> /\ Last(f.recs) = Torn
                 THEN [f.recs EXCEPT ![Len(f.recs)] = Garbled] ELSE Append(f.recs, r)]

\* SqlCipherEventLedger.append: INSERT OR IGNORE, by event id.
InsertRow(f, r) == IF r \in Range(f.recs) THEN f ELSE [f EXCEPT !.recs = Append(@, r)]

Comparable(s, t) == IsPrefix(s, t) \/ IsPrefix(t, s)
Longest(hists) == CHOOSE s \in hists : \A t \in hists : Len(t) <= Len(s)

\* The older ledgers a host finds: the extension looks in the state root and in its
\* own global storage, the launchers in the state root and in the product folders
\* that their environment names.
Seen(h) == {l \in legacy : l.place \in Looks[h]}
History(h) == IF Seen(h) = {} THEN <<>> ELSE Longest({l.hist : l \in Seen(h)})

-----------------------------------------------------------------------------
(* Steps of a start-up                                                       *)

InMigration(h) == \/ pc[h] \in {"destkey", "readdest", "append", "verify"}
                  \/ pc[h] = "genkey" /\ loc[h].ret = "append"
Writes(h) == raced' = (raced \/ \E x \in Hosts \ {h} : InMigration(x))
GoTo(h, step) == pc' = [pc EXCEPT ![h] = step]
Refuse(h, why) == /\ pc' = [pc EXCEPT ![h] = "failed"]
                  /\ loc' = [loc EXCEPT ![h].why = why]

\* loadExistingLedgerKey: a key store that cannot be asked looks like one without
\* the key.
Lookups(p) == {stored[p]} \cup (IF keyFaults < MaxKeyFaults THEN {NoKey} ELSE {})
Faulty(p, k) == keyFaults' = IF k = stored[p] THEN keyFaults ELSE keyFaults + 1

\* The health probe, with its 500 ms timeout: a broker that listens may miss it.
\* The MCP launcher does not probe.
Probe(h) ==
  /\ pc[h] = "off" /\ starts < MaxStarts /\ starts' = starts + 1
  /\ \/ h \notin Mcp /\ port # NoHost /\ GoTo(h, "attached")
     \/ GoTo(h, IF h \in Standalone THEN "key" ELSE "resolve")
  /\ loc' = [loc EXCEPT ![h] = NoLocals] /\ wrote' = wrote \ {h}
  /\ UNCHANGED <<legacy, disk, port, mem, acked, raced, rekeyed, tears, keyFaults>>

\* What keeps a host from the older ledgers it finds, in the order of the checks.
Obstacle(h) ==
  IF \/ Exists("base") /\ Exists("fallback")
     \/ \E l, m \in Seen(h) : l # m /\ l.place = m.place THEN "ambiguous"
  ELSE IF \E l \in Seen(h) : ~l.keyed THEN "nokey"
  ELSE IF \E l \in Seen(h) : l.sqlite /\ h \notin Native THEN "corrupt"
  ELSE IF \E l, m \in Seen(h) : ~Comparable(l.hist, m.hist) THEN "diverge"
  ELSE "none"

\* The older ledgers are found, their keys looked up, their histories compared;
\* none of them is ever written.
Resolve(h) ==
  /\ pc[h] = "resolve"
  /\ LET path == IF Exists("fallback") THEN "fallback" ELSE "base" IN
     \/ Obstacle(h) # "none" /\ Refuse(h, Obstacle(h)) /\ UNCHANGED keyFaults
     \/ /\ Obstacle(h) # "ambiguous" /\ Seen(h) # {}
        /\ keyFaults < MaxKeyFaults /\ keyFaults' = keyFaults + 1
        /\ Refuse(h, "nokey")
     \/ /\ Obstacle(h) = "none" /\ UNCHANGED keyFaults
        /\ loc' = [loc EXCEPT ![h].path = path, ![h].existed = Exists(path), ![h].src = History(h)]
        /\ GoTo(h, IF Seen(h) = {} THEN "key" ELSE "destkey")
  /\ UNCHANGED <<legacy, disk, port, mem, hist, starts, tears>>

\* loadOrCreateLedgerKey: without a key for the canonical place one is generated.
LoadOrCreateKey(h, l, ret) ==
  \E k \in Lookups("base") :
    /\ Faulty("base", k)
    /\ IF k # NoKey
       THEN GoTo(h, ret) /\ loc' = [loc EXCEPT ![h] = [l EXCEPT !.key = k]]
       ELSE GoTo(h, "genkey") /\ loc' = [loc EXCEPT ![h] = [l EXCEPT !.ret = ret]]

LoadExistingKey(h, p, ret) ==
  \E k \in Lookups(p) :
    /\ Faulty(p, k)
    /\ IF k = NoKey THEN Refuse(h, "nokey")
       ELSE GoTo(h, ret) /\ loc' = [loc EXCEPT ![h].key = k]

\* The generated key replaces what is stored, or the store refuses it.
GenerateKey(h) ==
  /\ pc[h] = "genkey"
  /\ \/ /\ stored' = [stored EXCEPT !["base"] = h]
        /\ rekeyed' = (rekeyed \/ stored["base"] # NoKey)
        /\ loc' = [loc EXCEPT ![h].key = h] /\ GoTo(h, loc[h].ret)
        /\ UNCHANGED keyFaults
     \/ /\ keyFaults < MaxKeyFaults /\ keyFaults' = keyFaults + 1
        /\ Refuse(h, "nostore") /\ UNCHANGED <<stored, rekeyed>>
  /\ UNCHANGED <<legacy, file, port, mem, acked, wrote, raced, starts, tears>>

\* The key of the migration's destination, which need not exist: then all the
\* sources' events are missing, if there are any.
DestinationKey(h) ==
  /\ pc[h] = "destkey"
  /\ IF Exists(loc[h].path) THEN LoadExistingKey(h, loc[h].path, "readdest")
     ELSE LoadOrCreateKey(h, [loc[h] EXCEPT !.left = loc[h].src],
                          IF loc[h].src = <<>> THEN "open" ELSE "append")
  /\ UNCHANGED <<legacy, disk, port, mem, hist, starts, tears>>

AppendsAll(src, dest) == src   \* mutant: an interrupted migration starts again
\* What the destination lacks.
Missing(src, dest) == SubSeq(src, Len(dest) + 1, Len(src))

WritesFirst(h) ==   \* mutant: only the read-back compares the histories
  /\ pc[h] = "readdest"
  /\ LET f == file[loc[h].path]
         dest == EventsOf(f) IN
     IF ~CanRead(h, f, loc[h].key) THEN Refuse(h, "corrupt")
     ELSE IF Len(dest) >= Len(loc[h].src) THEN GoTo(h, "open") /\ UNCHANGED loc
     ELSE /\ GoTo(h, "append")
          /\ loc' = [loc EXCEPT ![h].left = Missing(loc[h].src, dest),
                                ![h].sqlite = (f.fmt = "sqlite")]
  /\ UNCHANGED <<legacy, disk, port, mem, hist, bounds>>
\* The destination must agree with the sources before anything is written.
ReadDestination(h) ==
  /\ pc[h] = "readdest"
  /\ LET f == file[loc[h].path]
         dest == EventsOf(f) IN
     IF ~CanRead(h, f, loc[h].key) THEN Refuse(h, "corrupt")
     ELSE IF ~Comparable(dest, loc[h].src) THEN Refuse(h, "diverge")
     ELSE IF Len(dest) >= Len(loc[h].src) THEN GoTo(h, "open") /\ UNCHANGED loc
     ELSE /\ GoTo(h, "append")
          /\ loc' = [loc EXCEPT ![h].left = Missing(loc[h].src, dest),
                                ![h].sqlite = (f.fmt = "sqlite")]
  /\ UNCHANGED <<legacy, disk, port, mem, hist, bounds>>

\* The missing events are appended one by one under the destination's key.
AppendMissing(h) ==
  /\ pc[h] = "append" /\ loc[h].left # <<>>
  /\ LET r == [ev |-> Head(loc[h].left), key |-> loc[h].key] IN
     file' = [file EXCEPT ![loc[h].path] =
                IF loc[h].sqlite THEN InsertRow(@, r) ELSE AppendLine(@, r)]
  /\ loc' = [loc EXCEPT ![h].left = Tail(@)]
  /\ wrote' = wrote \cup {h} /\ Writes(h)
  /\ GoTo(h, IF Len(loc[h].left) = 1 THEN "verify" ELSE "append")
  /\ UNCHANGED <<legacy, stored, port, mem, acked, rekeyed, bounds>>

VerifiedAnyway(h) == TRUE   \* mutant: the read-back is not compared
\* The read-back has to equal the sources' history.
Verified(h) ==
  LET f == file[loc[h].path] IN
  /\ Readable(f, loc[h].key) /\ (f.fmt = "sqlite" <=> loc[h].sqlite)
  /\ EventsOf(f) = loc[h].src

VerifyMigration(h) ==
  /\ pc[h] = "verify"
  /\ IF Verified(h) THEN GoTo(h, "open") /\ UNCHANGED loc ELSE Refuse(h, "verify")
  /\ UNCHANGED <<legacy, disk, port, mem, hist, bounds>>

AlwaysExisting(h) ==   \* mutant: the key is expected to exist before the ledger does
  /\ pc[h] = "key"
  /\ LoadExistingKey(h, loc[h].path, "open")
  /\ UNCHANGED <<legacy, disk, port, mem, hist, starts, tears>>
\* Without older ledgers: the key of the canonical ledger.  The IDE looks where the
\* ledger was found at first, the launchers look again; the daemon always asks for
\* the canonical place's key.
CanonicalKey(h) ==
  /\ pc[h] = "key"
  /\ IF h \notin Standalone /\ (IF h \in Ide THEN loc[h].existed ELSE Exists(loc[h].path))
     THEN LoadExistingKey(h, loc[h].path, "open")
     ELSE LoadOrCreateKey(h, loc[h], "open")
  /\ UNCHANGED <<legacy, disk, port, mem, hist, starts, tears>>

\* createPreferredEventLedger takes the ledger that exists, whichever it is.
Open(h) ==
  /\ pc[h] = "open"
  /\ IF Exists("base") /\ Exists("fallback") THEN Refuse(h, "ambiguous")
     ELSE IF file["base"].fmt = "sqlite" /\ ~CanRead(h, file["base"], loc[h].key)
          THEN Refuse(h, "corrupt")
     ELSE IF Exists("base") \/ Exists("fallback")
          THEN /\ loc' = [loc EXCEPT ![h].path = IF Exists("base") THEN "base" ELSE "fallback"]
               /\ GoTo(h, "load")
     ELSE GoTo(h, "create") /\ UNCHANGED loc
  /\ UNCHANGED <<legacy, disk, port, mem, hist, bounds>>

\* Without one, an SQLCipher ledger is created at once.  Whatever hinders that (no
\* native module, or a file of another format or key that appeared since) leads to
\* an encrypted ledger in the fallback place, which its first event creates.
Create(h) ==
  /\ pc[h] = "create" /\ GoTo(h, "load")
  /\ \/ /\ h \in Native /\ ~Exists("base")
        /\ file' = [file EXCEPT !["base"] = [fmt |-> "sqlite", key |-> loc[h].key, recs |-> <<>>]]
        /\ wrote' = wrote \cup {h} /\ Writes(h)
        /\ loc' = [loc EXCEPT ![h].path = "base"]
     \/ /\ h \notin Native \/ Exists("base")
        /\ LET opens == h \in Native /\ file["base"].fmt = "sqlite" /\ file["base"].key = loc[h].key IN
           loc' = [loc EXCEPT ![h].path = IF opens THEN "base" ELSE "fallback"]
        /\ UNCHANGED <<file, wrote, raced>>
  /\ UNCHANGED <<legacy, stored, port, mem, acked, rekeyed, bounds>>

\* IntegratedPowerBroker.initialize replays the ledger into memory.
Load(h) ==
  /\ pc[h] = "load"
  /\ LET f == file[loc[h].path] IN
     IF Readable(f, loc[h].key)
     THEN /\ mem' = [mem EXCEPT ![h] = EventsOf(f)] /\ UNCHANGED loc
          /\ GoTo(h, IF h \in Mcp THEN "serving" ELSE "listen")
     ELSE Refuse(h, "corrupt") /\ UNCHANGED mem
  /\ UNCHANGED <<legacy, disk, port, hist, bounds>>

\* The port decides; who loses it attaches to the winner if the winner answers.
\* The daemon fails at once.
Listen(h) ==
  /\ pc[h] = "listen"
  /\ IF port = NoHost THEN port' = h /\ GoTo(h, "serving") /\ UNCHANGED <<loc, mem>>
     ELSE /\ \/ Refuse(h, "inuse")
             \/ h \notin Standalone /\ GoTo(h, "attached") /\ UNCHANGED loc
          /\ mem' = [mem EXCEPT ![h] = <<>>] /\ UNCHANGED port
  /\ UNCHANGED <<legacy, disk, hist, bounds>>

-----------------------------------------------------------------------------
(* A broker at work, and the ends of a process                               *)

\* A command: its event gets the next revision in this broker's memory, is
\* appended, and the command is answered.
Commit(h) ==
  /\ pc[h] = "serving" /\ Cardinality(acked) < MaxCommits
  /\ LET e == <<Len(mem[h]) + 1, h>>
         r == [ev |-> e, key |-> loc[h].key] IN
     /\ file' = [file EXCEPT ![loc[h].path] =
                   IF @.fmt = "sqlite" THEN InsertRow(@, r) ELSE AppendLine(@, r)]
     /\ mem' = [mem EXCEPT ![h] = Append(@, e)]
     /\ acked' = acked \cup {e} /\ Writes(h)
  /\ UNCHANGED <<legacy, stored, port, pc, loc, wrote, rekeyed, bounds>>

KeepsPort(h) ==   \* mutant: the port of a process that ended stays taken
  /\ pc' = [pc EXCEPT ![h] = "off"] /\ UNCHANGED port /\ mem' = [mem EXCEPT ![h] = <<>>]
Gone(h) == /\ pc' = [pc EXCEPT ![h] = "off"]
           /\ port' = IF port = h THEN NoHost ELSE port
           /\ mem' = [mem EXCEPT ![h] = <<>>]

\* The process stops, crashes or is closed; a refused start may be repeated.
Stop(h) ==
  /\ pc[h] # "off" /\ Gone(h)
  /\ UNCHANGED <<legacy, disk, loc, hist, bounds>>

\* It crashes while appendFile writes a line.
TearingCrash(h) ==
  /\ tears < MaxTears /\ tears' = tears + 1
  /\ \/ pc[h] = "append" /\ loc[h].left # <<>> /\ ~loc[h].sqlite
     \/ pc[h] = "serving" /\ file[loc[h].path].fmt # "sqlite"
  /\ file' = [file EXCEPT ![loc[h].path] = AppendLine(@, Torn)]
  /\ Gone(h)
  /\ UNCHANGED <<legacy, stored, loc, hist, starts, keyFaults>>

HostStep(h) ==
  \/ Probe(h) \/ Resolve(h) \/ GenerateKey(h) \/ DestinationKey(h) \/ ReadDestination(h)
  \/ AppendMissing(h) \/ VerifyMigration(h) \/ CanonicalKey(h) \/ Open(h) \/ Create(h)
  \/ Load(h) \/ Listen(h) \/ Commit(h) \/ Stop(h) \/ TearingCrash(h)

Next == \E h \in Hosts : HostStep(h)
Spec == Init /\ [][Next]_vars

-----------------------------------------------------------------------------
(* Properties                                                                *)

Steps == {"off", "attached", "resolve", "destkey", "genkey", "readdest", "append", "verify",
          "key", "open", "create", "load", "listen", "serving", "failed"}

Event == Past \cup (Nat \X Hosts) \cup {Torn.ev, Garbled.ev}
Line == [ev : Event, key : Keys]
Ledger == [fmt : {"none", "jsonl", "sqlite"}, key : Keys, recs : Seq(Line)]
Reasons == {"none", "ambiguous", "nokey", "corrupt", "diverge", "verify", "nostore", "inuse"}
Locals == [path : Paths, existed : BOOLEAN, src : Seq(Past), key : Keys, left : Seq(Past),
           sqlite : BOOLEAN, ret : {"off", "append", "open"}, why : Reasons]

\* The type invariant: only a live host has a broker in memory, and whoever has
\* the port is serving.
TypeOK ==
  /\ legacy \in Legacies
  /\ file \in [Paths -> Ledger] /\ stored \in [Paths -> Keys]
  /\ port \in Hosts \cup {NoHost}
  /\ pc \in [Hosts -> Steps] /\ loc \in [Hosts -> Locals] /\ mem \in [Hosts -> Seq(Event)]
  /\ acked \subseteq Nat \X Hosts /\ wrote \subseteq Hosts
  /\ {raced, rekeyed} \subseteq BOOLEAN /\ {starts, tears, keyFaults} \subseteq Nat
  /\ port # NoHost => pc[port] = "serving"
  /\ \A h \in Hosts : pc[h] \notin {"listen", "serving"} => mem[h] = <<>>

\* A host that migrates never serves without the whole history of every older ledger
\* it looks for, in its order and from its first event, whoever else migrates,
\* crashes or writes meanwhile.  (What it does not look for it leaves behind, which is
\* at odds with "both the IDE's context.globalStorage/broker and the existing ledger
\* directly under the desktop's state root are examined as candidates",
\* docs/spec/desktop-ide-integration-plan.ko.md:82-84, translated: a launcher without
\* the environment that names the storage does not examine it.)
ServesOlderHistory ==
  \A h \in Hosts \ Standalone :
    pc[h] = "serving" => \A l \in Seen(h) : IsPrefix(l.hist, mem[h])

\* "Preflight all histories, key availability and destination compatibility before
\* writes; divergence, missing keys or corrupt records fail closed"
\* (docs/reuse-map.md:32): a start that is refused for a key or for what a ledger
\* holds has not written, unless another host interfered: by writing meanwhile, by
\* replacing the key, or by tearing a line.
FailsClosed ==
  \A h \in Hosts :
    pc[h] = "failed" /\ loc[h].why \in {"diverge", "nokey", "corrupt", "verify"}
    /\ ~raced /\ ~rekeyed /\ tears = 0 => h \notin wrote

\* A migration that was cut short anywhere leaves a ledger the next one of that host
\* completes: nothing twice, nothing foreign.  (Unless another host wrote meanwhile;
\* or one that does not look where this one does found a history that diverges, or
\* committed before this one's history was there; the daemon, which does not
\* migrate, is such a host.)
MigrationResumes ==
  \A h \in Hosts \ Standalone, p \in Paths :
    /\ ~raced /\ tears = 0
    /\ \A x \in Hosts \ Standalone : Comparable(History(x), History(h))
    /\ \A e \in acked : e[2] \notin Standalone /\ IsPrefix(History(h), History(e[2]))
    => Comparable(EventsOf(file[p]), History(h))

\* An event whose command was answered stays readable with the stored key, through
\* stops, crashes and migrations.  (Unless that key was replaced or a line torn.)
AckedReadable ==
  ~rekeyed /\ tears = 0 =>
    \A e \in acked : \E p \in Paths :
      Readable(file[p], stored["base"]) /\ e \in Range(EventsOf(file[p]))

\* While the key store answers, a host is refused for want of a key for two reasons
\* only: the keys of older ledgers are gone, or the ledger is in the fallback place,
\* although its key is stored under the other place's name.  (The second is at odds
\* with "the extension still starts on hosts where native modules are unavailable",
\* ledger.ts:27-28: such a host is locked out of the ledger it made.)
KeyRefusalHasCause ==
  \A h \in Hosts : pc[h] = "failed" /\ loc[h].why = "nokey" /\ keyFaults = 0 =>
    \/ \E l \in Seen(h) : ~l.keyed
    \/ Exists("fallback") /\ stored["base"] # NoKey
=============================================================================
