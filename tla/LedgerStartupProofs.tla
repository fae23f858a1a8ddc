------------------------ MODULE LedgerStartupProofs ------------------------
(* Whatever the hosts, the older ledgers and the failures: who serves has the *)
(* whole older history, a refused start has written nothing, an interrupted   *)
(* migration can be resumed, and what was answered stays readable.            *)
EXTENDS LedgerStartup, SequenceTheorems, TLAPS

-----------------------------------------------------------------------------
(* Sequences of events and the files that hold them                          *)

\* A prefix, position by position.
LEMMA PrefixPoints ==
  ASSUME NEW S, NEW s \in Seq(S), NEW t \in Seq(S)
  PROVE  IsPrefix(s, t) <=> Len(s) <= Len(t) /\ \A i \in 1 .. Len(s) : s[i] = t[i]
<1>1. Len(s) \in Nat /\ Len(t) \in Nat /\ 1 \in Int
  BY LenProperties
<1>2. \A i \in 1 .. Len(s) : s[i] \in S
  BY ElementOfSeq
<1>3. /\ SubSeq(s, 1, Len(s)) \in Seq(S) /\ Len(SubSeq(s, 1, Len(s))) = Len(s)
      /\ \A i \in 1 .. Len(s) : SubSeq(s, 1, Len(s))[i] = s[i]
  <2>1. Len(s) \in Int
    BY <1>1
  <2> QED BY <1>1, <1>2, <2>1, SubSeqProperties
<1>4. SUFFICES ASSUME Len(s) <= Len(t)
               PROVE  SubSeq(s, 1, Len(s)) = SubSeq(t, 1, Len(s)) <=> \A i \in 1 .. Len(s) : s[i] = t[i]
  BY DEF IsPrefix
<1>5. /\ SubSeq(t, 1, Len(s)) \in Seq(S) /\ Len(SubSeq(t, 1, Len(s))) = Len(s)
      /\ \A i \in 1 .. Len(s) : SubSeq(t, 1, Len(s))[i] = t[i]
  <2>1. \A i \in 1 .. Len(s) : t[i] \in S
    BY <1>1, <1>4, ElementOfSeq
  <2>2. Len(s) \in Int
    BY <1>1
  <2> QED BY <1>1, <2>1, <2>2, SubSeqProperties
<1> QED BY <1>3, <1>5, SeqEqual

\* The events of a ledger are those of its records.
LEMMA EventsType ==
  ASSUME NEW f \in Ledger
  PROVE  /\ EventsOf(f) \in Seq(Event) /\ Len(EventsOf(f)) = Len(f.recs) /\ Len(f.recs) \in Nat
         /\ \A i \in 1 .. Len(f.recs) : EventsOf(f)[i] = f.recs[i].ev /\ f.recs[i] \in Line
<1>1. f.recs \in Seq(Line)
  BY DEF Ledger
<1>2. DOMAIN f.recs = 1 .. Len(f.recs) /\ Len(f.recs) \in Nat /\ \A i \in 1 .. Len(f.recs) : f.recs[i] \in Line
  BY <1>1, LenProperties, ElementOfSeq
<1>3. EventsOf(f) \in [1 .. Len(f.recs) -> Event]
  BY <1>2 DEF EventsOf, Line
<1>4. EventsOf(f) \in Seq(Event)
  BY <1>2, <1>3, SMTT(30) DEF Seq
<1>5. Len(EventsOf(f)) = Len(f.recs)
  BY <1>2, <1>3, <1>4, LenProperties
<1> QED BY <1>2, <1>4, <1>5 DEF EventsOf

\* recs begins with the events of s.
Begins(s, recs) == Len(s) <= Len(recs) /\ \A i \in 1 .. Len(s) : recs[i].ev = s[i]

\* What a ledger may turn into: it only grows, and keeps its format; but a torn
\* line is garbled by the next one.
Grows(f, g) ==
  /\ Len(f.recs) <= Len(g.recs)
  /\ \A i \in 1 .. Len(f.recs) : g.recs[i].ev = f.recs[i].ev \/ f.recs[i] = Torn
  /\ f.fmt # "none" => g.fmt = f.fmt

\* The new record is the last one.
Adds(f, g, r) == /\ Len(g.recs) = Len(f.recs) + 1 /\ g.recs[Len(f.recs) + 1] = r
                 /\ \A i \in 1 .. Len(f.recs) : g.recs[i] = f.recs[i]

LEMMA LineAppended ==
  ASSUME NEW f \in Ledger, NEW r \in Line, f.fmt = "none" => f = NoFile
  PROVE  LET g == AppendLine(f, r) IN
         /\ g \in Ledger /\ Grows(f, g) /\ g.fmt # "none"
         /\ f.fmt = "sqlite" => g = f
         /\ f.fmt # "sqlite" => g.fmt = "jsonl"
         /\ f.fmt # "sqlite" /\ (\A i \in 1 .. Len(f.recs) : f.recs[i] # Torn) => Adds(f, g, r)
<1> DEFINE n == Len(f.recs)
<1>1. f.recs \in Seq(Line) /\ n \in Nat /\ (f.recs # <<>> => n > 0)
  BY LenProperties, EmptySeq DEF Ledger
<1>2. CASE f.fmt = "sqlite"
  BY <1>1, <1>2 DEF AppendLine, Grows
<1>3. CASE f.fmt # "sqlite" /\ f.recs # <<>> /\ Last(f.recs) = Torn
  <2>1. Garbled \in Line /\ n \in 1 .. n
    BY <1>1, <1>3 DEF Garbled, Line, Event, Keys
  <2>2. LET s == [f.recs EXCEPT ![n] = Garbled] IN
        /\ s \in Seq(Line) /\ Len(s) = n /\ \A j \in 1 .. n : s[j] = IF j = n THEN Garbled ELSE f.recs[j]
    BY <1>1, <2>1, ExceptSeq
  <2>3. AppendLine(f, r) = [fmt |-> "jsonl", key |-> NoKey, recs |-> [f.recs EXCEPT ![n] = Garbled]]
    BY <1>3 DEF AppendLine
  <2> QED BY <1>1, <1>3, <2>1, <2>2, <2>3 DEF Grows, Ledger, Keys, Last
<1>4. CASE f.fmt # "sqlite" /\ ~(f.recs # <<>> /\ Last(f.recs) = Torn)
  <2>1. LET s == Append(f.recs, r) IN
        /\ s \in Seq(Line) /\ Len(s) = n + 1 /\ \A j \in 1 .. n : s[j] = f.recs[j] /\ s[n + 1] = r
    BY <1>1, AppendProperties
  <2>2. AppendLine(f, r) = [fmt |-> "jsonl", key |-> NoKey, recs |-> Append(f.recs, r)]
    BY <1>4 DEF AppendLine
  <2>3. Append(f.recs, r)[n + 1] = r
    BY <1>1, AppendProperties
  <2> QED BY <1>1, <1>4, <2>1, <2>2, <2>3 DEF Grows, Adds, Ledger, Keys
<1> QED BY <1>2, <1>3, <1>4

LEMMA RowInserted ==
  ASSUME NEW f \in Ledger, NEW r \in Line
  PROVE  LET g == InsertRow(f, r) IN
         /\ g \in Ledger /\ Grows(f, g) /\ g.fmt = f.fmt /\ g.key = f.key
         /\ \/ g = f /\ \E i \in 1 .. Len(f.recs) : f.recs[i] = r
            \/ Adds(f, g, r)
<1> DEFINE n == Len(f.recs)
<1>1. f.recs \in Seq(Line) /\ n \in Nat /\ DOMAIN f.recs = 1 .. n
  BY LenProperties DEF Ledger
<1>2. CASE r \in Range(f.recs)
  BY <1>1, <1>2 DEF InsertRow, Grows, Range
<1>3. CASE r \notin Range(f.recs)
  <2>1. LET s == Append(f.recs, r) IN
        /\ s \in Seq(Line) /\ Len(s) = n + 1 /\ \A j \in 1 .. n : s[j] = f.recs[j] /\ s[n + 1] = r
    BY <1>1, AppendProperties
  <2>2. Append(f.recs, r)[n + 1] = r
    BY <1>1, AppendProperties
  <2>3. PICK g : g = InsertRow(f, r)
    OBVIOUS
  <2>4. g = [f EXCEPT !.recs = Append(f.recs, r)]
    BY <1>3, <2>3 DEF InsertRow
  <2>5. g.recs = Append(f.recs, r) /\ g.fmt = f.fmt /\ g.key = f.key /\ g \in Ledger
    BY <2>1, <2>4 DEF Ledger
  <2>6. Grows(f, g) /\ Adds(f, g, r)
    BY <1>1, <2>1, <2>2, <2>5 DEF Grows, Adds
  <2> QED BY <2>3, <2>5, <2>6
<1> QED BY <1>2, <1>3

-----------------------------------------------------------------------------
(* Types                                                                     *)

\* What a migration takes for an SQLCipher ledger is one.
Unwritten(h) == pc[h] \in {"resolve", "destkey", "readdest", "key", "genkey"}
KnownFormat(h) ==
  /\ Unwritten(h) => ~loc[h].sqlite
  /\ pc[h] \in {"append", "verify"} /\ loc[h].sqlite => file[loc[h].path].fmt = "sqlite"
FormatInv == /\ \A p \in Paths : file[p].fmt = "none" => file[p] = NoFile
             /\ \A h \in Hosts : KnownFormat(h)
ShapeInv == TypeOK /\ FormatInv

LEMMA SeenType ==
  ASSUME TypeOK, NEW h \in Hosts
  PROVE  /\ \A l \in Seen(h) : l.hist \in Seq(Past) /\ IsInjective(l.hist)
         /\ Seen(h) # {} => /\ \E l \in Seen(h) : History(h) = l.hist
                            /\ \A l \in Seen(h) : Len(l.hist) <= Len(History(h))
<1>1. /\ \A l \in legacy : l.hist \in Seq(Past) /\ IsInjective(l.hist)
      /\ \A S \in SUBSET legacy : S # {} => \E l \in S : \A m \in S : Len(m.hist) <= Len(l.hist)
  BY LedgerAssumption DEF TypeOK
<1>2. CASE Seen(h) # {}
  <2> DEFINE hists == {l.hist : l \in Seen(h)}
  <2>1. PICK l \in Seen(h) : \A m \in Seen(h) : Len(m.hist) <= Len(l.hist)
    BY <1>1, <1>2 DEF Seen
  <2>2. l.hist \in hists /\ \A t \in hists : Len(t) <= Len(l.hist)
    BY <2>1
  <2>3. Longest(hists) \in hists /\ \A t \in hists : Len(t) <= Len(Longest(hists))
    BY <2>2 DEF Longest
  <2>4. History(h) = Longest(hists)
    BY <1>2 DEF History
  <2> QED BY <1>1, <2>3, <2>4 DEF Seen
<1> QED BY <1>1, <1>2 DEF Seen

LEMMA HistoryType ==
  ASSUME TypeOK, NEW h \in Hosts
  PROVE  History(h) \in Seq(Past) /\ IsInjective(History(h))
<1>1. CASE Seen(h) = {}
  BY <1>1, EmptySeq DEF History, IsInjective
<1>2. CASE Seen(h) # {}
  BY <1>2, SeenType
<1> QED BY <1>1, <1>2

\* Histories are those of the older ledgers, which nobody changes.
LEMMA HistoriesKept ==
  ASSUME legacy' = legacy
  PROVE  \A h \in Hosts : History(h)' = History(h) /\ Seen(h)' = Seen(h)
  BY DEF History, Seen

\* What a step of h does to the hosts.
HostChanges(h) ==
  /\ pc' \in [Hosts -> Steps] /\ loc' \in [Hosts -> Locals] /\ mem' \in [Hosts -> Seq(Event)]
  /\ wrote' \subseteq Hosts /\ port' \in Hosts \cup {NoHost}
  /\ \A x \in Hosts \ {h} : /\ pc'[x] = pc[x] /\ loc'[x] = loc[x] /\ mem'[x] = mem[x]
                            /\ x \in wrote' <=> x \in wrote
  /\ legacy' = legacy

LEMMA LocalFields ==
  ASSUME NEW l \in Locals
  PROVE  /\ \A k \in Keys : [l EXCEPT !.key = k] \in Locals
         /\ \A ret \in {"off", "append", "open"} : [l EXCEPT !.ret = ret] \in Locals
         /\ \A left \in Seq(Past) : [l EXCEPT !.left = left] \in Locals
         /\ \A path \in Paths : [l EXCEPT !.path = path] \in Locals
         /\ \A why \in Reasons : [l EXCEPT !.why = why] \in Locals
  BY DEF Locals

LEMMA HostUpdated ==
  ASSUME TypeOK, NEW h \in Hosts, NEW c \in Steps, NEW l \in Locals,
         pc' = [pc EXCEPT ![h] = c], loc' = [loc EXCEPT ![h] = l], UNCHANGED <<legacy, port, mem, wrote>>
  PROVE  HostChanges(h) /\ pc'[h] = c /\ loc'[h] = l
  BY DEF TypeOK, HostChanges

LEMMA HostGoes ==
  ASSUME TypeOK, NEW h \in Hosts, NEW c \in Steps, pc' = [pc EXCEPT ![h] = c],
         UNCHANGED <<legacy, port, mem, wrote, loc>>
  PROVE  HostChanges(h) /\ pc'[h] = c /\ loc'[h] = loc[h]
  BY DEF TypeOK, HostChanges

LEMMA HostRefused ==
  ASSUME TypeOK, NEW h \in Hosts, NEW why \in Reasons, Refuse(h, why), UNCHANGED <<legacy, port, mem, wrote>>
  PROVE  HostChanges(h) /\ pc'[h] = "failed" /\ loc'[h] = [loc[h] EXCEPT !.why = why]
<1>1. loc[h] \in Locals /\ "failed" \in Steps
  BY DEF TypeOK, Steps
<1>2. loc' = [loc EXCEPT ![h] = [loc[h] EXCEPT !.why = why]] /\ pc' = [pc EXCEPT ![h] = "failed"]
  BY DEF Refuse
<1>3. [loc[h] EXCEPT !.why = why] \in Locals
  BY <1>1, LocalFields
<1> QED BY <1>1, <1>2, <1>3, HostUpdated

\* A lookup ends the start, or goes on with the key found, or without one.
LEMMA KeyLookedUp ==
  ASSUME TypeOK, NEW h \in Hosts, NEW p \in Paths, NEW ret \in {"readdest", "open"},
         LoadExistingKey(h, p, ret), UNCHANGED <<legacy, disk, port, mem, hist, starts, tears>>
  PROVE  /\ HostChanges(h)
         /\ \/ /\ pc'[h] = "failed" /\ loc'[h] = [loc[h] EXCEPT !.why = "nokey"]
               /\ keyFaults' = 0 => stored[p] = NoKey
            \/ stored[p] # NoKey /\ pc'[h] = ret /\ loc'[h] = [loc[h] EXCEPT !.key = stored[p]]
         /\ keyFaults' \in Nat /\ keyFaults <= keyFaults'
<1>1. PICK k \in Lookups(p) : /\ Faulty(p, k)
                              /\ IF k = NoKey THEN Refuse(h, "nokey")
                                 ELSE GoTo(h, ret) /\ loc' = [loc EXCEPT ![h].key = k]
  BY DEF LoadExistingKey
<1>2. /\ stored[p] \in Keys /\ loc[h] \in Locals
      /\ k = stored[p] \/ k = NoKey
      /\ UNCHANGED <<legacy, port, mem, wrote>>
  BY DEF TypeOK, Lookups, hist
<1>5. keyFaults' \in Nat /\ keyFaults <= keyFaults' /\ (keyFaults' = 0 => k = stored[p])
  BY <1>1 DEF Faulty, TypeOK
<1>3. CASE k = NoKey
  <2>1. "nokey" \in Reasons /\ Refuse(h, "nokey")
    BY <1>1, <1>3 DEF Reasons
  <2>2. HostChanges(h) /\ pc'[h] = "failed" /\ loc'[h] = [loc[h] EXCEPT !.why = "nokey"]
    BY <1>2, <2>1, HostRefused
  <2> QED BY <1>3, <1>5, <2>2
<1>4. CASE k # NoKey
  <2>1. loc' = [loc EXCEPT ![h] = [loc[h] EXCEPT !.key = k]] /\ pc' = [pc EXCEPT ![h] = ret]
    BY <1>1, <1>4 DEF GoTo
  <2>2. [loc[h] EXCEPT !.key = k] \in Locals /\ ret \in Steps
    BY <1>2, <1>4, LocalFields DEF TypeOK, Steps
  <2> QED BY <1>2, <1>4, <1>5, <2>1, <2>2, HostUpdated
<1> QED BY <1>3, <1>4

LEMMA KeyMadeOrFound ==
  ASSUME TypeOK, NEW h \in Hosts, NEW l \in Locals, NEW ret \in {"append", "open"},
         LoadOrCreateKey(h, l, ret), UNCHANGED <<legacy, disk, port, mem, hist, starts, tears>>
  PROVE  /\ HostChanges(h)
         /\ \/ pc'[h] = "genkey" /\ loc'[h] = [l EXCEPT !.ret = ret]
            \/ /\ stored["base"] # NoKey /\ pc'[h] = ret /\ loc'[h] = [l EXCEPT !.key = stored["base"]]
         /\ keyFaults' \in Nat /\ keyFaults <= keyFaults'
<1>1. PICK k \in Lookups("base") :
         /\ Faulty("base", k)
         /\ IF k # NoKey
            THEN GoTo(h, ret) /\ loc' = [loc EXCEPT ![h] = [l EXCEPT !.key = k]]
            ELSE GoTo(h, "genkey") /\ loc' = [loc EXCEPT ![h] = [l EXCEPT !.ret = ret]]
  BY DEF LoadOrCreateKey
<1>2. /\ k = stored["base"] \/ k = NoKey
      /\ stored["base"] \in Keys /\ keyFaults \in Nat
      /\ UNCHANGED <<legacy, port, mem, wrote>> /\ {"genkey", "append", "open"} \subseteq Steps
  BY <1>1 DEF TypeOK, Lookups, hist, Paths, Steps
<1>3. CASE k = NoKey
  <2>1. [l EXCEPT !.ret = ret] \in Locals
    BY LocalFields
  <2> QED BY <1>1, <1>2, <1>3, <2>1, HostUpdated DEF Faulty, GoTo
<1>4. CASE k # NoKey
  <2>1. [l EXCEPT !.key = k] \in Locals
    BY <1>2, <1>4, LocalFields
  <2> QED BY <1>1, <1>2, <1>4, <2>1, HostUpdated DEF Faulty, GoTo
<1> QED BY <1>3, <1>4

LEMMA StartHosts ==
  ASSUME ShapeInv, NEW h \in Hosts,
         \/ Probe(h) \/ Resolve(h) \/ GenerateKey(h) \/ DestinationKey(h) \/ CanonicalKey(h)
         \/ ReadDestination(h) \/ VerifyMigration(h)
  PROVE  HostChanges(h)
<1>1. /\ TypeOK /\ loc[h] \in Locals /\ loc[h].path \in Paths /\ loc[h].src \in Seq(Past) /\ <<>> \in Seq(Past)
      /\ pc \in [Hosts -> Steps] /\ loc \in [Hosts -> Locals] /\ mem \in [Hosts -> Seq(Event)]
      /\ wrote \subseteq Hosts /\ port \in Hosts \cup {NoHost}
  BY EmptySeq DEF ShapeInv, TypeOK, Locals
<1>2. \A why \in Reasons : Refuse(h, why) /\ UNCHANGED <<legacy, port, mem, wrote>> => HostChanges(h)
  BY <1>1, HostRefused
<1>3. \A c \in Steps, l \in Locals : GoTo(h, c) /\ loc' = [loc EXCEPT ![h] = l]
                                      /\ UNCHANGED <<legacy, port, mem, wrote>> => HostChanges(h)
  BY <1>1, HostUpdated DEF GoTo
<1>4. CASE Probe(h)
  <2>1. NoLocals \in Locals
    BY <1>1 DEF NoLocals, Locals, Paths, Keys, Reasons
  <2> QED BY <1>1, <1>4, <2>1 DEF Probe, HostChanges, GoTo, Steps, disk
<1>5. CASE Resolve(h)
  <2> DEFINE path == IF Exists("fallback") THEN "fallback" ELSE "base"
             l == [loc[h] EXCEPT !.path = path, !.existed = Exists(path), !.src = History(h)]
  <2>1. UNCHANGED <<legacy, port, mem, wrote>> /\ Obstacle(h) \in Reasons
    BY <1>5 DEF Resolve, hist, Reasons, Obstacle
  <2>2. \/ Refuse(h, Obstacle(h)) \/ Refuse(h, "nokey")
        \/ /\ loc' = [loc EXCEPT ![h] = l]
           /\ GoTo(h, "key") \/ GoTo(h, "destkey")
    BY <1>5 DEF Resolve
  <2>3. l \in Locals
    <3>1. History(h) \in Seq(Past) /\ path \in Paths /\ Exists(path) \in BOOLEAN
      BY <1>1, HistoryType DEF Paths, Exists
    <3> QED BY <1>1, <3>1 DEF Locals
  <2> HIDE DEF l
  <2>4. {"key", "destkey"} \subseteq Steps /\ "nokey" \in Reasons
    BY DEF Steps, Reasons
  <2> QED BY <1>2, <1>3, <2>1, <2>2, <2>3, <2>4
<1>6. CASE GenerateKey(h)
  <2>1. UNCHANGED <<legacy, port, mem, wrote>>
    BY <1>6 DEF GenerateKey
  <2>2. \/ loc' = [loc EXCEPT ![h] = [loc[h] EXCEPT !.key = h]] /\ GoTo(h, loc[h].ret)
        \/ Refuse(h, "nostore")
    BY <1>6 DEF GenerateKey
  <2>3. [loc[h] EXCEPT !.key = h] \in Locals /\ loc[h].ret \in Steps
    BY <1>1 DEF Locals, Keys, Steps
  <2> QED BY <1>2, <1>3, <2>1, <2>2, <2>3 DEF Reasons
<1>7. CASE DestinationKey(h)
  <2>1. [loc[h] EXCEPT !.left = loc[h].src] \in Locals
    BY <1>1, LocalFields
  <2> QED BY <1>1, <1>7, <2>1, KeyLookedUp, KeyMadeOrFound DEF DestinationKey
<1>8. CASE CanonicalKey(h)
  BY <1>1, <1>8, KeyLookedUp, KeyMadeOrFound DEF CanonicalKey
<1>9. CASE ReadDestination(h)
  <2> DEFINE f == file[loc[h].path]
             l == [loc[h] EXCEPT !.left = Missing(loc[h].src, EventsOf(f)), !.sqlite = (f.fmt = "sqlite")]
  <2>1. UNCHANGED <<legacy, port, mem, wrote>>
    BY <1>9 DEF ReadDestination, hist
  <2>2. \/ Refuse(h, "corrupt") \/ Refuse(h, "diverge")
        \/ GoTo(h, "open") /\ UNCHANGED loc
        \/ GoTo(h, "append") /\ loc' = [loc EXCEPT ![h] = l]
    BY <1>9 DEF ReadDestination
  <2>3. l \in Locals
    <3>1. Missing(loc[h].src, EventsOf(f)) \in Seq(Past)
      <4>1. f \in Ledger
        BY <1>1 DEF TypeOK
      <4>2. Len(EventsOf(f)) \in Nat /\ Len(loc[h].src) \in Nat
        BY <1>1, <4>1, EventsType, LenProperties
      <4>3. Len(EventsOf(f)) + 1 \in Int /\ Len(loc[h].src) \in Int
            /\ \A i \in Len(EventsOf(f)) + 1 .. Len(loc[h].src) : loc[h].src[i] \in Past
        BY <1>1, <4>2, ElementOfSeq
      <4> QED BY <4>3, SubSeqProperties DEF Missing
    <3> QED BY <1>1, <3>1 DEF Locals
  <2> HIDE DEF l
  <2> QED BY <1>1, <1>2, <1>3, <2>1, <2>2, <2>3, HostGoes DEF Steps, Reasons, GoTo
<1>10. CASE VerifyMigration(h)
  <2>1. UNCHANGED <<legacy, port, mem, wrote>> /\ (Refuse(h, "verify") \/ (GoTo(h, "open") /\ UNCHANGED loc))
    BY <1>10 DEF VerifyMigration, hist
  <2> QED BY <1>1, <1>2, <2>1, HostGoes DEF Steps, Reasons, GoTo
<1> QED BY <1>4, <1>5, <1>6, <1>7, <1>8, <1>9, <1>10

\* What a step of h does to the ledgers: they grow.
FilesChange == /\ file' \in [Paths -> Ledger]
               /\ \A p \in Paths : Grows(file[p], file'[p]) /\ (file'[p].fmt = "none" => file'[p] = NoFile)

LEMMA FilesKept ==
  ASSUME ShapeInv, UNCHANGED file
  PROVE  FilesChange
<1>1. \A p \in Paths : Len(file[p].recs) \in Nat
  BY EventsType DEF ShapeInv, TypeOK
<1> QED BY <1>1 DEF FilesChange, Grows, ShapeInv, TypeOK, FormatInv

LEMMA OneGrows ==
  ASSUME ShapeInv, NEW p \in Paths, NEW g \in Ledger, Grows(file[p], g), g.fmt = "none" => g = NoFile,
         file' = [file EXCEPT ![p] = g]
  PROVE  FilesChange /\ file'[p] = g /\ \A q \in Paths \ {p} : file'[q] = file[q]
<1>1. \A q \in Paths : Grows(file[q], file[q])
  BY EventsType DEF ShapeInv, TypeOK, Grows
<1> QED BY <1>1 DEF FilesChange, ShapeInv, TypeOK, FormatInv

\* The line an unfinished migration writes next, and the one a command writes.
Moved(h) == [ev |-> Head(loc[h].left), key |-> loc[h].key]
Committed(h) == [ev |-> <<Len(mem[h]) + 1, h>>, key |-> loc[h].key]

LEMMA MigrationWrites ==
  ASSUME ShapeInv, NEW h \in Hosts, AppendMissing(h)
  PROVE  LET p == loc[h].path IN
         /\ p \in Paths /\ Moved(h) \in Line /\ Head(loc[h].left) \in Past
         /\ FilesChange /\ \A q \in Paths \ {p} : file'[q] = file[q]
         /\ loc[h].sqlite => file[p].fmt = "sqlite" /\ file'[p] = InsertRow(file[p], Moved(h))
         /\ ~loc[h].sqlite => file'[p] = AppendLine(file[p], Moved(h))
<1> DEFINE p == loc[h].path
           r == Moved(h)
           g == IF loc[h].sqlite THEN InsertRow(file[p], r) ELSE AppendLine(file[p], r)
<1>1. p \in Paths /\ loc[h].left \in Seq(Past) /\ loc[h].left # <<>> /\ loc[h].key \in Keys /\ file[p] \in Ledger
  BY DEF ShapeInv, TypeOK, Locals, AppendMissing
<1>2. Head(loc[h].left) \in Past
  BY <1>1, HeadTailProperties
<1>3. r \in Line
  BY <1>1, <1>2 DEF Line, Event, Moved
<1>4. (file[p].fmt = "none" => file[p] = NoFile) /\ (loc[h].sqlite => file[p].fmt = "sqlite")
  BY <1>1 DEF ShapeInv, FormatInv, KnownFormat, AppendMissing
<1>5. g \in Ledger /\ Grows(file[p], g) /\ (g.fmt = "none" => g = NoFile)
  BY <1>1, <1>3, <1>4, LineAppended, RowInserted
<1>6. file' = [file EXCEPT ![p] = g]
  BY <1>1 DEF AppendMissing, Moved, ShapeInv, TypeOK
<1> HIDE DEF g
<1>7. FilesChange /\ file'[p] = g /\ \A q \in Paths \ {p} : file'[q] = file[q]
  BY <1>1, <1>5, <1>6, OneGrows
<1> QED BY <1>1, <1>2, <1>3, <1>4, <1>7 DEF g

LEMMA CommandWrites ==
  ASSUME ShapeInv, NEW h \in Hosts, Commit(h)
  PROVE  LET p == loc[h].path IN
         /\ p \in Paths /\ Committed(h) \in Line /\ <<Len(mem[h]) + 1, h>> \in Nat \X Hosts
         /\ FilesChange /\ \A q \in Paths \ {p} : file'[q] = file[q]
         /\ file[p].fmt = "sqlite" => file'[p] = InsertRow(file[p], Committed(h))
         /\ file[p].fmt # "sqlite" => file'[p] = AppendLine(file[p], Committed(h))
<1> DEFINE p == loc[h].path
           r == Committed(h)
           g == IF file[p].fmt = "sqlite" THEN InsertRow(file[p], r) ELSE AppendLine(file[p], r)
<1>1. p \in Paths /\ loc[h].key \in Keys /\ file[p] \in Ledger /\ Len(mem[h]) \in Nat
  BY LenProperties DEF ShapeInv, TypeOK, Locals
<1>2. <<Len(mem[h]) + 1, h>> \in Nat \X Hosts
  BY <1>1
<1>3. r \in Line
  BY <1>1, <1>2 DEF Line, Event, Committed
<1>4. file[p].fmt = "none" => file[p] = NoFile
  BY <1>1 DEF ShapeInv, FormatInv
<1>5. g \in Ledger /\ Grows(file[p], g) /\ (g.fmt = "none" => g = NoFile)
  BY <1>1, <1>3, <1>4, LineAppended, RowInserted
<1>6. file' = [file EXCEPT ![p] = g]
  BY <1>1 DEF Commit, Committed, ShapeInv, TypeOK
<1> HIDE DEF g
<1>7. FilesChange /\ file'[p] = g /\ \A q \in Paths \ {p} : file'[q] = file[q]
  BY <1>1, <1>5, <1>6, OneGrows
<1> QED BY <1>1, <1>2, <1>3, <1>7 DEF g

LEMMA CrashTears ==
  ASSUME ShapeInv, NEW h \in Hosts, TearingCrash(h)
  PROVE  FilesChange /\ Torn \in Line
<1> DEFINE p == loc[h].path
           g == AppendLine(file[p], Torn)
<1>1. p \in Paths /\ file[p] \in Ledger /\ (file[p].fmt = "none" => file[p] = NoFile)
  BY DEF ShapeInv, TypeOK, Locals, FormatInv
<1>2. Torn \in Line
  BY DEF Torn, Line, Event, Keys
<1>3. g \in Ledger /\ Grows(file[p], g) /\ (g.fmt = "none" => g = NoFile)
  BY <1>1, <1>2, LineAppended
<1>4. file' = [file EXCEPT ![p] = g]
  BY DEF TearingCrash
<1> HIDE DEF g
<1> QED BY <1>1, <1>2, <1>3, <1>4, OneGrows

\* createPreferredEventLedger takes the ledger there is, or makes one.
LEMMA Opened ==
  ASSUME ShapeInv, NEW h \in Hosts, Open(h)
  PROVE  /\ HostChanges(h) /\ pc[h] = "open" /\ UNCHANGED <<file, wrote, raced>>
         /\ \/ /\ pc'[h] = "failed" /\ loc'[h].why \in {"ambiguous", "corrupt"}
               /\ loc'[h].why = "corrupt" => /\ file["base"].fmt = "sqlite"
                                              /\ ~CanRead(h, file["base"], loc[h].key)
                                              /\ ~(Exists("base") /\ Exists("fallback"))
            \/ /\ pc'[h] = "load"
               /\ loc'[h] = [loc[h] EXCEPT !.path = IF Exists("base") THEN "base" ELSE "fallback"]
               /\ ~(Exists("base") /\ Exists("fallback"))
            \/ pc'[h] = "create" /\ loc'[h] = loc[h] /\ ~Exists("base") /\ ~Exists("fallback")
<1>1. /\ TypeOK /\ loc[h] \in Locals /\ UNCHANGED <<legacy, port, mem, file, wrote, raced>>
      /\ {"base", "fallback"} \subseteq Paths /\ loc \in [Hosts -> Locals] /\ pc[h] = "open"
      /\ {"load", "create"} \subseteq Steps
  BY DEF ShapeInv, TypeOK, Locals, Open, Paths, disk, hist, Steps
<1>2. CASE \E why \in {"ambiguous", "corrupt"} : Refuse(h, why)
           /\ (why = "corrupt" => /\ file["base"].fmt = "sqlite"
                                  /\ ~CanRead(h, file["base"], loc[h].key)
                                  /\ ~(Exists("base") /\ Exists("fallback")))
  <2>1. PICK why \in {"ambiguous", "corrupt"} : Refuse(h, why)
           /\ (why = "corrupt" => /\ file["base"].fmt = "sqlite"
                                  /\ ~CanRead(h, file["base"], loc[h].key)
                                  /\ ~(Exists("base") /\ Exists("fallback")))
    BY <1>2
  <2>2. HostChanges(h) /\ pc'[h] = "failed" /\ loc'[h] = [loc[h] EXCEPT !.why = why] /\ loc'[h].why = why
    <3>1. why \in Reasons
      BY DEF Reasons
    <3> QED BY <1>1, <2>1, <3>1, HostRefused DEF Locals
  <2> QED BY <1>1, <2>1, <2>2
<1>3. CASE /\ loc' = [loc EXCEPT ![h].path = IF Exists("base") THEN "base" ELSE "fallback"]
           /\ GoTo(h, "load") /\ ~(Exists("base") /\ Exists("fallback"))
  <2>1. [loc[h] EXCEPT !.path = IF Exists("base") THEN "base" ELSE "fallback"] \in Locals
    BY <1>1, LocalFields
  <2> QED BY <1>1, <1>3, <2>1, HostUpdated DEF GoTo
<1>4. CASE GoTo(h, "create") /\ UNCHANGED loc /\ ~Exists("base") /\ ~Exists("fallback")
  BY <1>1, <1>4, HostGoes DEF GoTo
<1>5. <1>2!1 \/ <1>3!1 \/ <1>4!1
  BY DEF Open
<1> QED BY <1>2, <1>3, <1>4, <1>5

LEMMA Created ==
  ASSUME ShapeInv, NEW h \in Hosts, Create(h)
  PROVE  /\ FilesChange /\ HostChanges(h) /\ pc[h] = "create" /\ pc'[h] = "load"
         /\ loc'[h].key = loc[h].key /\ loc'[h].sqlite = loc[h].sqlite
         /\ \/ UNCHANGED <<file, wrote, raced>>
            \/ /\ file' = [file EXCEPT !["base"] = [fmt |-> "sqlite", key |-> loc[h].key, recs |-> <<>>]]
               /\ ~Exists("base") /\ wrote' = wrote \cup {h} /\ Writes(h)
<1>1. /\ TypeOK /\ loc[h] \in Locals /\ loc[h].key \in Keys /\ UNCHANGED <<legacy, port, mem>>
      /\ {"base", "fallback"} \subseteq Paths /\ loc \in [Hosts -> Locals] /\ pc[h] = "create"
      /\ pc' = [pc EXCEPT ![h] = "load"] /\ "load" \in Steps
  BY DEF ShapeInv, TypeOK, Locals, Create, Paths, GoTo, Steps
<1>2. \A path \in Paths : LET l == [loc[h] EXCEPT !.path = path] IN
        l \in Locals /\ l.key = loc[h].key /\ l.sqlite = loc[h].sqlite
  BY <1>1, LocalFields DEF Locals
<1>3. CASE /\ ~Exists("base")
           /\ file' = [file EXCEPT !["base"] = [fmt |-> "sqlite", key |-> loc[h].key, recs |-> <<>>]]
           /\ wrote' = wrote \cup {h} /\ Writes(h)
           /\ loc' = [loc EXCEPT ![h].path = "base"]
  <2> DEFINE g == [fmt |-> "sqlite", key |-> loc[h].key, recs |-> <<>>]
  <2>1. g \in Ledger /\ Grows(file["base"], g) /\ g.fmt # "none"
    <3>1. file["base"] = NoFile /\ <<>> \in Seq(Line) /\ Len(<<>>) = 0
      BY <1>3, EmptySeq DEF Exists
    <3> QED BY <1>1, <3>1 DEF Ledger, Grows, NoFile
  <2>2. FilesChange
    <3> HIDE DEF g
    <3> QED BY <1>1, <1>3, <2>1, OneGrows DEF g
  <2>3. loc' = [loc EXCEPT ![h] = [loc[h] EXCEPT !.path = "base"]] /\ wrote' = wrote \cup {h}
    BY <1>1, <1>3
  <2>4. PICK l \in Locals : l = [loc[h] EXCEPT !.path = "base"] /\ l.key = loc[h].key /\ l.sqlite = loc[h].sqlite
    BY <1>1, <1>2
  <2>5. HostChanges(h) /\ pc'[h] = "load" /\ loc'[h] = l
    BY <1>1, <2>3, <2>4 DEF HostChanges, TypeOK
  <2> QED BY <1>1, <1>3, <2>2, <2>4, <2>5
<1>4. CASE /\ \E path \in Paths : loc' = [loc EXCEPT ![h].path = path]
           /\ UNCHANGED <<file, wrote, raced>>
  <2>1. PICK path \in Paths : loc' = [loc EXCEPT ![h].path = path]
    BY <1>4
  <2>2. PICK l \in Locals : l = [loc[h] EXCEPT !.path = path] /\ l.key = loc[h].key /\ l.sqlite = loc[h].sqlite
    BY <1>2
  <2>3. loc' = [loc EXCEPT ![h] = l]
    BY <1>1, <2>1, <2>2
  <2>4. HostChanges(h) /\ pc'[h] = "load" /\ loc'[h] = l
    BY <1>1, <1>4, <2>2, <2>3, HostUpdated
  <2> QED BY <1>1, <1>4, <2>2, <2>4, FilesKept
<1>5. <1>3!1 \/ <1>4!1
  BY <1>1 DEF Create
<1> QED BY <1>3, <1>4, <1>5

-----------------------------------------------------------------------------
(* What comes of each step, for its host                                     *)

SamePlan(h) == /\ loc'[h].path = loc[h].path /\ loc'[h].existed = loc[h].existed
               /\ loc'[h].src = loc[h].src /\ loc'[h].sqlite = loc[h].sqlite

LEMMA Probed ==
  ASSUME ShapeInv, NEW h \in Hosts, Probe(h)
  PROVE  /\ HostChanges(h) /\ loc'[h] = NoLocals /\ wrote' = wrote \ {h} /\ pc[h] = "off"
         /\ \/ pc'[h] = "attached"
            \/ pc'[h] = "key" /\ h \in Standalone
            \/ pc'[h] = "resolve" /\ h \notin Standalone
  BY StartHosts DEF ShapeInv, TypeOK, Probe, GoTo

\* What the checks of a host's older ledgers have established.
Agreed(h) == \A l, m \in Seen(h) : Comparable(l.hist, m.hist)
Keyless(h) == \E l \in Seen(h) : ~l.keyed

LEMMA Resolved ==
  ASSUME ShapeInv, NEW h \in Hosts, Resolve(h)
  PROVE  /\ HostChanges(h) /\ pc[h] = "resolve" /\ loc'[h].sqlite = loc[h].sqlite
         /\ keyFaults' \in Nat /\ keyFaults <= keyFaults'
         /\ \/ /\ pc'[h] = "failed"
               /\ loc'[h].why = "nokey" /\ keyFaults' = 0 => Keyless(h)
            \/ /\ pc'[h] = IF Seen(h) = {} THEN "key" ELSE "destkey"
               /\ Agreed(h) /\ loc'[h].src = History(h) /\ loc'[h].existed = Exists(loc'[h].path)
<1>1. /\ HostChanges(h) /\ loc[h] \in Locals /\ loc \in [Hosts -> Locals] /\ pc \in [Hosts -> Steps]
      /\ pc[h] = "resolve" /\ keyFaults \in Nat
  BY StartHosts DEF ShapeInv, TypeOK, Resolve
<1>2. CASE \E why \in Reasons : Refuse(h, why) /\ (why = "nokey" /\ keyFaults' = 0 => Keyless(h))
           /\ (keyFaults' = keyFaults \/ keyFaults' = keyFaults + 1)
  <2>1. PICK why \in Reasons : Refuse(h, why) /\ (why = "nokey" /\ keyFaults' = 0 => Keyless(h))
           /\ (keyFaults' = keyFaults \/ keyFaults' = keyFaults + 1)
    BY <1>2
  <2>2. pc'[h] = "failed" /\ loc'[h] = [loc[h] EXCEPT !.why = why]
    BY <1>1, <2>1 DEF Refuse
  <2> QED BY <1>1, <2>1, <2>2 DEF Locals
<1>3. CASE /\ loc' = [loc EXCEPT ![h].path = IF Exists("fallback") THEN "fallback" ELSE "base",
                                  ![h].existed = Exists(IF Exists("fallback") THEN "fallback" ELSE "base"),
                                  ![h].src = History(h)]
           /\ GoTo(h, IF Seen(h) = {} THEN "key" ELSE "destkey")
           /\ Obstacle(h) = "none" /\ keyFaults' = keyFaults
  <2> DEFINE path == IF Exists("fallback") THEN "fallback" ELSE "base"
  <2>1. pc'[h] = IF Seen(h) = {} THEN "key" ELSE "destkey"
    BY <1>1, <1>3 DEF GoTo
  <2>2. loc'[h].path = path /\ loc'[h].existed = Exists(path) /\ loc'[h].src = History(h)
        /\ loc'[h].sqlite = loc[h].sqlite
    <3> DEFINE x == Exists(path)
               l == [loc[h] EXCEPT !.path = path, !.existed = x, !.src = History(h)]
    <3>1. loc' = [loc EXCEPT ![h] = l]
      BY <1>1, <1>3
    <3>2. loc'[h] = l
      BY <1>1, <3>1
    <3> HIDE DEF x
    <3>3. l.path = path /\ l.existed = x /\ l.src = History(h) /\ l.sqlite = loc[h].sqlite
      BY <1>1 DEF Locals
    <3> QED BY <3>2, <3>3 DEF x
  <2>3. Agreed(h)
    BY <1>3 DEF Obstacle, Agreed
  <2> QED BY <1>1, <1>3, <2>1, <2>2, <2>3
<1>4. <1>2!1 \/ <1>3!1
  <2>1. Obstacle(h) \in Reasons /\ "nokey" \in Reasons /\ (Obstacle(h) = "nokey" => Keyless(h))
    BY DEF Obstacle, Reasons, Keyless
  <2>2. CASE Obstacle(h) # "none" /\ Refuse(h, Obstacle(h)) /\ UNCHANGED keyFaults
    BY <2>1, <2>2
  <2>3. CASE keyFaults' = keyFaults + 1 /\ Refuse(h, "nokey")
    <3>1. keyFaults' # 0
      BY <1>1, <2>3
    <3> QED BY <2>1, <2>3, <3>1
  <2> QED BY <2>2, <2>3 DEF Resolve
<1> QED BY <1>2, <1>3, <1>4

LEMMA Generated ==
  ASSUME ShapeInv, NEW h \in Hosts, GenerateKey(h)
  PROVE  /\ HostChanges(h) /\ pc[h] = "genkey" /\ SamePlan(h)
         /\ loc'[h].left = loc[h].left
         /\ \/ /\ pc'[h] = loc[h].ret /\ loc'[h].key = h /\ stored' = [stored EXCEPT !["base"] = h]
               /\ rekeyed' = (rekeyed \/ stored["base"] # NoKey)
            \/ pc'[h] = "failed" /\ loc'[h].why = "nostore" /\ UNCHANGED <<stored, rekeyed>>
<1>1. /\ HostChanges(h) /\ loc[h] \in Locals /\ loc \in [Hosts -> Locals] /\ pc \in [Hosts -> Steps]
      /\ pc[h] = "genkey"
  BY StartHosts DEF ShapeInv, TypeOK, GenerateKey
<1>2. \/ /\ pc'[h] = loc[h].ret /\ loc'[h] = [loc[h] EXCEPT !.key = h] /\ stored' = [stored EXCEPT !["base"] = h]
         /\ rekeyed' = (rekeyed \/ stored["base"] # NoKey)
      \/ pc'[h] = "failed" /\ loc'[h] = [loc[h] EXCEPT !.why = "nostore"] /\ UNCHANGED <<stored, rekeyed>>
  BY <1>1 DEF GenerateKey, GoTo, Refuse
<1> QED BY <1>1, <1>2 DEF SamePlan, Locals

LEMMA DestinationFound ==
  ASSUME ShapeInv, NEW h \in Hosts, DestinationKey(h)
  PROVE  /\ HostChanges(h) /\ pc[h] = "destkey" /\ SamePlan(h)
         /\ keyFaults' \in Nat /\ keyFaults <= keyFaults'
         /\ \/ /\ Exists(loc[h].path) /\ pc'[h] = "failed" /\ loc'[h].why = "nokey"
               /\ keyFaults' = 0 => stored[loc[h].path] = NoKey
            \/ /\ Exists(loc[h].path) /\ stored[loc[h].path] # NoKey
               /\ pc'[h] = "readdest" /\ loc'[h].key = stored[loc[h].path]
            \/ /\ ~Exists(loc[h].path) /\ loc'[h].left = loc[h].src
               /\ \/ pc'[h] = "genkey" /\ loc'[h].ret = IF loc[h].src = <<>> THEN "open" ELSE "append"
                  \/ /\ stored["base"] # NoKey /\ loc'[h].key = stored["base"]
                     /\ pc'[h] = IF loc[h].src = <<>> THEN "open" ELSE "append"
<1>1. /\ loc[h] \in Locals /\ loc[h].path \in Paths /\ TypeOK /\ pc[h] = "destkey" /\ loc[h].src \in Seq(Past)
      /\ UNCHANGED <<legacy, disk, port, mem, hist, starts, tears>>
  BY DEF ShapeInv, TypeOK, DestinationKey, Locals
<1>2. CASE Exists(loc[h].path)
  <2>1. LoadExistingKey(h, loc[h].path, "readdest")
    BY <1>2 DEF DestinationKey
  <2>3. /\ HostChanges(h) /\ keyFaults' \in Nat /\ keyFaults <= keyFaults'
        /\ \/ /\ pc'[h] = "failed" /\ loc'[h] = [loc[h] EXCEPT !.why = "nokey"]
              /\ keyFaults' = 0 => stored[loc[h].path] = NoKey
           \/ /\ stored[loc[h].path] # NoKey /\ pc'[h] = "readdest"
              /\ loc'[h] = [loc[h] EXCEPT !.key = stored[loc[h].path]]
    BY <1>1, <2>1, KeyLookedUp
  <2> QED BY <1>1, <1>2, <2>3 DEF Locals, SamePlan
<1>3. CASE ~Exists(loc[h].path)
  <2>1. PICK l : l = [loc[h] EXCEPT !.left = loc[h].src]
    OBVIOUS
  <2>2. PICK ret \in {"append", "open"} : ret = IF loc[h].src = <<>> THEN "open" ELSE "append"
    OBVIOUS
  <2>3. LoadOrCreateKey(h, l, ret)
    BY <1>3, <2>1, <2>2 DEF DestinationKey
  <2>4. /\ l \in Locals /\ l.path = loc[h].path /\ l.existed = loc[h].existed /\ l.src = loc[h].src
        /\ l.sqlite = loc[h].sqlite /\ l.left = loc[h].src
    BY <1>1, <2>1 DEF Locals
  <2>5. /\ HostChanges(h) /\ keyFaults' \in Nat /\ keyFaults <= keyFaults'
        /\ \/ pc'[h] = "genkey" /\ loc'[h] = [l EXCEPT !.ret = ret]
           \/ stored["base"] # NoKey /\ pc'[h] = ret /\ loc'[h] = [l EXCEPT !.key = stored["base"]]
    BY <1>1, <2>2, <2>3, <2>4, KeyMadeOrFound
  <2>6. SamePlan(h) /\ loc'[h].left = loc[h].src
    BY <2>4, <2>5 DEF SamePlan, Locals
  <2>7. \/ pc'[h] = "genkey" /\ loc'[h].ret = ret
        \/ stored["base"] # NoKey /\ pc'[h] = ret /\ loc'[h].key = stored["base"]
    BY <2>4, <2>5 DEF Locals
  <2> QED BY <1>1, <1>3, <2>2, <2>5, <2>6, <2>7
<1> QED BY <1>2, <1>3

LEMMA CanonicalFound ==
  ASSUME ShapeInv, NEW h \in Hosts, CanonicalKey(h)
  PROVE  /\ HostChanges(h) /\ pc[h] = "key" /\ SamePlan(h)
         /\ keyFaults' \in Nat /\ keyFaults <= keyFaults'
         /\ \/ /\ h \notin Standalone /\ (IF h \in Ide THEN loc[h].existed ELSE Exists(loc[h].path))
               /\ \/ /\ pc'[h] = "failed" /\ loc'[h].why = "nokey"
                     /\ keyFaults' = 0 => stored[loc[h].path] = NoKey
                  \/ /\ stored[loc[h].path] # NoKey
                     /\ pc'[h] = "open" /\ loc'[h].key = stored[loc[h].path]
            \/ pc'[h] = "genkey" /\ loc'[h].ret = "open"
            \/ stored["base"] # NoKey /\ pc'[h] = "open" /\ loc'[h].key = stored["base"]
<1>1. /\ loc[h] \in Locals /\ loc[h].path \in Paths /\ TypeOK /\ pc[h] = "key"
      /\ UNCHANGED <<legacy, disk, port, mem, hist, starts, tears>>
  BY DEF ShapeInv, TypeOK, CanonicalKey, Locals
<1>2. CASE /\ h \notin Standalone /\ (IF h \in Ide THEN loc[h].existed ELSE Exists(loc[h].path))
           /\ LoadExistingKey(h, loc[h].path, "open")
  <2>1. /\ HostChanges(h) /\ keyFaults' \in Nat /\ keyFaults <= keyFaults'
        /\ \/ /\ pc'[h] = "failed" /\ loc'[h] = [loc[h] EXCEPT !.why = "nokey"]
              /\ keyFaults' = 0 => stored[loc[h].path] = NoKey
           \/ /\ stored[loc[h].path] # NoKey /\ pc'[h] = "open"
              /\ loc'[h] = [loc[h] EXCEPT !.key = stored[loc[h].path]]
    BY <1>1, <1>2, KeyLookedUp
  <2> QED BY <1>1, <1>2, <2>1 DEF Locals, SamePlan
<1>3. CASE LoadOrCreateKey(h, loc[h], "open")
  <2>1. PICK l \in Locals : l = loc[h]
    BY <1>1
  <2>2. /\ HostChanges(h) /\ keyFaults' \in Nat /\ keyFaults <= keyFaults'
        /\ \/ pc'[h] = "genkey" /\ loc'[h] = [l EXCEPT !.ret = "open"]
           \/ stored["base"] # NoKey /\ pc'[h] = "open" /\ loc'[h] = [l EXCEPT !.key = stored["base"]]
    BY <1>1, <1>3, <2>1, KeyMadeOrFound
  <2> QED BY <1>1, <2>1, <2>2 DEF Locals, SamePlan
<1> QED BY <1>2, <1>3 DEF CanonicalKey

LEMMA DestinationCompared ==
  ASSUME ShapeInv, NEW h \in Hosts, ReadDestination(h)
  PROVE  LET f == file[loc[h].path]
             dest == EventsOf(f) IN
         /\ HostChanges(h) /\ pc[h] = "readdest" /\ loc'[h].path = loc[h].path /\ loc'[h].src = loc[h].src
         /\ loc'[h].key = loc[h].key /\ (pc'[h] # "append" => loc'[h].sqlite = loc[h].sqlite)
         /\ \/ /\ pc'[h] = "failed"
               /\ \/ loc'[h].why = "corrupt" /\ ~CanRead(h, f, loc[h].key)
                  \/ loc'[h].why = "diverge" /\ ~Comparable(dest, loc[h].src)
            \/ /\ CanRead(h, f, loc[h].key) /\ Comparable(dest, loc[h].src)
               /\ \/ pc'[h] = "open" /\ Len(dest) >= Len(loc[h].src)
                  \/ /\ pc'[h] = "append" /\ Len(dest) < Len(loc[h].src)
                     /\ loc'[h].left = Missing(loc[h].src, dest) /\ loc'[h].sqlite = (f.fmt = "sqlite")
<1> DEFINE f == file[loc[h].path]
           dest == EventsOf(f)
           left == Missing(loc[h].src, dest)
           sq == (f.fmt = "sqlite")
<1>1. /\ HostChanges(h) /\ loc[h] \in Locals /\ loc \in [Hosts -> Locals] /\ pc \in [Hosts -> Steps]
      /\ pc[h] = "readdest"
  BY StartHosts DEF ShapeInv, TypeOK, ReadDestination
<1>2. CASE Refuse(h, "corrupt") /\ ~CanRead(h, f, loc[h].key)
  <2>1. pc'[h] = "failed" /\ loc'[h] = [loc[h] EXCEPT !.why = "corrupt"]
    BY <1>1, <1>2 DEF Refuse
  <2> QED BY <1>1, <1>2, <2>1 DEF Locals
<1>3. CASE Refuse(h, "diverge") /\ ~Comparable(dest, loc[h].src)
  <2>1. pc'[h] = "failed" /\ loc'[h] = [loc[h] EXCEPT !.why = "diverge"]
    BY <1>1, <1>3 DEF Refuse
  <2> QED BY <1>1, <1>3, <2>1 DEF Locals
<1>4. CASE /\ CanRead(h, f, loc[h].key) /\ Comparable(dest, loc[h].src)
           /\ Len(dest) >= Len(loc[h].src) /\ GoTo(h, "open") /\ UNCHANGED loc
  BY <1>1, <1>4 DEF GoTo
<1>5. CASE /\ CanRead(h, f, loc[h].key) /\ Comparable(dest, loc[h].src) /\ ~(Len(dest) >= Len(loc[h].src))
           /\ GoTo(h, "append") /\ loc' = [loc EXCEPT ![h].left = left, ![h].sqlite = sq]
  <2>1. Len(dest) \in Nat /\ Len(loc[h].src) \in Nat
    BY <1>1, EventsType, LenProperties DEF ShapeInv, TypeOK, Locals
  <2> HIDE DEF left, sq
  <2>2. loc' = [loc EXCEPT ![h] = [loc[h] EXCEPT !.left = left, !.sqlite = sq]]
    BY <1>1, <1>5
  <2>3. loc'[h] = [loc[h] EXCEPT !.left = left, !.sqlite = sq]
    BY <1>1, <2>2
  <2>4. /\ loc'[h].path = loc[h].path /\ loc'[h].src = loc[h].src /\ loc'[h].key = loc[h].key
        /\ loc'[h].left = left /\ loc'[h].sqlite = sq
    BY <1>1, <2>3 DEF Locals
  <2> QED BY <1>1, <1>5, <2>1, <2>4 DEF left, sq, GoTo
<1>6. <1>2!1 \/ <1>3!1 \/ <1>4!1 \/ <1>5!1
  BY DEF ReadDestination
<1> QED BY <1>2, <1>3, <1>4, <1>5, <1>6

LEMMA MigrationAppended ==
  ASSUME ShapeInv, NEW h \in Hosts, AppendMissing(h)
  PROVE  /\ HostChanges(h) /\ pc[h] = "append" /\ SamePlan(h) /\ loc'[h].key = loc[h].key
         /\ loc[h].left \in Seq(Past) /\ loc[h].left # <<>> /\ loc'[h].left = Tail(loc[h].left)
         /\ pc'[h] = IF Len(loc[h].left) = 1 THEN "verify" ELSE "append"
         /\ wrote' = wrote \cup {h} /\ Writes(h)
<1>1. /\ loc[h] \in Locals /\ loc[h].left \in Seq(Past) /\ loc \in [Hosts -> Locals] /\ pc \in [Hosts -> Steps]
      /\ pc[h] = "append" /\ loc[h].left # <<>> /\ mem \in [Hosts -> Seq(Event)] /\ wrote \subseteq Hosts
      /\ port \in Hosts \cup {NoHost}
  BY DEF ShapeInv, TypeOK, AppendMissing, Locals
<1>2. Tail(loc[h].left) \in Seq(Past)
  BY <1>1, HeadTailProperties
<1>3. PICK l : l = [loc[h] EXCEPT !.left = Tail(loc[h].left)]
  OBVIOUS
<1>4. l \in Locals
  BY <1>1, <1>2, <1>3, LocalFields
<1>5. /\ loc' = [loc EXCEPT ![h] = l] /\ wrote' = wrote \cup {h} /\ Writes(h) /\ UNCHANGED <<legacy, port, mem>>
      /\ pc' = [pc EXCEPT ![h] = IF Len(loc[h].left) = 1 THEN "verify" ELSE "append"]
  BY <1>1, <1>3 DEF AppendMissing, GoTo
<1>6. HostChanges(h) /\ loc'[h] = l
  BY <1>1, <1>4, <1>5 DEF HostChanges, Steps
<1>7. SamePlan(h) /\ loc'[h].key = loc[h].key /\ loc'[h].left = Tail(loc[h].left)
  BY <1>1, <1>3, <1>6 DEF SamePlan, Locals
<1> QED BY <1>1, <1>5, <1>6, <1>7

LEMMA MigrationVerified ==
  ASSUME ShapeInv, NEW h \in Hosts, VerifyMigration(h)
  PROVE  /\ HostChanges(h) /\ pc[h] = "verify" /\ SamePlan(h) /\ loc'[h].key = loc[h].key
         /\ \/ ~Verified(h) /\ pc'[h] = "failed" /\ loc'[h].why = "verify"
            \/ Verified(h) /\ pc'[h] = "open" /\ loc'[h] = loc[h]
<1>1. /\ HostChanges(h) /\ loc[h] \in Locals /\ loc \in [Hosts -> Locals] /\ pc \in [Hosts -> Steps]
      /\ pc[h] = "verify"
  BY StartHosts DEF ShapeInv, TypeOK, VerifyMigration
<1>2. CASE Verified(h)
  BY <1>1, <1>2 DEF VerifyMigration, GoTo, SamePlan
<1>3. CASE ~Verified(h)
  <2>1. pc'[h] = "failed" /\ loc'[h] = [loc[h] EXCEPT !.why = "verify"]
    BY <1>1, <1>3 DEF VerifyMigration, Refuse
  <2> QED BY <1>1, <1>3, <2>1 DEF SamePlan, Locals
<1> QED BY <1>2, <1>3

LEMMA Loaded ==
  ASSUME ShapeInv, NEW h \in Hosts, Load(h)
  PROVE  LET f == file[loc[h].path] IN
         /\ HostChanges(h) /\ pc[h] = "load" /\ SamePlan(h) /\ loc'[h].key = loc[h].key
         /\ \/ ~Readable(f, loc[h].key) /\ pc'[h] = "failed" /\ loc'[h].why = "corrupt" /\ mem' = mem
            \/ /\ Readable(f, loc[h].key) /\ mem'[h] = EventsOf(f)
               /\ pc'[h] = IF h \in Mcp THEN "serving" ELSE "listen"
<1> DEFINE f == file[loc[h].path]
<1>1. /\ TypeOK /\ loc[h] \in Locals /\ loc \in [Hosts -> Locals] /\ pc \in [Hosts -> Steps]
      /\ mem \in [Hosts -> Seq(Event)] /\ wrote \subseteq Hosts /\ port \in Hosts \cup {NoHost}
      /\ pc[h] = "load" /\ UNCHANGED <<legacy, port, wrote>>
  BY DEF ShapeInv, TypeOK, Load, hist
<1>2. CASE Readable(f, loc[h].key)
  <2>1. EventsOf(f) \in Seq(Event)
    BY <1>1, EventsType DEF TypeOK, Locals
  <2>2. /\ mem' = [mem EXCEPT ![h] = EventsOf(f)] /\ loc' = loc
        /\ pc' = [pc EXCEPT ![h] = IF h \in Mcp THEN "serving" ELSE "listen"]
    BY <1>2 DEF Load, GoTo
  <2>3. pc' \in [Hosts -> Steps] /\ mem' \in [Hosts -> Seq(Event)]
    BY <1>1, <2>1, <2>2 DEF Steps
  <2>4. PICK evs : evs = EventsOf(f)
    OBVIOUS
  <2>5. HostChanges(h) /\ SamePlan(h) /\ loc'[h].key = loc[h].key
    BY <1>1, <2>2, <2>3 DEF HostChanges, SamePlan
  <2>6. mem'[h] = EventsOf(f) /\ pc'[h] = IF h \in Mcp THEN "serving" ELSE "listen"
    BY <1>1, <2>2, <2>4
  <2> QED BY <1>1, <1>2, <2>5, <2>6
<1>3. CASE ~Readable(f, loc[h].key)
  <2>1. Refuse(h, "corrupt") /\ mem' = mem
    BY <1>3 DEF Load
  <2>2. HostChanges(h) /\ pc'[h] = "failed" /\ loc'[h] = [loc[h] EXCEPT !.why = "corrupt"]
    BY <1>1, <2>1, HostRefused DEF Reasons
  <2> QED BY <1>1, <1>3, <2>1, <2>2 DEF SamePlan, Locals
<1> QED BY <1>2, <1>3

LEMMA Listened ==
  ASSUME ShapeInv, NEW h \in Hosts, Listen(h)
  PROVE  /\ HostChanges(h) /\ pc[h] = "listen" /\ SamePlan(h) /\ loc'[h].key = loc[h].key
         /\ \/ pc'[h] = "serving" /\ mem' = mem /\ port = NoHost /\ port' = h
            \/ /\ mem'[h] = <<>> /\ port' = port
               /\ pc'[h] = "attached" \/ (pc'[h] = "failed" /\ loc'[h].why = "inuse")
<1>1. /\ TypeOK /\ loc[h] \in Locals /\ loc \in [Hosts -> Locals] /\ pc \in [Hosts -> Steps]
      /\ mem \in [Hosts -> Seq(Event)] /\ wrote \subseteq Hosts /\ port \in Hosts \cup {NoHost}
      /\ pc[h] = "listen" /\ UNCHANGED <<legacy, wrote>> /\ <<>> \in Seq(Event)
  BY EmptySeq DEF ShapeInv, TypeOK, Listen, hist
<1>2. CASE port = NoHost
  BY <1>1, <1>2 DEF Listen, GoTo, HostChanges, SamePlan, Steps
<1>3. CASE port # NoHost
  <2>1. mem' = [mem EXCEPT ![h] = <<>>] /\ port' = port
    BY <1>3 DEF Listen
  <2>2. CASE Refuse(h, "inuse")
    <3>1. [loc[h] EXCEPT !.why = "inuse"] \in Locals
      BY <1>1, LocalFields DEF Reasons
    <3>2. loc' = [loc EXCEPT ![h] = [loc[h] EXCEPT !.why = "inuse"]] /\ pc' = [pc EXCEPT ![h] = "failed"]
      BY <2>2 DEF Refuse
    <3>3. HostChanges(h) /\ pc'[h] = "failed" /\ loc'[h] = [loc[h] EXCEPT !.why = "inuse"] /\ mem'[h] = <<>>
      BY <1>1, <2>1, <3>1, <3>2 DEF HostChanges, Steps
    <3> QED BY <1>1, <2>1, <3>3 DEF SamePlan, Locals
  <2>3. CASE GoTo(h, "attached") /\ UNCHANGED loc
    BY <1>1, <2>1, <2>3 DEF GoTo, HostChanges, SamePlan, Steps
  <2> QED BY <1>3, <2>2, <2>3 DEF Listen
<1> QED BY <1>2, <1>3

LEMMA CommandDone ==
  ASSUME ShapeInv, NEW h \in Hosts, Commit(h)
  PROVE  /\ HostChanges(h) /\ pc[h] = "serving" /\ pc' = pc /\ loc' = loc /\ UNCHANGED wrote
         /\ mem[h] \in Seq(Event) /\ <<Len(mem[h]) + 1, h>> \in Event
         /\ mem'[h] = Append(mem[h], <<Len(mem[h]) + 1, h>>)
         /\ acked' = acked \cup {<<Len(mem[h]) + 1, h>>}
<1>1. /\ loc \in [Hosts -> Locals] /\ pc \in [Hosts -> Steps] /\ mem \in [Hosts -> Seq(Event)]
      /\ wrote \subseteq Hosts /\ port \in Hosts \cup {NoHost} /\ mem[h] \in Seq(Event)
      /\ pc[h] = "serving" /\ UNCHANGED <<legacy, pc, loc, wrote, port>>
  BY DEF ShapeInv, TypeOK, Commit
<1>2. PICK e : e = <<Len(mem[h]) + 1, h>>
  OBVIOUS
<1>3. e \in Event
  BY <1>2, CommandWrites DEF Event
<1>4. mem' = [mem EXCEPT ![h] = Append(mem[h], e)] /\ acked' = acked \cup {e}
  BY <1>1, <1>2 DEF Commit
<1>5. Append(mem[h], e) \in Seq(Event)
  BY <1>1, <1>3, AppendProperties
<1>6. mem' \in [Hosts -> Seq(Event)] /\ mem'[h] = Append(mem[h], e)
  BY <1>1, <1>4, <1>5
<1> QED BY <1>1, <1>2, <1>3, <1>4, <1>6 DEF HostChanges

LEMMA Ended ==
  ASSUME ShapeInv, NEW h \in Hosts, Stop(h) \/ TearingCrash(h)
  PROVE  HostChanges(h) /\ pc'[h] = "off" /\ loc' = loc /\ UNCHANGED wrote /\ mem'[h] = <<>>
         /\ port' = IF port = h THEN NoHost ELSE port
<1>1. /\ loc \in [Hosts -> Locals] /\ pc \in [Hosts -> Steps] /\ mem \in [Hosts -> Seq(Event)]
      /\ wrote \subseteq Hosts /\ port \in Hosts \cup {NoHost} /\ <<>> \in Seq(Event)
      /\ UNCHANGED <<legacy, loc, wrote>> /\ Gone(h)
  BY EmptySeq DEF ShapeInv, TypeOK, Stop, TearingCrash, hist
<1> QED BY <1>1 DEF Gone, HostChanges, Steps

\* Every step changes one host, and the ledgers only by growth.
LEMMA StepChanges ==
  ASSUME ShapeInv, NEW h \in Hosts, HostStep(h)
  PROVE  HostChanges(h) /\ FilesChange
<1>1. CASE AppendMissing(h)
  BY <1>1, MigrationWrites, MigrationAppended
<1>2. CASE Open(h) \/ Create(h)
  BY <1>2, Opened, Created, FilesKept
<1>3. CASE Commit(h)
  BY <1>3, CommandWrites, CommandDone
<1>4. CASE TearingCrash(h)
  BY <1>4, CrashTears, Ended
<1>5. CASE \/ Probe(h) \/ Resolve(h) \/ GenerateKey(h) \/ DestinationKey(h) \/ CanonicalKey(h)
           \/ ReadDestination(h) \/ VerifyMigration(h)
  <2>1. file' = file
    BY <1>5 DEF Probe, Resolve, GenerateKey, DestinationKey, CanonicalKey, ReadDestination,
                VerifyMigration, disk
  <2> QED BY <1>5, <2>1, FilesKept, StartHosts
<1>6. CASE Load(h) \/ Listen(h) \/ Stop(h)
  <2>1. file' = file
    BY <1>6 DEF Load, Listen, Stop, disk
  <2> QED BY <1>6, <2>1, FilesKept, Loaded, Listened, Ended
<1> QED BY <1>1, <1>2, <1>3, <1>4, <1>5, <1>6 DEF HostStep

\* The counters and the histories keep their types.
LEMMA StepCounts ==
  ASSUME ShapeInv, NEW h \in Hosts, HostStep(h)
  PROVE  /\ stored' \in [Paths -> Keys] /\ acked' \subseteq Nat \X Hosts
         /\ {raced', rekeyed'} \subseteq BOOLEAN /\ {starts', tears', keyFaults'} \subseteq Nat
<1>1. /\ stored \in [Paths -> Keys] /\ acked \subseteq Nat \X Hosts
      /\ {raced, rekeyed} \subseteq BOOLEAN /\ {starts, tears, keyFaults} \subseteq Nat
  BY DEF ShapeInv, TypeOK
<1>2. CASE Resolve(h) \/ DestinationKey(h) \/ CanonicalKey(h)
  BY <1>1, <1>2, Resolved, DestinationFound, CanonicalFound DEF Resolve, DestinationKey, CanonicalKey, disk, hist
<1>3. CASE GenerateKey(h)
  <2>1. stored' \in [Paths -> Keys] /\ UNCHANGED <<acked, raced, starts, tears>> /\ keyFaults' \in Nat
    BY <1>1, <1>3 DEF GenerateKey, Keys
  <2>2. rekeyed' \in BOOLEAN
    BY <1>1, <1>3 DEF GenerateKey
  <2> QED BY <1>1, <2>1, <2>2
<1>4. CASE Commit(h)
  BY <1>1, <1>4, CommandWrites, CommandDone DEF Commit, Writes, bounds
<1>5. CASE AppendMissing(h) \/ Create(h)
  BY <1>1, <1>5 DEF AppendMissing, Create, Writes, bounds
<1>6. CASE Probe(h) \/ TearingCrash(h)
  BY <1>1, <1>6 DEF Probe, TearingCrash, disk, hist
<1>7. CASE ReadDestination(h) \/ VerifyMigration(h) \/ Open(h) \/ Load(h) \/ Listen(h) \/ Stop(h)
  BY <1>1, <1>7 DEF ReadDestination, VerifyMigration, Open, Load, Listen, Stop, disk, hist, bounds
<1> QED BY <1>2, <1>3, <1>4, <1>5, <1>6, <1>7 DEF HostStep

\* Who has no broker in memory has nothing there, and who has the port serves.
LEMMA StepOwners ==
  ASSUME ShapeInv, NEW h \in Hosts, HostStep(h)
  PROVE  /\ port' # NoHost => pc'[port'] = "serving"
         /\ \A x \in Hosts : pc'[x] \notin {"listen", "serving"} => mem'[x] = <<>>
<1>1. /\ HostChanges(h) /\ NoHost \notin Hosts /\ port \in Hosts \cup {NoHost}
      /\ port # NoHost => pc[port] = "serving"
      /\ \A x \in Hosts : pc[x] \notin {"listen", "serving"} => mem[x] = <<>>
  BY StepChanges, LedgerAssumption DEF ShapeInv, TypeOK
<1>2. SUFFICES /\ port' = h \/ (port' = port /\ (port = h => pc'[h] = "serving")) \/ port' = NoHost
               /\ port' = h => pc'[h] = "serving"
               /\ pc'[h] \notin {"listen", "serving"} => mem'[h] = <<>>
  BY <1>1 DEF HostChanges
<1>3. CASE \/ Probe(h) \/ Resolve(h) \/ GenerateKey(h) \/ DestinationKey(h) \/ ReadDestination(h)
           \/ AppendMissing(h) \/ VerifyMigration(h) \/ CanonicalKey(h) \/ Open(h) \/ Create(h)
  <2>1. UNCHANGED <<port, mem>> /\ pc[h] \notin {"listen", "serving"}
    BY <1>3 DEF Probe, Resolve, GenerateKey, DestinationKey, ReadDestination, AppendMissing,
                VerifyMigration, CanonicalKey, Open, Create
  <2> QED BY <1>1, <2>1
<1>4. CASE Load(h)
  <2>1. port' = port
    BY <1>4 DEF Load
  <2> QED BY <1>1, <1>4, <2>1, Loaded
<1>5. CASE Listen(h)
  BY <1>1, <1>5, Listened
<1>6. CASE Commit(h)
  <2>1. port' = port
    BY <1>6 DEF Commit
  <2> QED BY <1>1, <1>6, <2>1, CommandDone
<1>7. CASE Stop(h) \/ TearingCrash(h)
  BY <1>1, <1>7, Ended
<1> QED BY <1>3, <1>4, <1>5, <1>6, <1>7 DEF HostStep

\* What a migration takes for an SQLCipher ledger stays one.
LEMMA StepFormats ==
  ASSUME ShapeInv, NEW h \in Hosts, HostStep(h), NEW x \in Hosts
  PROVE  KnownFormat(x)'
<1>1. /\ HostChanges(h) /\ FilesChange /\ KnownFormat(x) /\ loc[x] \in Locals /\ loc[x].path \in Paths
  BY StepChanges DEF ShapeInv, FormatInv, TypeOK, Locals
<1>2. CASE x # h
  <2>1. pc'[x] = pc[x] /\ loc'[x] = loc[x]
    BY <1>1, <1>2 DEF HostChanges
  <2>2. file[loc[x].path].fmt = "sqlite" => file'[loc[x].path].fmt = "sqlite"
    BY <1>1 DEF FilesChange, Grows
  <2> QED BY <1>1, <2>1, <2>2 DEF KnownFormat, Unwritten
<1>3. CASE x = h
  <2>1. CASE Probe(h)
    BY <1>3, <2>1, Probed DEF KnownFormat, Unwritten, NoLocals
  <2>2. CASE Resolve(h)
    BY <1>1, <1>3, <2>2, Resolved DEF KnownFormat, Unwritten
  <2>3. CASE GenerateKey(h)
    <3>1. loc[h].ret \in {"off", "append", "open"}
      BY <1>1, <1>3 DEF Locals
    <3> QED BY <1>1, <1>3, <2>3, <3>1, Generated DEF KnownFormat, Unwritten, SamePlan
  <2>4. CASE DestinationKey(h)
    BY <1>1, <1>3, <2>4, DestinationFound DEF KnownFormat, Unwritten, SamePlan
  <2>5. CASE CanonicalKey(h)
    BY <1>1, <1>3, <2>5, CanonicalFound DEF KnownFormat, Unwritten, SamePlan
  <2>6. CASE ReadDestination(h)
    <3>1. file' = file
      BY <2>6 DEF ReadDestination, disk
    <3> QED BY <1>1, <1>3, <2>6, <3>1, DestinationCompared DEF KnownFormat, Unwritten
  <2>7. CASE AppendMissing(h)
    <3>1. file[loc[h].path].fmt = "sqlite" => file'[loc[h].path].fmt = "sqlite"
      BY <1>1, <1>3 DEF FilesChange, Grows
    <3> QED BY <1>1, <1>3, <2>7, <3>1, MigrationAppended DEF KnownFormat, Unwritten, SamePlan
  <2>8. CASE VerifyMigration(h)
    BY <1>1, <1>3, <2>8, MigrationVerified DEF KnownFormat, Unwritten
  <2>9. CASE Open(h) \/ Create(h)
    BY <1>1, <1>3, <2>9, Opened, Created DEF KnownFormat, Unwritten
  <2>10. CASE Load(h) \/ Listen(h) \/ Commit(h) \/ Stop(h) \/ TearingCrash(h)
    BY <1>1, <1>3, <2>10, Loaded, Listened, CommandDone, Ended DEF KnownFormat, Unwritten
  <2> QED BY <2>1, <2>2, <2>3, <2>4, <2>5, <2>6, <2>7, <2>8, <2>9, <2>10 DEF HostStep
<1> QED BY <1>2, <1>3

LEMMA ShapeInit == Init => ShapeInv
<1> SUFFICES ASSUME Init PROVE ShapeInv
  OBVIOUS
<1>1. <<>> \in Seq(Line) /\ <<>> \in Seq(Past) /\ <<>> \in Seq(Event)
  BY EmptySeq
<1>2. NoFile \in Ledger /\ NoFile.fmt = "none"
  BY <1>1 DEF NoFile, Ledger, Keys
<1>3. NoLocals \in Locals /\ NoLocals.sqlite = FALSE
  BY <1>1 DEF NoLocals, Locals, Keys, Paths, Reasons
<1>4. TypeOK
  <2>1. /\ legacy \in Legacies /\ port \in Hosts \cup {NoHost} /\ pc \in [Hosts -> Steps]
        /\ acked \subseteq Nat \X Hosts /\ wrote \subseteq Hosts
        /\ {starts, tears, keyFaults} \subseteq Nat
    BY DEF Init, Steps
  <2>2. /\ file \in [Paths -> Ledger] /\ stored \in [Paths -> Keys]
        /\ loc \in [Hosts -> Locals] /\ mem \in [Hosts -> Seq(Event)]
    BY <1>1, <1>2, <1>3 DEF Init, Keys
  <2>3. port = NoHost /\ \A h \in Hosts : mem[h] = <<>>
    BY DEF Init
  <2>4. {raced, rekeyed} \subseteq BOOLEAN
    BY Zenon DEF Init
  <2> QED BY <2>1, <2>2, <2>3, <2>4 DEF TypeOK
<1>5. FormatInv
  BY <1>2, <1>3 DEF FormatInv, KnownFormat, Unwritten, Init
<1> QED BY <1>4, <1>5 DEF ShapeInv

LEMMA ShapeStep == ShapeInv /\ [Next]_vars => ShapeInv'
<1>1. ASSUME ShapeInv, UNCHANGED vars PROVE ShapeInv'
  BY <1>1 DEF ShapeInv, TypeOK, FormatInv, KnownFormat, Unwritten, vars, disk, hist, bounds
<1>2. ASSUME ShapeInv, NEW h \in Hosts, HostStep(h) PROVE ShapeInv'
  <2>1. HostChanges(h) /\ FilesChange /\ legacy \in Legacies
    BY <1>2, StepChanges DEF ShapeInv, TypeOK
  <2>2. /\ stored' \in [Paths -> Keys] /\ acked' \subseteq Nat \X Hosts
        /\ {raced', rekeyed'} \subseteq BOOLEAN /\ {starts', tears', keyFaults'} \subseteq Nat
    BY <1>2, StepCounts
  <2>3. /\ port' # NoHost => pc'[port'] = "serving"
        /\ \A x \in Hosts : pc'[x] \notin {"listen", "serving"} => mem'[x] = <<>>
    BY <1>2, StepOwners
  <2>4. TypeOK'
    BY <2>1, <2>2, <2>3 DEF TypeOK, HostChanges, FilesChange
  <2>5. FormatInv'
    BY <1>2, <2>1, StepFormats DEF FormatInv, FilesChange
  <2> QED BY <2>4, <2>5 DEF ShapeInv
<1> QED BY <1>1, <1>2 DEF Next

\* What the start-up's variables are, in every state: and whoever has the port
\* serves.
THEOREM LedgerTypes == Spec => []TypeOK
<1>1. ShapeInv => TypeOK
  BY DEF ShapeInv
<1> QED BY <1>1, ShapeInit, ShapeStep, PTL DEF Spec

-----------------------------------------------------------------------------
(* Who serves has the whole older history                                    *)

\* Where each start-up is: one that migrates knows the older history, and one that
\* is past the migration has a ledger that begins with it.
Settled(h) == pc[h] \in {"open", "load", "listen", "serving"}
PhaseOK(h) ==
  /\ pc[h] = "genkey" => loc[h].ret \in {"append", "open"}
  /\ pc[h] = "resolve" \/ InMigration(h) => h \notin Standalone
  /\ InMigration(h) => loc[h].src = History(h)
  /\ h \notin Standalone =>
       /\ pc[h] \notin {"off", "attached", "resolve", "failed"} => Agreed(h)
       /\ pc[h] \in {"key", "create"} \/ (pc[h] = "genkey" /\ loc[h].ret = "open") => History(h) = <<>>
       /\ Settled(h) => Begins(History(h), file[loc[h].path].recs)
       /\ pc[h] \in {"listen", "serving"} =>
            Len(History(h)) <= Len(mem[h]) /\ \A i \in 1 .. Len(History(h)) : mem[h][i] = History(h)[i]
PhaseInv == \A h \in Hosts : PhaseOK(h)

\* A ledger that begins with older events still does when it has grown: none of
\* them is a torn line.
LEMMA BeginningKept ==
  ASSUME NEW f \in Ledger, NEW g \in Ledger, Grows(f, g), NEW s \in Seq(Past), Begins(s, f.recs)
  PROVE  Begins(s, g.recs)
<1>1. Len(s) \in Nat /\ Len(f.recs) \in Nat /\ Len(g.recs) \in Nat /\ \A i \in 1 .. Len(s) : s[i] \in Past
  BY LenProperties, ElementOfSeq, EventsType
<1>2. ASSUME NEW i \in 1 .. Len(s) PROVE g.recs[i].ev = s[i]
  <2>1. i \in 1 .. Len(f.recs) /\ f.recs[i].ev = s[i] /\ s[i] # Torn.ev
    BY <1>1, LedgerAssumption DEF Begins
  <2> QED BY <2>1 DEF Grows
<1> QED BY <1>1, <1>2 DEF Begins, Grows

\* A step of one host leaves the others where they are.
LEMMA OthersInPhase ==
  ASSUME ShapeInv, NEW h \in Hosts, HostChanges(h), FilesChange, NEW x \in Hosts \ {h}, PhaseOK(x)
  PROVE  PhaseOK(x)'
<1>1. /\ pc'[x] = pc[x] /\ loc'[x] = loc[x] /\ mem'[x] = mem[x] /\ History(x)' = History(x)
      /\ Agreed(x)' = Agreed(x)
      /\ InMigration(x)' = InMigration(x) /\ Settled(x)' = Settled(x)
  BY HistoriesKept DEF HostChanges, InMigration, Settled, Agreed
<1>2. Begins(History(x), file[loc[x].path].recs) => Begins(History(x), file'[loc[x].path].recs)
  <2>1. loc[x].path \in Paths /\ History(x) \in Seq(Past)
    BY HistoryType DEF ShapeInv, TypeOK, Locals
  <2> QED BY <2>1, BeginningKept DEF FilesChange, ShapeInv, TypeOK
<1> QED BY <1>1, <1>2 DEF PhaseOK

\* Nothing begins every ledger.
LEMMA NothingBegins ==
  ASSUME NEW f \in Ledger
  PROVE  Begins(<<>>, f.recs)
  BY EmptySeq, EventsType DEF Begins

LEMMA PastEvents ==
  ASSUME NEW s \in Seq(Past)
  PROVE  s \in Seq(Event)
<1>1. Len(s) \in Nat /\ DOMAIN s = 1 .. Len(s) /\ s \in [1 .. Len(s) -> Past] /\ Past \subseteq Event
  BY LenProperties DEF Event
<1>2. s \in [1 .. Len(s) -> Event]
  BY <1>1
<1> QED BY <1>1, <1>2, SMTT(30) DEF Seq

\* A ledger that agrees with a history and is not shorter begins with it.
LEMMA ComparedBegins ==
  ASSUME NEW f \in Ledger, NEW s \in Seq(Past), Comparable(EventsOf(f), s), Len(EventsOf(f)) >= Len(s)
  PROVE  Begins(s, f.recs)
<1>1. /\ EventsOf(f) \in Seq(Event) /\ Len(EventsOf(f)) = Len(f.recs) /\ Len(f.recs) \in Nat
      /\ \A i \in 1 .. Len(f.recs) : EventsOf(f)[i] = f.recs[i].ev
      /\ s \in Seq(Event) /\ Len(s) \in Nat
  BY PastEvents, EventsType, LenProperties
<1>2. CASE IsPrefix(EventsOf(f), s)
  <2>1. Len(EventsOf(f)) <= Len(s) /\ \A i \in 1 .. Len(EventsOf(f)) : EventsOf(f)[i] = s[i]
    BY <1>1, <1>2, PrefixPoints
  <2> QED BY <1>1, <2>1 DEF Begins
<1>3. CASE IsPrefix(s, EventsOf(f))
  <2>1. Len(s) <= Len(EventsOf(f)) /\ \A i \in 1 .. Len(s) : s[i] = EventsOf(f)[i]
    BY <1>1, <1>3, PrefixPoints
  <2> QED BY <1>1, <2>1 DEF Begins
<1> QED BY <1>2, <1>3 DEF Comparable

LEMMA PhaseStep ==
  ASSUME ShapeInv, NEW h \in Hosts, PhaseOK(h), HostStep(h)
  PROVE  PhaseOK(h)'
<1>1. /\ HostChanges(h) /\ FilesChange /\ History(h)' = History(h) /\ History(h) \in Seq(Past)
      /\ loc[h] \in Locals /\ loc[h].path \in Paths /\ file \in [Paths -> Ledger]
      /\ loc' \in [Hosts -> Locals] /\ loc'[h].path \in Paths
      /\ Agreed(h)' = Agreed(h)
  BY StepChanges, HistoryType, HistoriesKept DEF ShapeInv, TypeOK, Locals, HostChanges, Agreed
<1>2. \A p \in Paths : Begins(<<>>, file'[p].recs) /\ (Begins(History(h), file[p].recs) => Begins(History(h), file'[p].recs))
  BY <1>1, NothingBegins, BeginningKept DEF FilesChange
<1>3. CASE Probe(h)
  BY <1>3, Probed DEF PhaseOK, InMigration, Settled
<1>4. CASE Resolve(h)
  <2>1. Seen(h) = {} => History(h) = <<>>
    BY DEF History
  <2> QED BY <1>1, <1>4, <2>1, Resolved DEF PhaseOK, InMigration, Settled
<1>5. CASE GenerateKey(h)
  BY <1>1, <1>2, <1>5, Generated DEF PhaseOK, InMigration, Settled, SamePlan
<1>6. CASE DestinationKey(h)
  <2>1. h \notin Standalone /\ loc[h].src = History(h) /\ pc[h] = "destkey"
    BY <1>6, DestinationFound DEF PhaseOK, InMigration
  <2>2. loc'[h].src = History(h) /\ (pc'[h] = "genkey" => loc'[h].ret \in {"append", "open"})
    BY <1>6, <2>1, DestinationFound DEF SamePlan
  <2>3. pc'[h] = "open" \/ (pc'[h] = "genkey" /\ loc'[h].ret = "open") => History(h) = <<>>
    BY <1>6, <2>1, DestinationFound
  <2>4. pc'[h] \in {"failed", "readdest", "genkey", "open", "append"}
    BY <1>6, DestinationFound
  <2> QED BY <1>1, <1>2, <2>1, <2>2, <2>3, <2>4 DEF PhaseOK, InMigration, Settled
<1>7. CASE ReadDestination(h)
  <2>1. h \notin Standalone /\ loc[h].src = History(h) /\ pc[h] = "readdest"
    BY <1>7, DestinationCompared DEF PhaseOK, InMigration
  <2>2. pc'[h] = "open" => Begins(History(h), file[loc[h].path].recs)
    BY <1>1, <1>7, <2>1, DestinationCompared, ComparedBegins
  <2>3. pc'[h] \in {"failed", "open", "append"} /\ loc'[h].path = loc[h].path /\ loc'[h].src = loc[h].src
    BY <1>7, DestinationCompared
  <2> QED BY <1>1, <1>2, <2>1, <2>2, <2>3 DEF PhaseOK, InMigration, Settled
<1>8. CASE AppendMissing(h)
  BY <1>1, <1>8, MigrationAppended DEF PhaseOK, InMigration, Settled, SamePlan
<1>9. CASE VerifyMigration(h)
  <2>1. h \notin Standalone /\ loc[h].src = History(h)
    BY <1>9, MigrationVerified DEF PhaseOK, InMigration
  <2>2. Verified(h) => Begins(History(h), file[loc[h].path].recs)
    BY <1>1, <2>1, EventsType DEF Verified, Begins
  <2> QED BY <1>1, <1>2, <1>9, <2>1, <2>2, MigrationVerified DEF PhaseOK, InMigration, Settled
<1>10. CASE CanonicalKey(h)
  BY <1>1, <1>2, <1>10, CanonicalFound DEF PhaseOK, InMigration, Settled
<1>11. CASE Open(h)
  <2>1. pc[h] = "open" /\ pc'[h] \in {"failed", "load", "create"}
    BY <1>11, Opened
  <2>2. ASSUME h \notin Standalone
        PROVE  /\ pc'[h] = "load" => Begins(History(h), file[loc'[h].path].recs)
               /\ pc'[h] = "create" => History(h) = <<>>
    <3>1. Begins(History(h), file[loc[h].path].recs) /\ (loc[h].path = "base" \/ loc[h].path = "fallback")
      BY <1>1, <2>1, <2>2 DEF PhaseOK, Settled, Paths
    <3>2. CASE Exists(loc[h].path)
      BY <1>1, <1>11, <2>1, <3>1, <3>2, Opened DEF Locals
    <3>3. CASE ~Exists(loc[h].path)
      <4>1. Len(History(h)) = 0 /\ History(h) = <<>>
        BY <1>1, <3>1, <3>3, LenProperties, EmptySeq DEF Begins, Exists, NoFile
      <4> QED BY <1>1, <4>1, EventsType DEF Begins
    <3> QED BY <3>2, <3>3
  <2> QED BY <1>1, <1>2, <2>1, <2>2 DEF PhaseOK, InMigration, Settled
<1>16. CASE Create(h)
  <2>1. pc[h] = "create" /\ pc'[h] = "load"
    BY <1>16, Created
  <2> QED BY <1>1, <1>2, <2>1 DEF PhaseOK, InMigration, Settled
<1>12. CASE Load(h)
  <2>1. h \notin Standalone => Begins(History(h), file[loc[h].path].recs)
    BY <1>12, Loaded DEF PhaseOK, Settled
  <2>2. h \notin Standalone /\ pc'[h] # "failed" =>
          Len(History(h)) <= Len(mem'[h]) /\ \A i \in 1 .. Len(History(h)) : mem'[h][i] = History(h)[i]
    <3> SUFFICES ASSUME h \notin Standalone, pc'[h] # "failed"
                 PROVE  Len(History(h)) <= Len(mem'[h]) /\ \A i \in 1 .. Len(History(h)) : mem'[h][i] = History(h)[i]
      OBVIOUS
    <3>1. PICK f \in Ledger : f = file[loc[h].path]
      BY <1>1
    <3>2. mem'[h] = EventsOf(f) /\ Begins(History(h), f.recs)
      BY <1>12, <2>1, <3>1, Loaded
    <3>3. /\ Len(EventsOf(f)) = Len(f.recs) /\ Len(f.recs) \in Nat /\ Len(History(h)) \in Nat
          /\ \A i \in 1 .. Len(f.recs) : EventsOf(f)[i] = f.recs[i].ev
      BY <1>1, EventsType, LenProperties
    <3> QED BY <3>2, <3>3 DEF Begins
  <2> QED BY <1>1, <1>2, <1>12, <2>1, <2>2, Loaded DEF PhaseOK, InMigration, Settled, SamePlan
<1>13. CASE Listen(h)
  BY <1>1, <1>2, <1>13, Listened DEF PhaseOK, InMigration, Settled, SamePlan
<1>14. CASE Commit(h)
  <2>1. h \notin Standalone =>
          Len(History(h)) <= Len(mem'[h]) /\ \A i \in 1 .. Len(History(h)) : mem'[h][i] = History(h)[i]
    <3>1. PICK e : e = <<Len(mem[h]) + 1, h>>
      OBVIOUS
    <3>2. mem[h] \in Seq(Event) /\ e \in Event /\ mem'[h] = Append(mem[h], e) /\ pc[h] = "serving"
      BY <1>14, <3>1, CommandDone
    <3>3. /\ Len(mem[h]) \in Nat /\ Len(History(h)) \in Nat /\ Len(mem'[h]) = Len(mem[h]) + 1
          /\ \A i \in 1 .. Len(mem[h]) : mem'[h][i] = mem[h][i]
      BY <1>1, <3>2, AppendProperties, LenProperties
    <3>4. h \notin Standalone => Len(History(h)) <= Len(mem[h]) /\ \A i \in 1 .. Len(History(h)) : mem[h][i] = History(h)[i]
      BY <3>2 DEF PhaseOK
    <3> QED BY <3>3, <3>4
  <2> QED BY <1>1, <1>2, <1>14, <2>1, CommandDone DEF PhaseOK, InMigration, Settled
<1>15. CASE Stop(h) \/ TearingCrash(h)
  BY <1>15, Ended DEF PhaseOK, InMigration, Settled
<1> QED BY <1>3, <1>4, <1>5, <1>6, <1>7, <1>8, <1>9, <1>10, <1>11, <1>12, <1>13, <1>14, <1>15, <1>16 DEF HostStep

LEMMA PhaseInvariant == Spec => [](ShapeInv /\ PhaseInv)
<1>1. Init => PhaseInv
  BY DEF Init, PhaseInv, PhaseOK, InMigration, Settled
<1>2. ShapeInv /\ PhaseInv /\ [Next]_vars => PhaseInv'
  <2>1. ASSUME ShapeInv, PhaseInv, NEW h \in Hosts, HostStep(h) PROVE PhaseInv'
    BY <2>1, PhaseStep, OthersInPhase, StepChanges DEF PhaseInv
  <2>2. ASSUME PhaseInv, UNCHANGED vars PROVE PhaseInv'
    BY <2>2 DEF PhaseInv, PhaseOK, InMigration, Settled, History, Agreed, Seen, vars, disk, hist, bounds
  <2> QED BY <2>1, <2>2 DEF Next
<1> QED BY <1>1, <1>2, ShapeInit, ShapeStep, PTL DEF Spec

\* Comparable histories: the shorter one begins the longer one.
LEMMA ShorterBegins ==
  ASSUME NEW S, NEW s \in Seq(S), NEW t \in Seq(S), Comparable(s, t), Len(s) <= Len(t)
  PROVE  \A i \in 1 .. Len(s) : s[i] = t[i]
<1>1. Len(s) \in Nat /\ Len(t) \in Nat
  BY LenProperties
<1>2. CASE IsPrefix(s, t)
  BY <1>2, PrefixPoints
<1>3. CASE IsPrefix(t, s)
  BY <1>1, <1>3, PrefixPoints
<1> QED BY <1>2, <1>3 DEF Comparable

\* A host that migrates older ledgers serves only with the whole history of each of
\* those it finds in its memory, from the first event on, whoever else starts,
\* migrates, crashes or writes meanwhile, wherever they look, and whatever its key is.
THEOREM OlderHistoryServed == Spec => []ServesOlderHistory
<1>1. ShapeInv /\ PhaseInv => ServesOlderHistory
  <2> SUFFICES ASSUME ShapeInv, PhaseInv, NEW h \in Hosts \ Standalone, pc[h] = "serving", NEW l \in Seen(h)
               PROVE  IsPrefix(l.hist, mem[h])
    BY DEF ServesOlderHistory
  <2>1. /\ mem[h] \in Seq(Event) /\ Agreed(h)
        /\ Len(History(h)) <= Len(mem[h]) /\ \A i \in 1 .. Len(History(h)) : mem[h][i] = History(h)[i]
    BY DEF ShapeInv, TypeOK, PhaseInv, PhaseOK
  <2>2. PICK s \in Seq(Past), t \in Seq(Past) :
             s = l.hist /\ t = History(h) /\ Comparable(s, t) /\ Len(s) <= Len(t)
    <3>1. TypeOK
      BY DEF ShapeInv
    <3>2. PICK m \in Seen(h) : History(h) = m.hist
      BY <3>1, SeenType
    <3> QED BY <2>1, <3>1, <3>2, SeenType DEF Agreed
  <2>3. s \in Seq(Event) /\ Len(s) \in Nat /\ Len(t) \in Nat /\ Len(mem[h]) \in Nat
    BY <2>1, <2>2, PastEvents, LenProperties
  <2>4. \A i \in 1 .. Len(s) : s[i] = t[i]
    BY <2>2, ShorterBegins
  <2>5. Len(s) <= Len(mem[h]) /\ \A i \in 1 .. Len(s) : s[i] = mem[h][i]
    BY <2>1, <2>2, <2>3, <2>4
  <2> QED BY <2>1, <2>2, <2>3, <2>5, PrefixPoints
<1> QED BY <1>1, PhaseInvariant, PTL

-----------------------------------------------------------------------------
(* Why a host is refused for want of a key                                   *)

\* A start-up that has a key.
Keyed(h) == pc[h] \in {"readdest", "append", "verify", "open", "create", "load", "listen", "serving"}

HasCause(h) ==
  pc[h] = "failed" /\ loc[h].why = "nokey" /\ keyFaults = 0 =>
    \/ Keyless(h)
    \/ Exists("fallback") /\ stored["base"] # NoKey

\* No key is ever stored for the fallback place; without the other one there is
\* neither a ledger nor a host with a key.
KeyInv ==
  /\ stored["fallback"] = NoKey
  /\ stored["base"] = NoKey => (\A p \in Paths : ~Exists(p)) /\ \A h \in Hosts : ~Keyed(h)
  /\ \A h \in Hosts : pc[h] = "key" /\ loc[h].existed => Exists(loc[h].path)
  /\ \A h \in Hosts : HasCause(h)

\* Only a key's generation stores one, only a host with a key writes, and faults
\* of the key store are counted.
LEMMA KeyStoreKept ==
  ASSUME ShapeInv, NEW h \in Hosts, HostStep(h)
  PROVE  /\ stored' = stored \/ GenerateKey(h)
         /\ file' = file \/ Keyed(h)
         /\ keyFaults' = 0 => keyFaults = 0
         /\ \A p \in Paths : Exists(p) => Exists(p)'
<1>1. stored' = stored \/ GenerateKey(h)
  BY DEF HostStep, Probe, Resolve, DestinationKey, ReadDestination, AppendMissing, VerifyMigration,
         CanonicalKey, Open, Create, Load, Listen, Commit, Stop, TearingCrash, disk
<1>2. file' = file \/ Keyed(h)
  BY DEF HostStep, Probe, Resolve, GenerateKey, DestinationKey, ReadDestination, AppendMissing, VerifyMigration,
         CanonicalKey, Open, Create, Load, Listen, Commit, Stop, TearingCrash, disk, Keyed
<1>3. keyFaults' = 0 => keyFaults = 0
  <2>1. keyFaults \in Nat
    BY DEF ShapeInv, TypeOK
  <2>2. CASE DestinationKey(h) \/ CanonicalKey(h)
    BY <2>1, <2>2, DestinationFound, CanonicalFound
  <2>3. CASE GenerateKey(h) \/ Resolve(h)
    BY <2>1, <2>3, Resolved DEF GenerateKey
  <2>4. CASE ~(DestinationKey(h) \/ CanonicalKey(h) \/ GenerateKey(h) \/ Resolve(h))
    <3>1. keyFaults' = keyFaults
      BY <2>4 DEF HostStep, Probe, ReadDestination, AppendMissing, VerifyMigration,
                  Open, Create, Load, Listen, Commit, Stop, TearingCrash, bounds
    <3> QED BY <3>1
  <2> QED BY <2>2, <2>3, <2>4
<1>4. \A p \in Paths : Exists(p) => Exists(p)'
  BY StepChanges DEF FilesChange, Grows, Exists, ShapeInv, FormatInv, NoFile
<1> QED BY <1>1, <1>2, <1>3, <1>4

\* A refusal for want of a key has its cause when it happens.
LEMMA RefusedForCause ==
  ASSUME ShapeInv, KeyInv, NEW h \in Hosts, HostStep(h), pc[h] # "failed",
         pc'[h] = "failed", loc'[h].why = "nokey", keyFaults' = 0
  PROVE  \/ Keyless(h)
         \/ Exists("fallback") /\ stored["base"] # NoKey
<1>1. loc[h].path \in Paths /\ loc[h] \in Locals
  BY DEF ShapeInv, TypeOK, Locals
<1>2. Exists(loc[h].path) /\ stored[loc[h].path] = NoKey => Exists("fallback") /\ stored["base"] # NoKey
  BY <1>1 DEF KeyInv, Paths
<1>3. CASE Resolve(h)
  BY <1>3, Resolved
<1>4. CASE DestinationKey(h)
  BY <1>2, <1>4, DestinationFound
<1>5. CASE CanonicalKey(h)
  BY <1>2, <1>5, CanonicalFound DEF KeyInv
<1>6. CASE \/ Probe(h) \/ GenerateKey(h) \/ ReadDestination(h) \/ AppendMissing(h) \/ VerifyMigration(h)
           \/ Open(h) \/ Create(h) \/ Load(h) \/ Listen(h) \/ Commit(h) \/ Stop(h) \/ TearingCrash(h)
  BY <1>1, <1>6, Probed, Generated, DestinationCompared, MigrationAppended, MigrationVerified, Opened, Created,
     Loaded, Listened, CommandDone, Ended, ZenonT(30) DEF Locals
<1> QED BY <1>3, <1>4, <1>5, <1>6 DEF HostStep

\* Who has a key, a ledger that was found, or neither.
LEMMA KeyedStep ==
  ASSUME ShapeInv, KeyInv, NEW h \in Hosts, HostStep(h)
  PROVE  /\ Keyed(h)' => Keyed(h) \/ stored'["base"] # NoKey
         /\ pc'[h] = "key" /\ loc'[h].existed => Exists(loc[h].path)'
<1>1. CASE Probe(h)
  BY <1>1, Probed DEF Keyed, NoLocals
<1>2. CASE Resolve(h)
  <2>1. file' = file
    BY <1>2 DEF Resolve, disk
  <2> QED BY <1>2, <2>1, Resolved DEF Keyed, Exists
<1>3. CASE GenerateKey(h)
  <2>1. h # NoKey /\ stored \in [Paths -> Keys] /\ loc[h].ret \in {"off", "append", "open"}
    BY LedgerAssumption DEF ShapeInv, TypeOK, Locals
  <2> QED BY <1>3, <2>1, Generated DEF Keyed, Paths
<1>4. CASE DestinationKey(h) \/ CanonicalKey(h)
  <2>1. stored' = stored /\ loc[h].path \in Paths /\ stored["fallback"] = NoKey
    BY <1>4 DEF DestinationKey, CanonicalKey, disk, ShapeInv, TypeOK, Locals, KeyInv
  <2>2. stored[loc[h].path] # NoKey => stored["base"] # NoKey
    BY <2>1 DEF Paths
  <2> QED BY <1>4, <2>1, <2>2, DestinationFound, CanonicalFound DEF Keyed
<1>5. CASE ReadDestination(h) \/ AppendMissing(h) \/ VerifyMigration(h) \/ Load(h) \/ Listen(h) \/ Commit(h)
  BY <1>5, DestinationCompared, MigrationAppended, MigrationVerified, Loaded, Listened, CommandDone DEF Keyed
<1>6. CASE Open(h) \/ Create(h)
  BY <1>6, Opened, Created DEF Keyed
<1>7. CASE Stop(h) \/ TearingCrash(h)
  BY <1>7, Ended DEF Keyed
<1> QED BY <1>1, <1>2, <1>3, <1>4, <1>5, <1>6, <1>7 DEF HostStep

LEMMA KeyInvariant == Spec => [](ShapeInv /\ KeyInv)
<1>1. Init => KeyInv
  BY DEF Init, KeyInv, HasCause, Exists, Keyed, Paths
<1>2. ASSUME ShapeInv, KeyInv, NEW h \in Hosts, HostStep(h) PROVE KeyInv'
  <2>1. /\ HostChanges(h) /\ h # NoKey /\ stored \in [Paths -> Keys]
        /\ stored' = stored \/ stored' = [stored EXCEPT !["base"] = h]
        /\ \A p \in Paths : Exists(p) => Exists(p)'
    BY <1>2, StepChanges, KeyStoreKept, LedgerAssumption DEF ShapeInv, TypeOK, GenerateKey
  <2>2. stored'["fallback"] = NoKey /\ (stored'["base"] = NoKey => stored["base"] = NoKey)
    BY <1>2, <2>1 DEF KeyInv, Paths
  <2>3. ASSUME stored'["base"] = NoKey PROVE (\A p \in Paths : ~Exists(p)') /\ \A x \in Hosts : ~Keyed(x)'
    <3>1. (\A p \in Paths : ~Exists(p)) /\ \A x \in Hosts : ~Keyed(x)
      BY <1>2, <2>2, <2>3 DEF KeyInv
    <3>2. file' = file /\ ~Keyed(h)'
      BY <1>2, <2>3, <3>1, KeyStoreKept, KeyedStep
    <3> QED BY <2>1, <3>1, <3>2 DEF Exists, Keyed, HostChanges
  <2>4. ASSUME NEW x \in Hosts, pc'[x] = "key", loc'[x].existed PROVE Exists(loc[x].path)'
    <3>1. CASE x = h
      BY <1>2, <2>4, <3>1, KeyedStep
    <3>2. CASE x # h
      <4>1. pc[x] = "key" /\ loc[x].existed /\ loc'[x] = loc[x] /\ loc[x].path \in Paths
        BY <1>2, <2>1, <2>4, <3>2 DEF HostChanges, ShapeInv, TypeOK, Locals
      <4>2. Exists(loc[x].path)
        BY <1>2, <4>1 DEF KeyInv
      <4> QED BY <2>1, <4>1, <4>2 DEF Exists
    <3> QED BY <3>1, <3>2
  <2>5. ASSUME NEW x \in Hosts PROVE HasCause(x)'
    <3>1. SUFFICES ASSUME pc'[x] = "failed", loc'[x].why = "nokey", keyFaults' = 0
                   PROVE  \/ Keyless(x)
                          \/ Exists("fallback") /\ stored["base"] # NoKey
      BY <2>1, <2>2, HistoriesKept DEF HasCause, HostChanges, Paths, Keyless
    <3>2. keyFaults = 0
      BY <1>2, <3>1, KeyStoreKept
    <3>3. CASE pc[h] # "failed" /\ x = h
      BY <1>2, <3>1, <3>3, RefusedForCause
    <3>4. CASE x # h
      BY <1>2, <2>1, <3>1, <3>2, <3>4 DEF KeyInv, HasCause, HostChanges
    <3>5. CASE pc[h] = "failed" /\ x = h
      <4>1. Stop(h)
        BY <1>2, <3>1, <3>5, Probed, Resolved, Generated, DestinationFound, CanonicalFound, DestinationCompared,
           MigrationAppended, MigrationVerified, Opened, Created, Loaded, Listened, CommandDone, Ended DEF HostStep
      <4> QED BY <1>2, <3>1, <3>5, <4>1, Ended
    <3> QED BY <3>3, <3>4, <3>5
  <2> QED BY <2>2, <2>3, <2>4, <2>5 DEF KeyInv
<1>3. ASSUME KeyInv, UNCHANGED vars PROVE KeyInv'
  BY <1>3 DEF KeyInv, HasCause, Keyless, Seen, Exists, Keyed, vars, disk, hist, bounds
<1>4. ShapeInv /\ KeyInv /\ [Next]_vars => KeyInv'
  BY <1>2, <1>3 DEF Next
<1> QED BY <1>1, <1>4, ShapeInit, ShapeStep, PTL DEF Spec

\* While the key store answers, a host is refused for want of a key only when older
\* ledgers lost theirs, or when the ledger is in the fallback place.
THEOREM KeyRefusalsHaveCauses == Spec => []KeyRefusalHasCause
<1>1. KeyInv => KeyRefusalHasCause
  BY DEF KeyInv, HasCause, Keyless, KeyRefusalHasCause
<1> QED BY <1>1, KeyInvariant, PTL

-----------------------------------------------------------------------------
(* What was answered stays readable                                          *)

\* While no stored key was replaced and no line torn, everything in the ledgers is
\* under the stored key, every start-up has that key, and no answered event is lost.
Clean == ~rekeyed /\ tears = 0
UnderKey(f) == /\ f.fmt = "sqlite" => f.key = stored["base"]
               /\ \A i \in 1 .. Len(f.recs) : f.recs[i].key = stored["base"]
Recorded(e) == \E p \in Paths : \E i \in 1 .. Len(file[p].recs) : file[p].recs[i].ev = e
CleanInv == Clean => /\ \A p \in Paths : UnderKey(file[p])
                     /\ \A h \in Hosts : Keyed(h) => loc[h].key = stored["base"]
                     /\ \A e \in acked : Recorded(e)

\* Where no line is torn, a write adds its line, or finds it there.
LEMMA LineWritten ==
  ASSUME NEW f \in Ledger, NEW r \in Line, NEW g, f.fmt = "none" => f = NoFile,
         \A i \in 1 .. Len(f.recs) : f.recs[i] # Torn,
         \/ f.fmt = "sqlite" /\ g = InsertRow(f, r)
         \/ g = AppendLine(f, r)
  PROVE  /\ g \in Ledger /\ (g = f \/ Adds(f, g, r))
         /\ g.fmt = "sqlite" => f.fmt = "sqlite" /\ g.key = f.key
         /\ f.fmt # "sqlite" \/ g = InsertRow(f, r) => \E i \in 1 .. Len(g.recs) : g.recs[i] = r
<1>1. Len(f.recs) \in Nat
  BY EventsType
<1>2. CASE f.fmt = "sqlite" /\ g = InsertRow(f, r)
  <2>1. /\ g \in Ledger /\ g.fmt = f.fmt /\ g.key = f.key
        /\ \/ g = f /\ \E i \in 1 .. Len(f.recs) : f.recs[i] = r
           \/ Adds(f, g, r)
    BY <1>2, RowInserted
  <2>2. Adds(f, g, r) => \E i \in 1 .. Len(g.recs) : g.recs[i] = r
    BY <1>1 DEF Adds
  <2> QED BY <2>1, <2>2
<1>3. CASE g = AppendLine(f, r)
  <2>1. /\ g \in Ledger
        /\ f.fmt = "sqlite" => g = f
        /\ f.fmt # "sqlite" => g.fmt = "jsonl" /\ Adds(f, g, r)
    BY <1>3, LineAppended
  <2>2. Adds(f, g, r) => \E i \in 1 .. Len(g.recs) : g.recs[i] = r
    BY <1>1 DEF Adds
  <2>3. g = InsertRow(f, r) /\ f.fmt = "sqlite" => \E i \in 1 .. Len(g.recs) : g.recs[i] = r
    BY <1>2
  <2> QED BY <2>1, <2>2, <2>3
<1> QED BY <1>2, <1>3

\* A ledger under a key has no torn line.
LEMMA UnderKeyWhole ==
  ASSUME ShapeInv, KeyInv, NEW p \in Paths, UnderKey(file[p])
  PROVE  \A i \in 1 .. Len(file[p].recs) : file[p].recs[i] # Torn
<1> SUFFICES ASSUME NEW i \in 1 .. Len(file[p].recs), file[p].recs[i] = Torn PROVE FALSE
  OBVIOUS
<1>1. stored["base"] = NoKey
  BY DEF UnderKey, Torn
<1>2. file[p] = NoFile
  BY <1>1 DEF KeyInv, Exists
<1> QED BY <1>2, EmptySeq DEF NoFile

\* A step that leaves things clean found them clean.
LEMMA CleanBefore ==
  ASSUME ShapeInv, NEW h \in Hosts, HostStep(h), Clean'
  PROVE  /\ Clean /\ ~TearingCrash(h)
         /\ \/ stored' = stored
            \/ /\ stored' = [stored EXCEPT !["base"] = h] /\ stored["base"] = NoKey /\ GenerateKey(h)
               /\ loc'[h].key = h /\ UNCHANGED <<file, acked>>
<1>1. tears \in Nat
  BY DEF ShapeInv, TypeOK
<1>2. ~TearingCrash(h)
  BY <1>1 DEF TearingCrash, Clean
<1>3. tears' = tears
  BY <1>2 DEF HostStep, Probe, Resolve, GenerateKey, DestinationKey, ReadDestination, AppendMissing, VerifyMigration,
              CanonicalKey, Open, Create, Load, Listen, Commit, Stop, bounds
<1>4. CASE GenerateKey(h)
  <2>1. UNCHANGED <<file, acked>>
    BY <1>4 DEF GenerateKey
  <2> QED BY <1>2, <1>3, <1>4, <2>1, Generated DEF Clean
<1>5. CASE ~GenerateKey(h)
  <2>1. rekeyed' = rekeyed
    BY <1>2, <1>5 DEF HostStep, Probe, Resolve, DestinationKey, ReadDestination, AppendMissing, VerifyMigration,
              CanonicalKey, Open, Create, Load, Listen, Commit, Stop, hist
  <2> QED BY <1>2, <1>3, <1>5, <2>1, KeyStoreKept DEF Clean
<1> QED BY <1>4, <1>5

\* What was recorded still is.
LEMMA StillRecorded ==
  ASSUME ShapeInv, KeyInv, FilesChange, \A p \in Paths : UnderKey(file[p]), NEW e, Recorded(e)
  PROVE  Recorded(e)'
<1>1. PICK p \in Paths : \E i \in 1 .. Len(file[p].recs) : file[p].recs[i].ev = e
  BY DEF Recorded
<1>2. PICK i \in 1 .. Len(file[p].recs) : file[p].recs[i].ev = e
  BY <1>1
<1>3. file[p].recs[i] # Torn /\ Len(file[p].recs) \in Nat /\ Len(file'[p].recs) \in Nat
  BY UnderKeyWhole, EventsType DEF FilesChange, ShapeInv, TypeOK
<1>4. Grows(file[p], file'[p])
  BY DEF FilesChange
<1>5. i \in 1 .. Len(file'[p].recs) /\ file'[p].recs[i].ev = e
  BY <1>2, <1>3, <1>4 DEF Grows
<1> QED BY <1>5 DEF Recorded

\* The key a start-up ends up with is the stored one.
LEMMA KeyIsStored ==
  ASSUME ShapeInv, KeyInv, CleanInv, Clean, NEW h \in Hosts, HostStep(h), stored' = stored, Keyed(h)',
         ~GenerateKey(h)
  PROVE  loc'[h].key = stored["base"]
<1>1. loc[h].path \in Paths /\ loc[h] \in Locals /\ loc \in [Hosts -> Locals]
  BY DEF ShapeInv, TypeOK, Locals
<1>2. stored[loc[h].path] # NoKey => loc[h].path = "base"
  BY <1>1 DEF KeyInv, Paths
<1>3. Keyed(h) => loc[h].key = stored["base"]
  BY DEF CleanInv
<1>4. CASE Probe(h) \/ Resolve(h) \/ Stop(h) \/ TearingCrash(h)
  BY <1>4, Probed, Resolved, Ended DEF Keyed
<1>5. CASE DestinationKey(h) \/ CanonicalKey(h)
  BY <1>2, <1>5, DestinationFound, CanonicalFound DEF Keyed
<1>6. CASE ReadDestination(h) \/ AppendMissing(h) \/ VerifyMigration(h) \/ Load(h) \/ Listen(h) \/ Commit(h)
  BY <1>3, <1>6, DestinationCompared, MigrationAppended, MigrationVerified, Loaded, Listened, CommandDone DEF Keyed
<1>7. CASE Open(h) \/ Create(h)
  BY <1>1, <1>3, <1>7, Opened, Created DEF Keyed, Locals
<1> QED BY <1>4, <1>5, <1>6, <1>7 DEF HostStep

\* What a host writes, it writes under its key.
LEMMA WrittenUnderKey ==
  ASSUME ShapeInv, KeyInv, CleanInv, Clean, NEW h \in Hosts, HostStep(h), stored' = stored, ~TearingCrash(h),
         NEW p \in Paths
  PROVE  UnderKey(file[p])'
<1>1. /\ UnderKey(file[p]) /\ file[p] \in Ledger /\ (file[p].fmt = "none" => file[p] = NoFile)
      /\ \A i \in 1 .. Len(file[p].recs) : file[p].recs[i] # Torn
      /\ Keyed(h) => loc[h].key = stored["base"]
      /\ file \in [Paths -> Ledger]
  BY UnderKeyWhole DEF CleanInv, ShapeInv, TypeOK, FormatInv
<1>2. ASSUME NEW r \in Line, NEW g, r.key = stored["base"], Len(file[p].recs) \in Nat,
             g = file[p] \/ Adds(file[p], g, r),
             g.fmt = "sqlite" => file[p].fmt = "sqlite" /\ g.key = file[p].key
      PROVE  UnderKey(g)
  <2>1. Adds(file[p], g, r) => \A i \in 1 .. Len(g.recs) : i \in 1 .. Len(file[p].recs) \/ i = Len(file[p].recs) + 1
    BY <1>2 DEF Adds
  <2> QED BY <1>1, <1>2, <2>1 DEF Adds, UnderKey
<1>3. Len(file[p].recs) \in Nat
  BY <1>1, EventsType
<1>4. CASE AppendMissing(h)
  <2>1. CASE p # loc[h].path
    BY <1>1, <1>4, <2>1, MigrationWrites DEF UnderKey
  <2>2. CASE p = loc[h].path
    <3>1. PICK r \in Line : r = Moved(h)
      BY <1>4, MigrationWrites
    <3>2. PICK g : g = file'[p]
      OBVIOUS
    <3>3. \/ file[p].fmt = "sqlite" /\ g = InsertRow(file[p], r)
          \/ g = AppendLine(file[p], r)
      BY <1>4, <2>2, <3>1, <3>2, MigrationWrites
    <3>4. r.key = stored["base"]
      BY <1>1, <1>4, <3>1 DEF Moved, AppendMissing, Keyed
    <3>5. /\ g = file[p] \/ Adds(file[p], g, r)
          /\ g.fmt = "sqlite" => file[p].fmt = "sqlite" /\ g.key = file[p].key
      BY <1>1, <3>3, LineWritten
    <3>6. UnderKey(g)
      BY <1>2, <1>3, <3>4, <3>5
    <3> QED BY <3>2, <3>6 DEF UnderKey
  <2> QED BY <2>1, <2>2
<1>5. CASE Commit(h)
  <2>1. CASE p # loc[h].path
    BY <1>1, <1>5, <2>1, CommandWrites DEF UnderKey
  <2>2. CASE p = loc[h].path
    <3>1. PICK r \in Line : r = Committed(h)
      BY <1>5, CommandWrites
    <3>2. PICK g : g = file'[p]
      OBVIOUS
    <3>3. \/ file[p].fmt = "sqlite" /\ g = InsertRow(file[p], r)
          \/ g = AppendLine(file[p], r)
      BY <1>5, <2>2, <3>1, <3>2, CommandWrites
    <3>4. r.key = stored["base"]
      BY <1>1, <1>5, <3>1 DEF Committed, Commit, Keyed
    <3>5. /\ g = file[p] \/ Adds(file[p], g, r)
          /\ g.fmt = "sqlite" => file[p].fmt = "sqlite" /\ g.key = file[p].key
      BY <1>1, <3>3, LineWritten
    <3>6. UnderKey(g)
      BY <1>2, <1>3, <3>4, <3>5
    <3> QED BY <3>2, <3>6 DEF UnderKey
  <2> QED BY <2>1, <2>2
<1>6. CASE Create(h)
  <2>1. pc[h] = "create"
    BY <1>6, Created
  <2>2. CASE file' = file
    BY <1>1, <2>2 DEF UnderKey
  <2>3. CASE file' = [file EXCEPT !["base"] = [fmt |-> "sqlite", key |-> loc[h].key, recs |-> <<>>]]
    <3>1. loc[h].key = stored["base"] /\ Len(<<>>) = 0
      BY <1>1, <2>1, EmptySeq DEF Keyed
    <3> QED BY <1>1, <2>3, <3>1 DEF UnderKey
  <2> QED BY <1>6, <2>2, <2>3, Created
<1>7. CASE ~(AppendMissing(h) \/ Commit(h) \/ Create(h))
  <2>1. file' = file
    BY <1>7 DEF HostStep, Probe, Resolve, GenerateKey, DestinationKey, ReadDestination, VerifyMigration,
                CanonicalKey, Open, Load, Listen, Stop, disk
  <2> QED BY <1>1, <2>1 DEF UnderKey
<1> QED BY <1>4, <1>5, <1>6, <1>7

\* An answered event is in the ledger its broker writes.
LEMMA CommandRecorded ==
  ASSUME ShapeInv, KeyInv, CleanInv, Clean, NEW h \in Hosts, Commit(h), NEW e, e = <<Len(mem[h]) + 1, h>>
  PROVE  Recorded(e)'
<1> DEFINE p == loc[h].path
<1>1. /\ p \in Paths /\ UnderKey(file[p]) /\ file[p] \in Ledger /\ (file[p].fmt = "none" => file[p] = NoFile)
      /\ \A i \in 1 .. Len(file[p].recs) : file[p].recs[i] # Torn
  BY CommandWrites, UnderKeyWhole DEF CleanInv, ShapeInv, TypeOK, FormatInv
<1>2. PICK r \in Line : r = Committed(h)
  BY CommandWrites
<1>3. PICK g : g = file'[p]
  OBVIOUS
<1>4. \/ file[p].fmt = "sqlite" /\ g = InsertRow(file[p], r)
      \/ file[p].fmt # "sqlite" /\ g = AppendLine(file[p], r)
  BY <1>2, <1>3, CommandWrites
<1>5. \E i \in 1 .. Len(g.recs) : g.recs[i] = r
  BY <1>1, <1>4, LineWritten
<1>6. r.ev = e
  BY <1>2 DEF Committed
<1> QED BY <1>1, <1>3, <1>5, <1>6 DEF Recorded

LEMMA CleanInvariant == Spec => [](ShapeInv /\ KeyInv /\ CleanInv)
<1>1. Init => CleanInv
  <2> SUFFICES ASSUME Init PROVE CleanInv
    OBVIOUS
  <2>1. \A p \in Paths : UnderKey(file[p])
    <3>1. \A p \in Paths : file[p] = NoFile
      BY DEF Init
    <3> QED BY <3>1, EmptySeq DEF UnderKey, NoFile
  <2> QED BY <2>1 DEF Init, CleanInv, Keyed
<1>2. ASSUME ShapeInv, KeyInv, CleanInv, NEW h \in Hosts, HostStep(h) PROVE CleanInv'
  <2> SUFFICES ASSUME Clean'
               PROVE  /\ \A p \in Paths : UnderKey(file[p])'
                      /\ \A x \in Hosts : Keyed(x)' => loc'[x].key = stored'["base"]
                      /\ \A e \in acked' : Recorded(e)'
    BY DEF CleanInv
  <2>1. HostChanges(h) /\ FilesChange /\ Clean /\ ~TearingCrash(h)
    BY <1>2, StepChanges, CleanBefore
  <2>2. /\ \A p \in Paths : UnderKey(file[p])
        /\ \A x \in Hosts : Keyed(x) => loc[x].key = stored["base"]
        /\ \A e \in acked : Recorded(e)
    BY <1>2, <2>1 DEF CleanInv
  <2>3. \A e \in acked : Recorded(e)'
    BY <1>2, <2>1, <2>2, StillRecorded
  <2>4. \A x \in Hosts \ {h} : Keyed(x)' = Keyed(x) /\ loc'[x] = loc[x]
    BY <2>1 DEF HostChanges, Keyed
  <2>5. CASE stored' = stored /\ ~GenerateKey(h)
    <3>1. \A p \in Paths : UnderKey(file[p])'
      BY <1>2, <2>1, <2>5, WrittenUnderKey
    <3>2. \A x \in Hosts : Keyed(x)' => loc'[x].key = stored'["base"]
      BY <1>2, <2>1, <2>2, <2>4, <2>5, KeyIsStored
    <3>3. CASE Commit(h)
      <4>1. PICK e : e = <<Len(mem[h]) + 1, h>>
        OBVIOUS
      <4>2. acked' = acked \cup {e} /\ Recorded(e)'
        BY <1>2, <2>1, <3>3, <4>1, CommandDone, CommandRecorded
      <4> QED BY <2>3, <3>1, <3>2, <4>2
    <3>4. CASE ~Commit(h)
      <4>1. acked' = acked
        BY <1>2, <2>1, <2>5, <3>4 DEF HostStep, Probe, Resolve, DestinationKey, ReadDestination, AppendMissing,
             VerifyMigration, CanonicalKey, Open, Create, Load, Listen, Stop, hist
      <4> QED BY <2>3, <3>1, <3>2, <4>1
    <3> QED BY <3>3, <3>4
  <2>6. CASE GenerateKey(h)
    <3>1. UNCHANGED <<file, acked>>
      BY <2>6 DEF GenerateKey
    <3>2. CASE stored' = [stored EXCEPT !["base"] = h] /\ stored["base"] = NoKey /\ loc'[h].key = h
      <4>1. (\A p \in Paths : file[p] = NoFile) /\ \A x \in Hosts : ~Keyed(x)
        BY <1>2, <3>2 DEF KeyInv, Exists
      <4>2. \A p \in Paths : UnderKey(file[p])'
        <5>1. \A p \in Paths : file'[p] = NoFile
          BY <3>1, <4>1
        <5> QED BY <5>1, EmptySeq DEF UnderKey, NoFile
      <4>3. stored'["base"] = h
        BY <1>2, <3>2 DEF ShapeInv, TypeOK, Paths
      <4> QED BY <2>3, <2>4, <3>1, <3>2, <4>1, <4>2, <4>3
    <3>3. CASE pc'[h] = "failed" /\ stored' = stored
      BY <2>2, <2>3, <2>4, <3>1, <3>3 DEF UnderKey, Keyed
    <3>4. (pc'[h] = "failed" /\ stored' = stored) \/ <3>2!1
      BY <1>2, <2>1, <2>6, Generated DEF Clean
    <3> QED BY <3>2, <3>3, <3>4
  <2> QED BY <1>2, <2>5, <2>6, KeyStoreKept
<1>3. ASSUME CleanInv, UNCHANGED vars PROVE CleanInv'
  BY <1>3 DEF CleanInv, Clean, UnderKey, Recorded, Keyed, vars, disk, hist, bounds
<1>4. ShapeInv /\ KeyInv /\ CleanInv /\ [Next]_vars => CleanInv'
  BY <1>2, <1>3 DEF Next
<1> QED BY <1>1, <1>4, KeyInvariant, PTL DEF Spec

\* An event whose command was answered stays readable with the stored key, whatever
\* stops, crashes, starts and migrates, while that key is not replaced and no crash
\* tears a line.
THEOREM AckedStaysReadable == Spec => []AckedReadable
<1>1. ShapeInv /\ CleanInv => AckedReadable
  <2> SUFFICES ASSUME ShapeInv, CleanInv, Clean, NEW e \in acked
               PROVE  \E p \in Paths : Readable(file[p], stored["base"]) /\ e \in Range(EventsOf(file[p]))
    BY DEF AckedReadable, Clean
  <2>1. Recorded(e) /\ \A p \in Paths : UnderKey(file[p])
    BY DEF CleanInv
  <2>2. PICK p \in Paths : \E i \in 1 .. Len(file[p].recs) : file[p].recs[i].ev = e
    BY <2>1 DEF Recorded
  <2>3. PICK i \in 1 .. Len(file[p].recs) : file[p].recs[i].ev = e
    BY <2>2
  <2>4. file[p] \in Ledger /\ DOMAIN file[p].recs = 1 .. Len(file[p].recs)
    BY LenProperties DEF ShapeInv, TypeOK, Ledger
  <2>5. Readable(file[p], stored["base"])
    BY <2>1, <2>4 DEF Readable, UnderKey
  <2>6. i \in DOMAIN EventsOf(file[p]) /\ EventsOf(file[p])[i] = e
    BY <2>3, <2>4 DEF EventsOf
  <2> QED BY <2>5, <2>6 DEF Range
<1> QED BY <1>1, CleanInvariant, PTL

-----------------------------------------------------------------------------
(* A migration that was cut short                                            *)

\* Where a migration is, while nobody else wrote and no line was torn: the ledger
\* has the beginning of the older history, and what is left is the rest of it.
Appending(h) == pc[h] \in {"append", "verify"} \/ (pc[h] = "genkey" /\ loc[h].ret = "append")
Undisturbed == ~raced /\ tears = 0
Halfway(f, l) ==
  /\ f.fmt = "sqlite" => l.sqlite
  /\ Len(f.recs) + Len(l.left) = Len(l.src)
  /\ \A i \in 1 .. Len(f.recs) : f.recs[i].ev = l.src[i]
  /\ \A i \in 1 .. Len(l.left) : l.left[i] = l.src[Len(f.recs) + i]
Agree(recs, s) == \A i \in 1 .. Len(s) : i <= Len(recs) => recs[i].ev = s[i]
\* Nobody has found, or made, a history that this host's cannot go with.
Migrated(h) == /\ \A x \in Hosts \ Standalone : Comparable(History(x), History(h))
               /\ \A e \in acked : e[2] \notin Standalone /\ IsPrefix(History(h), History(e[2]))
ResumeInv == Undisturbed =>
  /\ \A h \in Hosts : Appending(h) => Halfway(file[loc[h].path], loc[h])
  /\ \A h \in Hosts \ Standalone : Migrated(h) => \A p \in Paths : Agree(file[p].recs, History(h))

\* A step that leaves a migration undisturbed.
LEMMA UndisturbedBefore ==
  ASSUME ShapeInv, NEW h \in Hosts, HostStep(h), Undisturbed'
  PROVE  /\ Undisturbed /\ ~TearingCrash(h)
         /\ file' = file \/ \A x \in Hosts \ {h} : ~InMigration(x)
         /\ file' = file \/ AppendMissing(h) \/ Commit(h) \/ Create(h)
         /\ acked' = acked \/ Commit(h)
<1>1. tears \in Nat
  BY DEF ShapeInv, TypeOK
<1>2. ~TearingCrash(h)
  BY <1>1 DEF TearingCrash, Undisturbed
<1>3. tears' = tears
  BY <1>2 DEF HostStep, Probe, Resolve, GenerateKey, DestinationKey, ReadDestination, AppendMissing, VerifyMigration,
              CanonicalKey, Open, Create, Load, Listen, Commit, Stop, bounds
<1>4. file' = file \/ AppendMissing(h) \/ Commit(h) \/ Create(h)
  BY <1>2 DEF HostStep, Probe, Resolve, GenerateKey, DestinationKey, ReadDestination, VerifyMigration,
              CanonicalKey, Open, Load, Listen, Stop, disk
<1>5. acked' = acked \/ Commit(h)
  BY <1>2 DEF HostStep, Probe, Resolve, GenerateKey, DestinationKey, ReadDestination, AppendMissing, VerifyMigration,
              CanonicalKey, Open, Create, Load, Listen, Stop, hist
<1>6. raced' = raced \/ Writes(h)
  BY <1>2 DEF HostStep, Probe, Resolve, GenerateKey, DestinationKey, ReadDestination, AppendMissing, VerifyMigration,
              CanonicalKey, Open, Create, Load, Listen, Commit, Stop, hist
<1>7. file' = file \/ Writes(h)
  BY <1>2, <1>4 DEF AppendMissing, Create, Commit
<1>8. ~raced /\ (Writes(h) => \A x \in Hosts \ {h} : ~InMigration(x))
  <2>1. raced' = FALSE /\ raced \in BOOLEAN /\ raced' \in BOOLEAN
    BY StepCounts DEF Undisturbed, ShapeInv, TypeOK
  <2>2. Writes(h) => ~raced /\ \A x \in Hosts \ {h} : ~InMigration(x)
    BY <2>1, Zenon DEF Writes
  <2>3. raced' = raced => ~raced
    BY <2>1
  <2> QED BY <1>6, <2>2, <2>3
<1> QED BY <1>2, <1>3, <1>4, <1>5, <1>7, <1>8 DEF Undisturbed

\* An empty destination: all of the history is left.
LEMMA NothingYet ==
  ASSUME NEW l, l.src \in Seq(Past), l.left = l.src
  PROVE  Halfway(NoFile, l)
<1>1. Len(NoFile.recs) = 0 /\ NoFile.fmt = "none" /\ Len(l.src) \in Nat
  BY EmptySeq, LenProperties DEF NoFile
<1> QED BY <1>1 DEF Halfway

\* A destination that is a beginning of the history: the rest is left.
LEMMA RestIsLeft ==
  ASSUME NEW f \in Ledger, NEW l, l.src \in Seq(Past), Comparable(EventsOf(f), l.src),
         Len(EventsOf(f)) < Len(l.src), l.left = Missing(l.src, EventsOf(f)), f.fmt = "sqlite" => l.sqlite
  PROVE  Halfway(f, l)
<1>1. Len(f.recs) \in Nat /\ Len(l.src) \in Nat
  BY EventsType, LenProperties
<1>2. PICK n \in Nat, m \in Nat : n = Len(f.recs) /\ m = Len(l.src)
  BY <1>1
<1>3. /\ EventsOf(f) \in Seq(Event) /\ Len(EventsOf(f)) = n /\ n < m
      /\ \A i \in 1 .. n : EventsOf(f)[i] = f.recs[i].ev
      /\ l.src \in Seq(Event)
  BY <1>2, PastEvents, EventsType
<1>4. \A i \in 1 .. n : EventsOf(f)[i] = l.src[i]
  <2>1. CASE IsPrefix(EventsOf(f), l.src)
    BY <1>3, <1>2, <2>1, PrefixPoints
  <2>2. CASE IsPrefix(l.src, EventsOf(f))
    BY <1>3, <1>2, <2>2, PrefixPoints
  <2> QED BY <2>1, <2>2 DEF Comparable
<1>5. Len(l.left) = m - n /\ \A i \in 1 .. m - n : l.left[i] = l.src[n + i]
  <2>1. n + 1 \in Int /\ m \in Int /\ \A i \in n + 1 .. m : l.src[i] \in Past
    BY <1>2, ElementOfSeq
  <2>2. l.left = SubSeq(l.src, n + 1, m)
    BY <1>3, <1>2 DEF Missing
  <2>3. Len(l.left) = IF n + 1 <= m THEN m - (n + 1) + 1 ELSE 0
    BY <2>1, <2>2, SubSeqProperties
  <2>4. Len(l.left) = m - n
    BY <1>3, <2>3
  <2>5. \A i \in 1 .. m - (n + 1) + 1 : l.left[i] = l.src[(n + 1) + i - 1]
    BY <2>1, <2>2, SubSeqProperties
  <2>6. \A i \in 1 .. m - n : (n + 1) + i - 1 = n + i
    BY <1>3
  <2>7. m - (n + 1) + 1 = m - n
    BY <1>3
  <2> QED BY <2>4, <2>5, <2>6, <2>7
<1>6. n + (m - n) = m
  OBVIOUS
<1> QED BY <1>3, <1>4, <1>5, <1>2, <1>6 DEF Halfway

\* One event more, one less left.
LEMMA OneFurther ==
  ASSUME NEW f \in Ledger, NEW g \in Ledger, NEW r \in Line, NEW l, NEW k, Halfway(f, l), Adds(f, g, r),
         l.left \in Seq(Past), l.left # <<>>, l.src \in Seq(Past), r.ev = Head(l.left),
         k.left = Tail(l.left), k.src = l.src, k.sqlite = l.sqlite, g.fmt = "sqlite" => k.sqlite
  PROVE  Halfway(g, k)
<1>1. Len(f.recs) \in Nat /\ Len(l.left) \in Nat /\ Len(l.src) \in Nat
  BY EventsType, LenProperties
<1>2. PICK n \in Nat, c \in Nat : n = Len(f.recs) /\ c = Len(l.left)
  BY <1>1
<1>3. Len(g.recs) = n + 1 /\ g.recs[n + 1] = r /\ \A i \in 1 .. n : g.recs[i] = f.recs[i]
  BY <1>2 DEF Adds
<1>4. /\ n + c = Len(l.src) /\ \A i \in 1 .. n : f.recs[i].ev = l.src[i]
      /\ \A i \in 1 .. c : l.left[i] = l.src[n + i]
  BY <1>2 DEF Halfway
<1>5. /\ c > 0 /\ Head(l.left) = l.left[1] /\ Len(k.left) = c - 1
      /\ \A i \in 1 .. c - 1 : k.left[i] = l.left[i + 1]
  BY <1>2, EmptySeq, HeadTailProperties
<1>6. g.recs[n + 1].ev = l.src[n + 1]
  BY <1>3, <1>4, <1>5
<1>7. \A i \in 1 .. n + 1 : g.recs[i].ev = k.src[i]
  <2>1. \A i \in 1 .. n + 1 : i \in 1 .. n \/ i = n + 1
    OBVIOUS
  <2> QED BY <1>3, <1>4, <1>6, <2>1
<1>8. \A i \in 1 .. c - 1 : k.left[i] = k.src[(n + 1) + i]
  <2> SUFFICES ASSUME NEW i \in 1 .. c - 1 PROVE l.left[i + 1] = l.src[(n + 1) + i]
    BY <1>5
  <2>1. i + 1 \in 1 .. c /\ n + (i + 1) = (n + 1) + i
    BY <1>5
  <2> QED BY <1>4, <2>1
<1>9. (n + 1) + (c - 1) = n + c
  OBVIOUS
<1> QED BY <1>3, <1>4, <1>5, <1>7, <1>8, <1>9, ZenonT(30) DEF Halfway

\* The line a migration writes next is new, and follows what the ledger has.
LEMMA NextIsNew ==
  ASSUME ShapeInv, NEW h \in Hosts, PhaseOK(h), AppendMissing(h), Halfway(file[loc[h].path], loc[h])
  PROVE  LET p == loc[h].path IN
         /\ Adds(file[p], file'[p], Moved(h)) /\ loc[h].src = History(h)
         /\ file'[p].fmt = "sqlite" => loc[h].sqlite
<1>1. PICK p \in Paths : p = loc[h].path
  BY MigrationWrites
<1>2. PICK f \in Ledger : f = file[p]
  BY <1>1 DEF ShapeInv, TypeOK
<1>3. PICK r \in Line : r = Moved(h)
  BY MigrationWrites
<1>4. PICK src : src = loc[h].src
  OBVIOUS
<1>5. src = History(h) /\ src \in Seq(Past) /\ IsInjective(src)
  BY <1>4, HistoryType DEF PhaseOK, InMigration, AppendMissing, ShapeInv
<1>6. /\ loc[h].left \in Seq(Past) /\ loc[h].left # <<>> /\ r.ev = Head(loc[h].left)
      /\ Len(f.recs) \in Nat /\ Len(src) \in Nat /\ Len(loc[h].left) \in Nat
  BY <1>3, <1>5, MigrationAppended, EventsType, LenProperties DEF Moved
<1>7. PICK n \in Nat : n = Len(f.recs)
  BY <1>6
<1>8. Len(loc[h].left) > 0 /\ r.ev = loc[h].left[1]
  BY <1>6, EmptySeq, LenProperties
<1>9. /\ n + 1 \in 1 .. Len(src) /\ r.ev = src[n + 1]
      /\ \A i \in 1 .. n : f.recs[i].ev = src[i] /\ i \in 1 .. Len(src) /\ i # n + 1
      /\ f.fmt = "sqlite" => loc[h].sqlite
  <2>1. PICK c \in Nat, m \in Nat : c = Len(loc[h].left) /\ m = Len(src)
    BY <1>6
  <2>2. /\ n + c = m /\ \A i \in 1 .. n : f.recs[i].ev = src[i]
        /\ \A i \in 1 .. c : loc[h].left[i] = src[n + i]
        /\ f.fmt = "sqlite" => loc[h].sqlite
    BY <1>1, <1>2, <1>4, <1>7, <2>1 DEF Halfway
  <2>3. 1 \in 1 .. c
    BY <1>8, <2>1
  <2>4. r.ev = src[n + 1]
    BY <1>8, <2>2, <2>3
  <2>5. n + 1 \in 1 .. m /\ \A i \in 1 .. n : i \in 1 .. m /\ i # n + 1
    BY <2>2, <2>3
  <2> QED BY <2>1, <2>2, <2>4, <2>5
<1>10. \A i \in 1 .. n : f.recs[i] # r /\ f.recs[i] # Torn
  <2> SUFFICES ASSUME NEW i \in 1 .. n PROVE f.recs[i].ev # r.ev /\ f.recs[i].ev # Torn.ev
    OBVIOUS
  <2>1. src[i] # src[n + 1]
    <3>1. DOMAIN src = 1 .. Len(src)
      BY <1>5, LenProperties
    <3> QED BY <1>5, <1>9, <3>1 DEF IsInjective
  <2>2. src[i] \in Past
    BY <1>5, <1>9, ElementOfSeq
  <2> QED BY <1>9, <2>1, <2>2, LedgerAssumption
<1>11. f.fmt = "none" => f = NoFile
  BY <1>2 DEF ShapeInv, FormatInv
<1>12. CASE loc[h].sqlite
  <2>1. f.fmt = "sqlite" /\ file'[p] = InsertRow(f, r)
    BY <1>1, <1>2, <1>3, <1>12, MigrationWrites
  <2>2. Adds(f, file'[p], r)
    BY <1>7, <1>10, <2>1, RowInserted
  <2> QED BY <1>1, <1>2, <1>3, <1>4, <1>5, <1>12, <2>2
<1>13. CASE ~loc[h].sqlite
  <2>1. f.fmt # "sqlite" /\ file'[p] = AppendLine(f, r)
    BY <1>1, <1>2, <1>3, <1>9, <1>13, MigrationWrites
  <2>2. Adds(f, file'[p], r) /\ file'[p].fmt = "jsonl"
    BY <1>7, <1>10, <1>11, <2>1, LineAppended
  <2> QED BY <1>1, <1>2, <1>3, <1>4, <1>5, <2>2
<1> QED BY <1>12, <1>13

\* While nothing disturbs it, a migration's host keeps track of its ledger.
LEMMA ResumeOwn ==
  ASSUME ShapeInv, PhaseInv, NEW h \in Hosts, HostStep(h), Appending(h) => Halfway(file[loc[h].path], loc[h]),
         Appending(h)', ~TearingCrash(h)
  PROVE  Halfway(file'[loc'[h].path], loc'[h])
<1>1. /\ loc[h] \in Locals /\ loc[h].path \in Paths /\ loc[h].src \in Seq(Past) /\ file \in [Paths -> Ledger]
      /\ loc'[h] \in Locals /\ FilesChange /\ PhaseOK(h)
  BY StepChanges DEF ShapeInv, TypeOK, Locals, HostChanges, PhaseInv
<1>2. PICK k : k = loc'[h]
  OBVIOUS
<1>3. CASE Probe(h) \/ Resolve(h) \/ Stop(h)
  BY <1>3, Probed, Resolved, Ended DEF Appending
<1>4. CASE CanonicalKey(h) \/ Open(h) \/ Create(h) \/ Load(h) \/ Listen(h) \/ Commit(h)
  BY <1>4, CanonicalFound, Opened, Created, Loaded, Listened, CommandDone DEF Appending
<1>5. CASE GenerateKey(h)
  <2>1. file' = file
    BY <1>5 DEF GenerateKey
  <2>2. Appending(h) /\ SamePlan(h) /\ loc'[h].left = loc[h].left
    BY <1>1, <1>5, Generated DEF Appending, PhaseOK
  <2> QED BY <2>1, <2>2, ZenonT(90) DEF Halfway, SamePlan
<1>6. CASE DestinationKey(h)
  <2>1. file' = file
    BY <1>6 DEF DestinationKey, disk
  <2>2. ~Exists(loc[h].path) /\ k.left = loc[h].src /\ k.path = loc[h].path /\ k.src = loc[h].src
    BY <1>2, <1>6, DestinationFound DEF Appending, SamePlan
  <2>3. Halfway(NoFile, k)
    BY <1>1, <2>2, NothingYet
  <2> QED BY <1>2, <2>1, <2>2, <2>3 DEF Exists
<1>7. CASE ReadDestination(h)
  <2>1. file' = file
    BY <1>7 DEF ReadDestination, disk
  <2>2. PICK f \in Ledger : f = file[loc[h].path]
    BY <1>1
  <2>3. /\ k.path = loc[h].path /\ k.src = loc[h].src /\ Comparable(EventsOf(f), k.src)
        /\ Len(EventsOf(f)) < Len(k.src) /\ k.left = Missing(k.src, EventsOf(f))
        /\ f.fmt = "sqlite" => k.sqlite
    BY <1>2, <1>7, <2>2, DestinationCompared DEF Appending
  <2>4. Halfway(f, k)
    BY <1>1, <2>3, RestIsLeft
  <2> QED BY <1>2, <2>1, <2>2, <2>3, <2>4
<1>8. CASE AppendMissing(h)
  <2>1. PICK f \in Ledger, g \in Ledger : f = file[loc[h].path] /\ g = file'[loc[h].path]
    BY <1>1 DEF FilesChange
  <2>2. PICK r \in Line : r = Moved(h)
    BY <1>8, MigrationWrites
  <2>3. PICK l : l = loc[h]
    OBVIOUS
  <2>4. Halfway(f, l)
    BY <1>8, <2>1, <2>3 DEF Appending, AppendMissing
  <2>5. Adds(f, g, r) /\ (g.fmt = "sqlite" => k.sqlite)
    BY <1>1, <1>2, <1>8, <2>1, <2>2, <2>3, <2>4, NextIsNew, MigrationAppended DEF SamePlan
  <2>6. /\ l.left \in Seq(Past) /\ l.left # <<>> /\ l.src \in Seq(Past) /\ r.ev = Head(l.left)
        /\ k.left = Tail(l.left) /\ k.src = l.src /\ k.sqlite = l.sqlite /\ k.path = l.path
    BY <1>1, <1>2, <1>8, <2>2, <2>3, MigrationAppended DEF SamePlan, Moved
  <2>7. Halfway(g, k)
    BY <2>4, <2>5, <2>6, OneFurther
  <2> QED BY <1>2, <2>1, <2>3, <2>6, <2>7
<1>9. CASE VerifyMigration(h)
  BY <1>9, MigrationVerified DEF Appending
<1> QED BY <1>3, <1>4, <1>5, <1>6, <1>7, <1>8, <1>9 DEF HostStep

\* A ledger that begins with a history agrees with it.
LEMMA BeginsAgrees ==
  ASSUME NEW f \in Ledger, NEW s \in Seq(Past), Begins(s, f.recs)
  PROVE  Agree(f.recs, s)
  BY DEF Begins, Agree

\* While nothing disturbs them, the ledgers keep agreeing with a host's older history.
LEMMA AgreeStep ==
  ASSUME ShapeInv, PhaseInv, NEW h \in Hosts, HostStep(h), ~TearingCrash(h),
         NEW x \in Hosts \ Standalone, Migrated(x)',
         Appending(h) => Halfway(file[loc[h].path], loc[h]),
         \A p \in Paths : Agree(file[p].recs, History(x)),
         file' = file \/ AppendMissing(h) \/ Commit(h) \/ Create(h),
         NEW p \in Paths
  PROVE  Agree(file'[p].recs, History(x))
<1>1. /\ History(x) \in Seq(Past) /\ Len(History(x)) \in Nat
      /\ History(h) \in Seq(Past) /\ Len(History(h)) \in Nat
      /\ file \in [Paths -> Ledger] /\ file' \in [Paths -> Ledger]
      /\ FilesChange /\ PhaseOK(h) /\ loc[h].path \in Paths /\ \A y \in Hosts : History(y)' = History(y)
  BY StepChanges, HistoryType, HistoriesKept, LenProperties DEF ShapeInv, TypeOK, FilesChange, PhaseInv, Locals, HostChanges
<1>2. CASE file'[p] = file[p]
  BY <1>2
<1>3. CASE AppendMissing(h) /\ file'[p] # file[p]
  <2>1. p = loc[h].path
    BY <1>3, MigrationWrites
  <2>2. PICK f \in Ledger, g \in Ledger : f = file[p] /\ g = file'[p]
    BY <1>1
  <2>3. PICK r \in Line : r = Moved(h)
    BY <1>3, MigrationWrites
  <2>4. PICK l : l = loc[h]
    OBVIOUS
  <2>5. Halfway(f, l)
    BY <1>3, <2>1, <2>2, <2>4 DEF Appending, AppendMissing
  <2>6. Adds(f, g, r) /\ l.src = History(h)
    BY <1>1, <1>3, <2>1, <2>2, <2>3, <2>4, <2>5, NextIsNew
  <2>7. PICK n \in Nat : n = Len(f.recs)
    BY EventsType
  <2>8. r.ev = l.left[1] /\ 1 \in 1 .. Len(l.left) /\ Len(l.left) \in Nat
    BY <1>3, <2>3, <2>4, MigrationAppended, EmptySeq, LenProperties DEF Moved
  <2>9. r.ev = History(h)[n + 1] /\ \A i \in 1 .. n : f.recs[i].ev = History(h)[i]
    BY <2>5, <2>6, <2>7, <2>8 DEF Halfway
  <2>13. n + 1 <= Len(History(h))
    <3>1. n + Len(l.left) = Len(History(h))
      <4>1. Len(f.recs) + Len(l.left) = Len(l.src)
        BY <2>5 DEF Halfway
      <4> QED BY <2>6, <2>7, <4>1
    <3>2. PICK k \in Nat : k = Len(l.left)
      BY <2>8
    <3>3. 1 <= k
      BY <2>8, <3>2
    <3> QED BY <1>1, <3>1, <3>2, <3>3
  <2>10. Len(g.recs) = n + 1 /\ g.recs[n + 1] = r /\ \A i \in 1 .. n : g.recs[i] = f.recs[i]
    BY <2>6, <2>7 DEF Adds
  <2>11. \A i \in 1 .. Len(History(x)) : i <= n + 1 => i \in 1 .. n \/ i = n + 1
    BY <1>1
  <2>12. \A i \in 1 .. Len(History(x)) : i <= Len(History(h)) => History(h)[i] = History(x)[i]
    <3>1. h \notin Standalone
      BY <1>1, <1>3 DEF PhaseOK, InMigration, AppendMissing
    <3>2. Comparable(History(h), History(x))
      BY <1>1, <3>1 DEF Migrated
    <3> QED BY <1>1, <3>2, PrefixPoints DEF Comparable
  <2>14. ASSUME NEW i \in 1 .. Len(History(x)), i <= n + 1
         PROVE  g.recs[i].ev = History(x)[i]
    <3>1. i \in Nat /\ i <= Len(History(h)) /\ History(h)[i] = History(x)[i]
      BY <1>1, <2>12, <2>13, <2>14
    <3>2. CASE i = n + 1
      BY <2>9, <2>10, <3>1, <3>2
    <3>3. CASE i \in 1 .. n
      BY <2>9, <2>10, <3>1, <3>3
    <3> QED BY <2>11, <2>14, <3>2, <3>3
  <2> QED BY <2>2, <2>10, <2>14 DEF Agree
<1>4. CASE Commit(h) /\ file'[p] # file[p]
  <2>1. p = loc[h].path /\ pc[h] = "serving"
    BY <1>4, CommandWrites, CommandDone
  <2>2. PICK e : e = <<Len(mem[h]) + 1, h>>
    OBVIOUS
  <2>3. e \in acked' /\ e[2] = h
    BY <1>4, <2>2, CommandDone
  <2>4. h \notin Standalone /\ IsPrefix(History(x), History(h))
    BY <1>1, <2>3 DEF Migrated
  <2>5. Begins(History(h), file[p].recs)
    BY <1>1, <2>1, <2>4 DEF PhaseOK, Settled
  <2>6. Begins(History(x), file[p].recs)
    <3>1. Len(History(x)) <= Len(History(h)) /\ \A i \in 1 .. Len(History(x)) : History(x)[i] = History(h)[i]
      BY <1>1, <2>4, PrefixPoints
    <3>2. Len(file[p].recs) \in Nat
      BY <1>1, EventsType
    <3> QED BY <1>1, <2>5, <3>1, <3>2 DEF Begins
  <2>7. Begins(History(x), file'[p].recs)
    BY <1>1, <2>6, BeginningKept DEF FilesChange
  <2> QED BY <1>1, <2>7, BeginsAgrees
<1>5. CASE Create(h) /\ file'[p] # file[p]
  <2>1. file' = [file EXCEPT !["base"] = [fmt |-> "sqlite", key |-> loc[h].key, recs |-> <<>>]]
    BY <1>5, Created
  <2>2. file'[p].recs = <<>>
    BY <1>1, <1>5, <2>1
  <2> QED BY <1>1, <2>2, EmptySeq DEF Agree
<1> QED BY <1>2, <1>3, <1>4, <1>5

LEMMA ResumeInvariant == Spec => [](ShapeInv /\ PhaseInv /\ ResumeInv)
<1>1. Init => ResumeInv
  <2> SUFFICES ASSUME Init PROVE ResumeInv
    OBVIOUS
  <2>1. \A p \in Paths : file[p].recs = <<>>
    BY DEF Init, NoFile
  <2>2. \A h \in Hosts \ Standalone, p \in Paths : Agree(file[p].recs, History(h))
    BY <2>1, EmptySeq DEF Agree
  <2>3. \A h \in Hosts : ~Appending(h)
    BY DEF Init, Appending
  <2> QED BY <2>2, <2>3 DEF ResumeInv
<1>2. ASSUME ShapeInv, PhaseInv, ResumeInv, NEW h \in Hosts, HostStep(h) PROVE ResumeInv'
  <2> SUFFICES ASSUME Undisturbed'
               PROVE  /\ \A x \in Hosts : Appending(x)' => Halfway(file'[loc'[x].path], loc'[x])
                      /\ \A x \in Hosts \ Standalone : Migrated(x)' => \A p \in Paths : Agree(file'[p].recs, History(x)')
    BY DEF ResumeInv
  <2>1. /\ Undisturbed /\ ~TearingCrash(h) /\ HostChanges(h) /\ (\A x \in Hosts : History(x)' = History(x))
        /\ file' = file \/ \A x \in Hosts \ {h} : ~InMigration(x)
        /\ file' = file \/ AppendMissing(h) \/ Commit(h) \/ Create(h)
        /\ acked \subseteq acked'
    BY <1>2, UndisturbedBefore, StepChanges, CommandDone, HistoriesKept DEF HostChanges
  <2>2. /\ \A x \in Hosts : Appending(x) => Halfway(file[loc[x].path], loc[x])
        /\ \A x \in Hosts \ Standalone : Migrated(x) => \A p \in Paths : Agree(file[p].recs, History(x))
    BY <1>2, <2>1 DEF ResumeInv
  <2>3. ASSUME NEW x \in Hosts, Appending(x)' PROVE Halfway(file'[loc'[x].path], loc'[x])
    <3>1. CASE x = h
      BY <1>2, <2>1, <2>2, <2>3, <3>1, ResumeOwn
    <3>2. CASE x # h
      <4>1. Appending(x) /\ loc'[x] = loc[x] /\ InMigration(x)
        BY <2>1, <2>3, <3>2 DEF HostChanges, Appending, InMigration
      <4> QED BY <2>1, <2>2, <3>2, <4>1
    <3> QED BY <3>1, <3>2
  <2>4. ASSUME NEW x \in Hosts \ Standalone, Migrated(x)'
        PROVE  \A p \in Paths : Agree(file'[p].recs, History(x))
    <3>1. Migrated(x)
      <4>1. \A e \in acked : e \in acked' /\ e[2] \in Hosts
        BY <1>2, <2>1 DEF ShapeInv, TypeOK
      <4> QED BY <2>1, <2>4, <4>1 DEF Migrated
    <3> QED BY <1>2, <2>1, <2>2, <2>4, <3>1, AgreeStep
  <2> QED BY <2>1, <2>3, <2>4
<1>3. ASSUME ResumeInv, UNCHANGED vars PROVE ResumeInv'
  BY <1>3 DEF ResumeInv, Undisturbed, Appending, Migrated, History, Seen, vars, disk, hist, bounds
<1>4. ShapeInv /\ PhaseInv /\ ResumeInv /\ [Next]_vars => ResumeInv'
  BY <1>2, <1>3 DEF Next
<1> QED BY <1>1, <1>4, PhaseInvariant, PTL DEF Spec

\* A migration that was cut short anywhere leaves ledgers that agree with its host's
\* older history, nothing twice and nothing foreign, unless another host wrote
\* meanwhile, a line was torn, or a host that does not find that history has found
\* one that diverges, or has committed to the ledger.
THEOREM MigrationsResume == Spec => []MigrationResumes
<1>1. ShapeInv /\ ResumeInv => MigrationResumes
  <2> SUFFICES ASSUME ShapeInv, ResumeInv, Undisturbed, NEW h \in Hosts \ Standalone, Migrated(h), NEW p \in Paths
               PROVE  Comparable(EventsOf(file[p]), History(h))
    BY DEF MigrationResumes, Undisturbed, Migrated
  <2>1. PICK f \in Ledger : f = file[p]
    BY DEF ShapeInv, TypeOK
  <2>2. PICK s \in Seq(Event) : s = History(h) /\ Len(s) \in Nat
    BY HistoryType, PastEvents, LenProperties DEF ShapeInv
  <2>3. /\ EventsOf(f) \in Seq(Event) /\ Len(EventsOf(f)) = Len(f.recs) /\ Len(f.recs) \in Nat
        /\ \A i \in 1 .. Len(f.recs) : EventsOf(f)[i] = f.recs[i].ev
    BY EventsType
  <2>4. \A i \in 1 .. Len(s) : i <= Len(f.recs) => f.recs[i].ev = s[i]
    BY <2>1, <2>2 DEF ResumeInv, Agree
  <2>5. CASE Len(f.recs) <= Len(s)
    <3>1. IsPrefix(EventsOf(f), s)
      <4>1. \A i \in 1 .. Len(EventsOf(f)) : EventsOf(f)[i] = s[i]
        BY <2>2, <2>3, <2>4, <2>5
      <4> QED BY <2>3, <2>5, <4>1, PrefixPoints
    <3> QED BY <2>1, <2>2, <3>1 DEF Comparable
  <2>6. CASE Len(s) <= Len(f.recs)
    <3>1. IsPrefix(s, EventsOf(f))
      <4>1. \A i \in 1 .. Len(s) : s[i] = EventsOf(f)[i]
        BY <2>2, <2>3, <2>4, <2>6
      <4> QED BY <2>3, <2>6, <4>1, PrefixPoints
    <3> QED BY <2>1, <2>2, <3>1 DEF Comparable
  <2> QED BY <2>2, <2>3, <2>5, <2>6
<1> QED BY <1>1, ResumeInvariant, PTL

-----------------------------------------------------------------------------
(* A start-up that is refused has written nothing                            *)

\* A start-up that has written can read what it has to read from then on.
WroteOK(h) ==
  /\ Unwritten(h) => h \notin wrote
  /\ pc[h] \in {"append", "verify"} /\ loc[h].sqlite => h \in Native
  /\ pc[h] = "verify" => Exists(loc[h].path) /\ loc[h].left = <<>>
  /\ pc[h] = "open" /\ h \in wrote =>
       Exists(loc[h].path) /\ (file[loc[h].path].fmt = "sqlite" => h \in Native)
Calm == ~raced /\ ~rekeyed /\ tears = 0
Closed(h) ==
  pc[h] = "failed" /\ loc[h].why \in {"diverge", "nokey", "corrupt", "verify"} /\ Calm => h \notin wrote
ClosedInv == \A h \in Hosts : WroteOK(h) /\ Closed(h)

\* The older ledgers' formats and what exists do not change under a host.
LEMMA OthersWrote ==
  ASSUME ShapeInv, NEW h \in Hosts, HostStep(h), NEW x \in Hosts \ {h}, WroteOK(x)
  PROVE  WroteOK(x)'
<1>1. /\ pc'[x] = pc[x] /\ loc'[x] = loc[x] /\ (x \in wrote' <=> x \in wrote) /\ Unwritten(x)' = Unwritten(x)
      /\ loc[x].path \in Paths /\ FilesChange
  BY StepChanges DEF HostChanges, Unwritten, ShapeInv, TypeOK, Locals
<1>2. Exists(loc[x].path) => Exists(loc[x].path)'
  BY <1>1, KeyStoreKept DEF Exists
<1>3. Exists(loc[x].path) /\ file'[loc[x].path].fmt = "sqlite" => file[loc[x].path].fmt = "sqlite"
  BY <1>1 DEF FilesChange, Grows, Exists, ShapeInv, FormatInv
<1> QED BY <1>1, <1>2, <1>3 DEF WroteOK, Exists

LEMMA WroteStep ==
  ASSUME ShapeInv, NEW h \in Hosts, HostStep(h), WroteOK(h)
  PROVE  WroteOK(h)'
<1>1. /\ loc[h] \in Locals /\ loc[h].path \in Paths /\ loc[h].ret \in {"off", "append", "open"}
      /\ FilesChange /\ KnownFormat(h) /\ file \in [Paths -> Ledger]
  BY StepChanges DEF ShapeInv, TypeOK, Locals, FormatInv
<1>2. CASE Probe(h)
  BY <1>2, Probed DEF WroteOK, Unwritten
<1>3. CASE Resolve(h)
  <2>1. wrote' = wrote
    BY <1>3 DEF Resolve, hist
  <2> QED BY <1>3, <2>1, Resolved DEF WroteOK, Unwritten
<1>4. CASE GenerateKey(h)
  <2>1. wrote' = wrote
    BY <1>4 DEF GenerateKey
  <2> QED BY <1>1, <1>4, <2>1, Generated DEF WroteOK, Unwritten, SamePlan, KnownFormat
<1>5. CASE DestinationKey(h) \/ CanonicalKey(h)
  <2>1. wrote' = wrote
    BY <1>5 DEF DestinationKey, CanonicalKey, hist
  <2> QED BY <1>1, <1>5, <2>1, DestinationFound, CanonicalFound DEF WroteOK, Unwritten, SamePlan, KnownFormat
<1>6. CASE ReadDestination(h)
  <2>1. wrote' = wrote
    BY <1>6 DEF ReadDestination, hist
  <2> QED BY <1>1, <1>6, <2>1, DestinationCompared DEF WroteOK, Unwritten, CanRead
<1>7. CASE AppendMissing(h)
  <2>1. Len(loc[h].left) = 1 => Tail(loc[h].left) = <<>>
    <3>1. loc[h].left \in Seq(Past) /\ loc[h].left # <<>>
      BY <1>7, MigrationAppended
    <3>2. PICK t \in Seq(Past) : t = Tail(loc[h].left) /\ Len(t) = Len(loc[h].left) - 1
      BY <3>1, HeadTailProperties
    <3>3. Len(loc[h].left) = 1 => Len(t) = 0
      BY <3>2
    <3> QED BY <3>2, <3>3, EmptySeq
  <2>2. file'[loc[h].path].fmt # "none"
    <3>1. PICK f \in Ledger : f = file[loc[h].path]
      BY <1>1
    <3>2. PICK r \in Line : r = Moved(h)
      BY <1>7, MigrationWrites
    <3>3. f.fmt = "none" => f = NoFile
      BY <1>1, <3>1 DEF ShapeInv, FormatInv
    <3> QED BY <1>7, <3>1, <3>2, <3>3, MigrationWrites, LineAppended, RowInserted
  <2>3. Exists(loc[h].path)'
    <3>1. loc'[h].path = loc[h].path
      BY <1>7, MigrationAppended DEF SamePlan
    <3> QED BY <2>2, <3>1 DEF Exists, NoFile
  <2> QED BY <1>7, <2>1, <2>3, MigrationAppended DEF WroteOK, Unwritten, SamePlan
<1>8. CASE VerifyMigration(h)
  <2>1. UNCHANGED <<file, wrote>>
    BY <1>8 DEF VerifyMigration, disk, hist
  <2> QED BY <1>8, <2>1, MigrationVerified DEF WroteOK, Unwritten, Verified, Exists
<1>9. CASE Open(h) \/ Create(h)
  BY <1>9, Opened, Created DEF WroteOK, Unwritten
<1>10. CASE Load(h) \/ Listen(h) \/ Commit(h) \/ Stop(h) \/ TearingCrash(h)
  BY <1>10, Loaded, Listened, CommandDone, Ended DEF WroteOK, Unwritten
<1> QED BY <1>2, <1>3, <1>4, <1>5, <1>6, <1>7, <1>8, <1>9, <1>10 DEF HostStep

\* A read-back of an undisturbed migration succeeds.
LEMMA ReadBackSucceeds ==
  ASSUME ShapeInv, KeyInv, CleanInv, ResumeInv, Calm, NEW h \in Hosts, WroteOK(h), pc[h] = "verify"
  PROVE  Verified(h)
<1>1. PICK f \in Ledger : f = file[loc[h].path]
  BY DEF ShapeInv, TypeOK, Locals
<1>2. PICK l \in Locals : l = loc[h]
  BY DEF ShapeInv, TypeOK
<1>3. Halfway(f, l) /\ l.left = <<>> /\ l.src \in Seq(Past)
  BY <1>1, <1>2 DEF ResumeInv, Calm, Undisturbed, Appending, WroteOK, Locals
<1>4. UnderKey(f) /\ l.key = stored["base"]
  BY <1>1, <1>2 DEF CleanInv, Calm, Clean, Keyed, ShapeInv, TypeOK, Locals
<1>5. f.fmt = "sqlite" <=> l.sqlite
  BY <1>1, <1>2, <1>3 DEF Halfway, ShapeInv, FormatInv, KnownFormat
<1>6. Readable(f, l.key)
  <2>1. DOMAIN f.recs = 1 .. Len(f.recs)
    BY LenProperties DEF Ledger
  <2> QED BY <1>4, <2>1 DEF Readable, UnderKey
<1>7. EventsOf(f) = l.src
  <2>1. PICK n \in Nat : n = Len(f.recs)
    BY EventsType
  <2>2. /\ EventsOf(f) \in Seq(Event) /\ Len(EventsOf(f)) = n
        /\ \A i \in 1 .. n : EventsOf(f)[i] = f.recs[i].ev
        /\ l.src \in Seq(Event) /\ Len(l.src) \in Nat /\ Len(l.left) = 0
    BY <1>3, <2>1, EventsType, PastEvents, LenProperties, EmptySeq
  <2>3. n = Len(l.src) /\ \A i \in 1 .. n : f.recs[i].ev = l.src[i]
    BY <1>3, <2>1, <2>2 DEF Halfway
  <2> QED BY <2>2, <2>3, SeqEqual
<1> QED BY <1>1, <1>2, <1>5, <1>6, <1>7 DEF Verified

\* While nobody interferes, a start-up that has written is not refused for what its
\* ledger holds.
LEMMA RefusedUnwritten ==
  ASSUME ShapeInv, KeyInv, CleanInv, ResumeInv, Calm, NEW h \in Hosts, HostStep(h), WroteOK(h),
         pc'[h] = "failed", loc'[h].why \in {"diverge", "nokey", "corrupt", "verify"}, pc[h] # "failed"
  PROVE  h \notin wrote'
<1>1. /\ loc[h] \in Locals /\ loc[h].path \in Paths /\ loc[h].ret \in {"off", "append", "open"}
      /\ {"base", "fallback"} \subseteq Paths
      /\ \A p \in Paths : UnderKey(file[p]) /\ file[p] \in Ledger /\ DOMAIN file[p].recs = 1 .. Len(file[p].recs)
      /\ Keyed(h) => loc[h].key = stored["base"]
  BY LenProperties DEF ShapeInv, TypeOK, Locals, CleanInv, Calm, Clean, Paths, Ledger
<1>2. \A p \in Paths : Readable(file[p], stored["base"])
  BY <1>1 DEF UnderKey, Readable
<1>3. CASE Resolve(h) \/ DestinationKey(h) \/ CanonicalKey(h) \/ ReadDestination(h)
  <2>1. wrote' = wrote
    BY <1>3 DEF Resolve, DestinationKey, CanonicalKey, ReadDestination, hist
  <2>2. Unwritten(h)
    BY <1>3, Resolved, DestinationFound, CanonicalFound, DestinationCompared DEF Unwritten
  <2> QED BY <2>1, <2>2 DEF WroteOK
<1>4. CASE VerifyMigration(h)
  BY <1>4, MigrationVerified, ReadBackSucceeds
<1>5. CASE Open(h)
  <2>1. /\ loc'[h].why = "corrupt" /\ wrote' = wrote /\ pc[h] = "open"
        /\ file["base"].fmt = "sqlite" /\ ~CanRead(h, file["base"], loc[h].key)
        /\ ~(Exists("base") /\ Exists("fallback"))
    BY <1>5, Opened
  <2>2. h \notin Native
    BY <1>1, <1>2, <2>1 DEF CanRead, Keyed
  <2>3. Exists("base")
    BY <2>1 DEF Exists, NoFile
  <2>4. h \in wrote => Exists(loc[h].path) /\ (file[loc[h].path].fmt = "sqlite" => h \in Native)
    BY <2>1 DEF WroteOK
  <2> QED BY <1>1, <2>1, <2>2, <2>3, <2>4 DEF Paths
<1>6. CASE Load(h)
  BY <1>1, <1>2, <1>6, Loaded DEF Keyed
<1>7. CASE \/ Probe(h) \/ GenerateKey(h) \/ AppendMissing(h) \/ Create(h) \/ Listen(h) \/ Commit(h) \/ Stop(h)
           \/ TearingCrash(h)
  BY <1>1, <1>7, Created, Probed, Generated, MigrationAppended, Listened, CommandDone, Ended
<1> QED BY <1>3, <1>4, <1>5, <1>6, <1>7 DEF HostStep

LEMMA ClosedInvariant == Spec => []ClosedInv
<1>1. Init => ClosedInv
  BY DEF Init, ClosedInv, WroteOK, Closed, Unwritten
<1>2. ASSUME ShapeInv, KeyInv, CleanInv, ResumeInv, ClosedInv, NEW h \in Hosts, HostStep(h) PROVE ClosedInv'
  <2>1. HostChanges(h)
    BY <1>2, StepChanges
  <2>2. Calm' => Calm
    BY <1>2, CleanBefore, UndisturbedBefore DEF Calm, Clean, Undisturbed
  <2>3. ASSUME NEW x \in Hosts PROVE WroteOK(x)'
    BY <1>2, OthersWrote, WroteStep DEF ClosedInv
  <2>4. ASSUME NEW x \in Hosts PROVE Closed(x)'
    <3> SUFFICES ASSUME Calm', pc'[x] = "failed", loc'[x].why \in {"diverge", "nokey", "corrupt", "verify"}
                 PROVE  x \notin wrote'
      BY DEF Closed
    <3>1. CASE x # h
      BY <1>2, <2>1, <2>2, <3>1 DEF HostChanges, ClosedInv, Closed
    <3>2. CASE x = h /\ pc[h] # "failed"
      BY <1>2, <2>2, <3>2, RefusedUnwritten DEF ClosedInv
    <3>3. CASE x = h /\ pc[h] = "failed"
      <4>1. Stop(h)
        BY <1>2, <3>3, Probed, Resolved, Generated, DestinationFound, CanonicalFound, DestinationCompared,
           MigrationAppended, MigrationVerified, Opened, Created, Loaded, Listened, CommandDone, Ended
           DEF HostStep, TearingCrash
      <4> QED BY <1>2, <3>3, <4>1, Ended
    <3> QED BY <3>1, <3>2, <3>3
  <2> QED BY <2>3, <2>4 DEF ClosedInv
<1>3. ASSUME ClosedInv, UNCHANGED vars PROVE ClosedInv'
  BY <1>3 DEF ClosedInv, WroteOK, Closed, Calm, Unwritten, Exists, vars, disk, hist, bounds
<1>4. ShapeInv /\ KeyInv /\ CleanInv /\ ResumeInv /\ ClosedInv /\ [Next]_vars => ClosedInv'
  BY <1>2, <1>3 DEF Next
<1> QED BY <1>1, <1>4, CleanInvariant, ResumeInvariant, PTL DEF Spec

\* A start-up that is refused for a key or for what a ledger holds has written
\* nothing, unless another host interfered with it.
THEOREM RefusalsFailClosed == Spec => []FailsClosed
<1>1. ClosedInv => FailsClosed
  BY DEF ClosedInv, Closed, Calm, FailsClosed
<1> QED BY <1>1, ClosedInvariant, PTL
=============================================================================
