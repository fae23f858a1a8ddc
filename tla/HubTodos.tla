------------------------------ MODULE HubTodos -------------------------------
(* The hub's todo list: HubController and TodoMarkdownSync, in                *)
(* vscode-extension/src/broker/hub/.                                          *)
(*                                                                            *)
(* A controller keeps the list in memory and saves it to hub-todos.json; with  *)
(* every change it also aligns a Todo.md, which the user edits too.  The       *)
(* broker's server and the MCP server each have a controller of their own, in  *)
(* processes that share both files.  Nothing locks the files: every read and   *)
(* every write of one is a step, between which the other process, the user, a  *)
(* failing disk or a crash may come.                                          *)
EXTENDS Integers, Sequences, FiniteSets, SequencesExt

CONSTANTS
  Hubs,         \* the controllers
  Blocks,       \* todos, by the block id that names them in every place
  Vague,        \* those whose text triage finds too vague to dispatch
  Private,      \* those whose text triage finds strictly local
  Credit,       \* those whose text opts in to manual credit (#agya)
  Percents,     \* quota readings in hundredths of a per cent
  AutoSync,     \* the settings of autoSyncMarkdown that the user gives it
  None,
  MaxCalls, MaxTasks, MaxTurns, MaxUpsets   \* bounds

Statuses == {"needs_clarification", "ready", "in_progress", "awaiting_approval", "done"}
Providers == {"codex", "agy", "local"}
Files == {"root", "vault"}         \* Todo.md of the state root, and of a vault
NoFile == <<[block |-> None, mark |-> "done"]>>
Hole == [block |-> None, status |-> "done", route |-> None]   \* undefined; null in JSON
Unparsable == <<[block |-> None, status |-> "ready", route |-> None]>>

ASSUME HubAssumption ==
  /\ Vague \subseteq Blocks /\ Private \subseteq Blocks /\ Credit \subseteq Blocks
  /\ None \notin Blocks \cup Files /\ Percents \subseteq 0 .. 10000
  /\ AutoSync \subseteq BOOLEAN
  /\ {MaxCalls, MaxTasks, MaxTurns, MaxUpsets} \subseteq Nat

VARIABLES
  list,    \* per controller: todos, each with its status and the route of its task
  eco,     \* per controller: the Todo.md of its last ecosystem scan
  job,     \* per controller: the alignment it is in the middle of
  saved,   \* hub-todos.json
  md,      \* the two Todo.md: a line per todo, its box standing for a status
  calls,   \* dispatches that await the broker, with what they read before
  tasks,   \* broker tasks created
  known,   \* todos ingested or written into a Todo.md so far
  strayed, \* history: a dispatch wrote to a place that was not its todo's alone
  turns,   \* operations begun
  upsets   \* edits of the files, failures and restarts

memory == <<list, eco, job>>
disk == <<saved, md>>
vars == <<memory, disk, calls, tasks, known, strayed, turns, upsets>>

\* What an alignment remembers: the step it waits for, its file and direction, the
\* lines it read and, if a dispatch asked for it, the todo as dispatched and whether
\* it was the only one at its place.
NoJob == [at |-> "idle", file |-> "root", push |-> FALSE, lines |-> <<>>,
          todo |-> None, sure |-> FALSE]

Init ==
  /\ list = [h \in Hubs |-> <<>>] /\ eco = [h \in Hubs |-> None]
  /\ job = [h \in Hubs |-> NoJob]
  /\ saved = <<>> /\ md = [f \in Files |-> NoFile]
  /\ calls = {} /\ tasks = 0 /\ known = {}
  /\ strayed = FALSE /\ turns = 0 /\ upsets = 0

-----------------------------------------------------------------------------
(* Pure parts                                                                *)

\* triageTodoItem: a box that says the work is done or under way is believed.
Triage(b, status) ==
  [block |-> b, route |-> None,
   status |-> IF status \in {"done", "in_progress", "awaiting_approval"} THEN status
              ELSE IF b \in Vague THEN "needs_clarification" ELSE "ready"]

BlocksOf(s) == {s[i].block : i \in DOMAIN s}
\* findIndex: the first todo of that name.  The map of a sync keeps the last one.
First(s, b) == CHOOSE i \in DOMAIN s : s[i].block = b /\ \A j \in 1 .. i - 1 : s[j].block # b
LastOf(s, b) == s[CHOOSE i \in DOMAIN s : s[i].block = b /\ \A j \in i + 1 .. Len(s) : s[j].block # b]

Line(t) == [block |-> t.block, mark |-> t.status]
Listing(s) == [i \in DOMAIN s |-> Line(s[i])]

\* The todo of a line.  A push keeps the status in memory, otherwise the box wins.
LineTodo(s, l, push) ==
  IF l.block \notin BlocksOf(s) THEN Triage(l.block, l.mark)
  ELSE IF push THEN LastOf(s, l.block) ELSE [LastOf(s, l.block) EXCEPT !.status = l.mark]

KeepsMark(s, l, push) == l   \* mutant: a push does not align the boxes
\* The line written back: an unchecked box of a vague new todo becomes "?".
LineBack(s, l, push) ==
  LET t == LineTodo(s, l, push) IN
  IF l.block \in BlocksOf(s) THEN Line(t)
  ELSE IF l.mark = "ready" THEN Line(t) ELSE l

ForgetsUnlisted(s, lines) == <<>>   \* mutant: a todo without a line is dropped
AppendsAll(s, lines) == s           \* mutant: todos that have a line are appended too
\* Todos without a line, once each and in their order.
Unlisted(s, lines) ==
  LET fresh == {i \in DOMAIN s : /\ s[i].block \notin BlocksOf(lines)
                                 /\ \A j \in 1 .. i - 1 : s[j].block # s[i].block}
      place(i) == Cardinality({j \in fresh : j <= i}) IN
  [k \in 1 .. Cardinality(fresh) |-> s[CHOOSE i \in fresh : place(i) = k]]

\* TodoMarkdownSync.sync: the new list, and the new content of the file.
Synced(s, lines, push) ==
  IF lines = NoFile THEN [list |-> s, lines |-> Listing(s)]
  ELSE LET more == Unlisted(s, lines) IN
       [list |-> [i \in DOMAIN lines |-> LineTodo(s, lines[i], push)] \o more,
        lines |-> [i \in DOMAIN lines |-> LineBack(s, lines[i], push)] \o Listing(more)]

\* normPct: a reading of 1 or less is taken for a fraction already.  In hundredths of
\* a per cent; None is no reading.
Percent(p) == IF p = None THEN 10000 ELSE IF p > 100 THEN p ELSE 100 * p

\* dispatchTodo's guards 2 to 4: the provider of a todo that is strictly local or
\* not, that allows manual credit or not, the caller's preference and the quota
\* readings given.
Cascade(credit, first, codex, agy) ==
  IF first = "codex" /\ Percent(codex) < 1500
  THEN IF credit /\ Percent(agy) >= 1500 THEN "agy" ELSE "local"
  ELSE IF first = "agy" /\ Percent(agy) < 1500
  THEN IF Percent(codex) >= 1500 THEN "codex" ELSE "local"
  ELSE first
UnlockedRoute(private, credit, preferred, codex, agy) ==   \* mutant: no credit lock
  IF private THEN "local" ELSE Cascade(credit, preferred, codex, agy)
Route(private, credit, preferred, codex, agy) ==
  IF private THEN "local"
  ELSE IF preferred = "agy" /\ ~credit THEN Cascade(credit, "codex", codex, agy)
  ELSE Cascade(credit, preferred, codex, agy)

\* What a provider's reading says: a fraction of a per cent, from 0.15 to 1, passes
\* for 15 to 100 per cent.
Grade(reading) ==
  IF reading = None \/ reading >= 1500 THEN "enough"
  ELSE IF reading \in 15 .. 100 THEN "misread" ELSE "short"
QuotaOf(route, codex, agy) ==
  IF route = "local" THEN "enough" ELSE Grade(IF route = "codex" THEN codex ELSE agy)

-----------------------------------------------------------------------------
(* Operations of a controller                                                *)

Turn == turns < MaxTurns /\ turns' = turns + 1
Upset == upsets < MaxUpsets /\ upsets' = upsets + 1

\* Operations and alignments run without an await: a process is in one at a time.
Free(h) == job[h] = NoJob

\* The file a controller aligns: that of its last scan, or the state root's.
Active(h) == IF eco[h] = None THEN "root" ELSE eco[h]
Aligning(f, push, todo, sure) ==
  [at |-> "read", file |-> f, push |-> push, lines |-> <<>>, todo |-> todo, sure |-> sure]

\* An operation puts a new list into memory and saves it; then the alignment follows,
\* if it is on.  A write that fails fails the operation, and leaves the file as it
\* was or cut short.
Keep(h, s, next) ==
  /\ Free(h)
  /\ list' = [list EXCEPT ![h] = s]
  /\ \/ /\ saved' = s /\ UNCHANGED upsets
        /\ \E auto \in AutoSync : job' = [job EXCEPT ![h] = IF auto THEN next ELSE NoJob]
     \/ Upset /\ saved' \in {saved, Unparsable} /\ UNCHANGED job
  /\ UNCHANGED <<eco, md, tasks>>

\* A new todo comes first in the list.
Ingest(h) ==
  /\ Turn
  /\ \E b \in Blocks \ known :
       /\ known' = known \cup {b}
       /\ Keep(h, <<Triage(b, "ready")>> \o list[h], Aligning(Active(h), TRUE, None, FALSE))
  /\ UNCHANGED <<calls, strayed>>

\* findIndex throws where it meets a hole before the todo.
Found(s, b) == b \in BlocksOf(s) /\ \A j \in 1 .. First(s, b) : s[j] # Hole

\* The answers make a todo clear, or leave it vague, whatever its status was.
Clarify(h, b) ==
  /\ Turn /\ Found(list[h], b)
  /\ \E status \in {"ready", "needs_clarification"} :
       Keep(h, [list[h] EXCEPT ![First(list[h], b)].status = status],
            Aligning(Active(h), TRUE, None, FALSE))
  /\ UNCHANGED <<calls, known, strayed>>

\* syncTodos saves after the alignment only.
Sync(h) ==
  /\ Turn /\ Free(h) /\ job' = [job EXCEPT ![h] = Aligning(Active(h), FALSE, None, FALSE)]
  /\ UNCHANGED <<list, eco, disk, calls, tasks, known, strayed, upsets>>

\* getOverview, after its scan: the vault's Todo.md if there is one.  A scan less
\* than 15 s old is not repeated.
Overview(h) ==
  /\ Turn /\ Free(h)
  /\ \E f \in {IF md["vault"] = NoFile THEN "root" ELSE "vault"} \cup ({eco[h]} \ {None}),
        auto \in AutoSync :
       /\ eco' = [eco EXCEPT ![h] = f]
       /\ job' = [job EXCEPT ![h] = IF auto THEN Aligning(f, FALSE, None, FALSE) ELSE @]
  /\ UNCHANGED <<list, disk, calls, tasks, known, strayed, upsets>>

-----------------------------------------------------------------------------
(* The steps of an alignment                                                 *)

NowAt(h, step) == [job EXCEPT ![h].at = step]
Done(h) == [job EXCEPT ![h] = NoJob]

\* The file is read, or found missing.  While the other process writes it, it may look
\* empty.  A list with a hole throws.
Read(h) ==
  /\ job[h].at = "read"
  /\ LET f == job[h].file
         written == \E g \in Hubs \ {h} : job[g].at = "align" /\ job[g].file = f IN
     \E lines \in {md[f]} \cup (IF written THEN {<<>>} ELSE {}) :
       job' = IF Hole \in Range(list[h]) THEN Done(h)
              ELSE [job EXCEPT ![h].at = "align", ![h].lines = lines]
  /\ UNCHANGED <<list, eco, disk, calls, tasks, known, strayed, turns, upsets>>

\* It cannot be read: the list is kept as it is, and the operation goes on.
ReadFails(h) ==
  /\ job[h].at = "read" /\ Upset /\ md[job[h].file] # NoFile /\ job' = NowAt(h, "save")
  /\ UNCHANGED <<list, eco, disk, calls, tasks, known, strayed, turns>>

\* The list follows the lines that were read, and the file is written if that changes
\* it.  (What has the same todos and boxes may still differ in its text.)
Align(h) ==
  /\ job[h].at = "align"
  /\ LET f == job[h].file
         r == Synced(list[h], job[h].lines, job[h].push) IN
     /\ list' = [list EXCEPT ![h] = r.list]
     /\ \/ md' = [md EXCEPT ![f] = r.lines]
        \/ r.lines = job[h].lines /\ UNCHANGED md
  /\ job' = NowAt(h, "save")
  /\ UNCHANGED <<eco, saved, calls, tasks, known, strayed, turns, upsets>>

\* The write fails, and the operation with it.
AlignFails(h) ==
  /\ job[h].at = "align" /\ Upset /\ job' = Done(h)
  /\ \/ UNCHANGED md
     \/ md' = [md EXCEPT ![job[h].file] = <<>>]
  /\ UNCHANGED <<list, eco, saved, calls, tasks, known, strayed, turns>>

\* The list is saved (again), and the operation answered.
Save(h) ==
  /\ job[h].at = "save" /\ job' = Done(h)
  /\ \/ saved' = list[h] /\ UNCHANGED upsets
     \/ Upset /\ saved' \in {saved, Unparsable}
  /\ UNCHANGED <<list, eco, md, calls, tasks, known, strayed, turns>>

-----------------------------------------------------------------------------
(* Dispatches                                                                *)

\* dispatchTodo up to createTask, of the first todo of its name.  Only a vague todo is
\* refused.
Dispatch(h, i) ==
  LET b == list[h][i].block IN
  /\ Turn /\ Free(h) /\ Found(list[h], b) /\ i = First(list[h], b)
  /\ list[h][i].status # "needs_clarification"
  /\ Cardinality(calls) < MaxCalls
  /\ \E p \in Providers, codex, agy \in Percents \cup {None} :
       LET r == Route(b \in Private, b \in Credit, p, codex, agy) IN
       calls' = calls \cup {[hub |-> h, at |-> i, todo |-> list[h][i], made |-> FALSE,
                            route |-> r, quota |-> QuotaOf(r, codex, agy)]}
  /\ UNCHANGED <<memory, disk, tasks, known, strayed, upsets>>

\* createTask answered; with executeNow the delegation is awaited too.
Created(c) ==
  /\ c \in calls /\ ~c.made /\ tasks < MaxTasks
  /\ tasks' = tasks + 1
  /\ calls' = (calls \ {c}) \cup {[c EXCEPT !.made = TRUE]}
  /\ UNCHANGED <<memory, disk, known, strayed, turns, upsets>>

\* The broker refused: createTask or delegate threw.
BrokerFails(c) ==
  /\ c \in calls /\ calls' = calls \ {c}
  /\ UNCHANGED <<memory, disk, tasks, known, strayed, turns, upsets>>

\* An assignment to an index.  Beyond the end it leaves holes.
Put(s, i, t) ==
  [j \in DOMAIN s \cup 1 .. i |-> IF j = i THEN t ELSE IF j \in DOMAIN s THEN s[j] ELSE Hole]

\* The place that a dispatch found before is still its todo's, and no other is.
Sure(c) ==
  LET s == list[c.hub] IN
  c.at \in DOMAIN s /\ \A i \in DOMAIN s : s[i].block = c.todo.block <=> i = c.at

Dispatched(c) == [block |-> c.todo.block, status |-> "in_progress", route |-> c.route]

PullsAfter(c) ==   \* mutant: the file's boxes win over the dispatch
  /\ c \in calls /\ c.made /\ calls' = calls \ {c}
  /\ Keep(c.hub, Put(list[c.hub], c.at, Dispatched(c)),
          Aligning(Active(c.hub), FALSE, Dispatched(c), Sure(c)))
  /\ strayed' = (strayed \/ ~Sure(c))
  /\ UNCHANGED <<known, turns>>
\* The todo read before goes where it was found before.
DispatchEnds(c) ==
  /\ c \in calls /\ c.made /\ calls' = calls \ {c}
  /\ Keep(c.hub, Put(list[c.hub], c.at, Dispatched(c)),
          Aligning(Active(c.hub), TRUE, Dispatched(c), Sure(c)))
  /\ strayed' = (strayed \/ ~Sure(c))
  /\ UNCHANGED <<known, turns>>

-----------------------------------------------------------------------------
(* The user and the process                                                  *)

\* The user checks a box, moves the last line to the top, or deletes a line.
Edited(lines) ==
  {[lines EXCEPT ![i].mark = m] : i \in DOMAIN lines, m \in {"ready", "done"}}
    \cup (IF Len(lines) > 1 THEN {<<Last(lines)>> \o Front(lines)} ELSE {})
    \cup {RemoveAt(lines, i) : i \in DOMAIN lines}

Edit(f) ==
  /\ Upset /\ md[f] # NoFile
  /\ \E lines \in Edited(md[f]) \cup {NoFile} : md' = [md EXCEPT ![f] = lines]
  /\ UNCHANGED <<memory, saved, calls, tasks, known, strayed, turns>>

\* The user writes a line, perhaps the first of a vault's Todo.md, or one that was
\* there before.
Write(f) ==
  /\ Upset
  /\ LET lines == IF md[f] = NoFile THEN <<>> ELSE md[f] IN
     \E b \in Blocks \ BlocksOf(lines), m \in {"ready", "in_progress"} :
       /\ known' = known \cup {b}
       /\ md' = [md EXCEPT ![f] = Append(lines, [block |-> b, mark |-> m])]
  /\ UNCHANGED <<memory, saved, calls, tasks, strayed, turns>>

Trusted(json) == json   \* mutant: what was parsed is not looked at
\* loadTodos: what cannot be parsed counts as empty.
Loaded(json) == IF json = Unparsable THEN <<>> ELSE json

\* A controller's process ends, anywhere in an operation, and another starts and loads
\* the JSON file, perhaps while the other process writes it.  What this one was writing
\* may be left cut short: the JSON file unparsable, a Todo.md empty.
Restart(h) ==
  /\ Upset
  /\ saved' \in {saved} \cup (IF job[h].at \in {"idle", "save"} THEN {Unparsable} ELSE {})
  /\ \E json \in {saved'} \cup (IF Hubs # {h} THEN {Unparsable} ELSE {}) :
       list' = [list EXCEPT ![h] = Loaded(json)]
  /\ \/ UNCHANGED md
     \/ job[h].at = "align" /\ md' = [md EXCEPT ![job[h].file] = <<>>]
  /\ eco' = [eco EXCEPT ![h] = None] /\ job' = Done(h)
  /\ calls' = {c \in calls : c.hub # h}
  /\ UNCHANGED <<tasks, known, strayed, turns>>

Next ==
  \/ \E h \in Hubs : Ingest(h) \/ Sync(h) \/ Overview(h) \/ Restart(h)
  \/ \E h \in Hubs : Read(h) \/ ReadFails(h) \/ Align(h) \/ AlignFails(h) \/ Save(h)
  \/ \E h \in Hubs : \E b \in Blocks : Clarify(h, b)
  \/ \E h \in Hubs : \E i \in DOMAIN list[h] : Dispatch(h, i)
  \/ \E c \in calls : Created(c) \/ BrokerFails(c) \/ DispatchEnds(c)
  \/ \E f \in Files : Edit(f) \/ Write(f)

Spec == Init /\ [][Next]_vars

-----------------------------------------------------------------------------
(* Properties                                                                *)

Todo == [block : Blocks, status : Statuses, route : Providers \cup {None}]
Lines == [block : Blocks, mark : Statuses]
Job == [at : {"idle", "read", "align", "save"}, file : Files, push : BOOLEAN,
        lines : Seq(Lines) \cup {NoFile}, todo : Todo \cup {None}, sure : BOOLEAN]
Distinct(s) == \A i, j \in DOMAIN s : s[i].block = s[j].block => i = j

\* The type invariant: what is in a list, a file or a dispatch was ingested or written
\* once, and a dispatch knows a place and a route.
TypeOK ==
  /\ \A h \in Hubs : list[h] \in Seq(Todo \cup {Hole}) /\ BlocksOf(list[h]) \subseteq known \cup {None}
  /\ eco \in [Hubs -> Files \cup {None}] /\ job \in [Hubs -> Job]
  /\ \A f \in Files : md[f] = NoFile \/ (md[f] \in Seq(Lines) /\ BlocksOf(md[f]) \subseteq known)
  /\ \A c \in calls : c.hub \in Hubs /\ c.at \in Nat \ {0} /\ c.todo \in Todo /\ c.route \in Providers

\* No controller lists a todo twice, and no file does, as long as no dispatch wrote to
\* a place that was not its todo's alone: stale copies of the file, a crash between the
\* two saves and lines that come and go make no duplicates by themselves.
ListedOnce ==
  ~strayed => /\ \A h \in Hubs : Distinct(list[h])
              /\ \A f \in Files : Distinct(md[f])

\* What a controller writes into Todo.md is its list from then on: the same todos in
\* the same order with the same boxes, although it read the file a step before.  The
\* one exception: a clear todo that comes from the file counts as ready, and its line
\* keeps a "?".
Shows(l, t) ==
  /\ l.block = t.block
  /\ l.mark # t.status => l.mark = "needs_clarification" /\ t.status = "ready"
SyncAgrees ==
  [][\A f \in Files : md'[f] # md[f] /\ upsets' = upsets =>
       \E h \in Hubs : /\ job[h].at = "align" /\ job[h].file = f
                       /\ DOMAIN md'[f] = DOMAIN list'[h]
                       /\ \A i \in DOMAIN list'[h] : Shows(md'[f][i], list'[h][i])]_vars

\* A dispatch that is answered is on record: its todo is in progress with its route in
\* memory and in the JSON file, whatever the box in Todo.md said, and whether or not
\* the file could be read; unless another todo had taken its place in the list.
DispatchRecorded ==
  [][\A h \in Hubs :
       Save(h) /\ upsets' = upsets /\ job[h].todo # None /\ job[h].sure =>
         saved' = list'[h] /\ \E i \in DOMAIN saved' : saved'[i] = job[h].todo]_vars

\* A controller forgets a todo in two ways only, by ending its process and by a
\* dispatch that takes the todo's place in the list; the user's deletions and the
\* other process's writes do not reach its memory.
MemoryKeeps ==
  [][\A h \in Hubs : \A b \in BlocksOf(list[h]) \ BlocksOf(list'[h]) :
       \/ Restart(h)
       \/ strayed' /\ \E c \in calls \ calls' :
            c.hub = h /\ c.at \in DOMAIN list[h] /\ list[h][c.at].block = b]_vars

\* The privacy, credit and quota guards of a dispatch hold together, whatever the
\* caller prefers and the readings say: a strictly local todo stays local, manual
\* credit is spent on an opt-in only, and a provider that runs short is not used,
\* unless its reading passes for a fraction.  (That is at odds with "Guard 4: Quota &
\* Cascading (<15% triggers cascade to alternate or local)", hubController.ts:337: a
\* provider with 0.15 to 1 per cent left is used.)
GuardsHold ==
  \A c \in calls :
    /\ c.todo.block \in Private => c.route = "local"
    /\ c.route = "agy" => c.todo.block \in Credit
    /\ c.quota # "short"
=============================================================================
