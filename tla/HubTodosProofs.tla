--------------------------- MODULE HubTodosProofs ----------------------------
(* What holds of the hub's todos for any todos, controllers, readings, opt-ins *)
(* and settings, and for as many failures, edits and restarts as one likes.    *)
EXTENDS HubTodos, FiniteSetTheorems, NaturalsInduction, SequenceTheorems, TLAPS

CallFields == {"hub", "at", "todo", "made", "route", "quota"}

\* What the guards rely on: a dispatch under way keeps what it was started with.
CallsKept == \A c \in calls : DOMAIN c = CallFields
GuardInv == CallsKept /\ GuardsHold

\* The cascade of providers obeys the locks: a private todo goes to the local engine,
\* manual credit is spent on an opt-in only, and no provider under 15 per cent is
\* taken unless its reading passes for a fraction.
LEMMA RouteIsGuarded ==
  ASSUME NEW private \in BOOLEAN, NEW credit \in BOOLEAN, NEW p \in Providers,
         NEW codex \in Percents \cup {None}, NEW agy \in Percents \cup {None}
  PROVE  LET r == Route(private, credit, p, codex, agy) IN
         /\ private => r = "local"
         /\ r = "agy" => credit
         /\ QuotaOf(r, codex, agy) # "short"
<1> DEFINE low(x) == Grade(x) = "short"
<1>1. ASSUME NEW x \in Percents \cup {None}, low(x)
      PROVE  Percent(x) < 1500 /\ ~(Percent(x) >= 1500)
  <2>1. x # None /\ ~(x >= 1500) /\ x \notin 15 .. 100
    BY <1>1 DEF Grade
  <2>2. x \in 0 .. 10000
    <3>1. Percents \subseteq 0 .. 10000
      BY HubAssumption, SMT
    <3>2. x \in Percents
      BY <2>1
    <3> QED
      BY <3>1, <3>2
  <2> QED
    BY <2>1, <2>2 DEF Percent
<1>2. /\ low(codex) => Percent(codex) < 1500 /\ ~(Percent(codex) >= 1500)
      /\ low(agy) => Percent(agy) < 1500 /\ ~(Percent(agy) >= 1500)
  BY <1>1
<1>3. /\ QuotaOf("local", codex, agy) # "short"
      /\ QuotaOf("codex", codex, agy) = "short" => low(codex)
      /\ QuotaOf("agy", codex, agy) = "short" => low(agy)
  BY DEF QuotaOf
<1> HIDE DEF low
<1>4. ASSUME NEW first \in {"codex", "agy", "local"}, first = "agy" => credit
      PROVE  LET r == Cascade(credit, first, codex, agy) IN
             /\ r = "agy" => credit
             /\ QuotaOf(r, codex, agy) # "short"
  <2>1. CASE first = "codex" /\ Percent(codex) < 1500
    <3>1. \/ credit /\ Percent(agy) >= 1500 /\ Cascade(credit, first, codex, agy) = "agy"
          \/ Cascade(credit, first, codex, agy) = "local"
      BY <2>1 DEF Cascade
    <3> QED
      BY <1>2, <1>3, <3>1
  <2>2. CASE first = "agy" /\ Percent(agy) < 1500
    <3>1. Cascade(credit, first, codex, agy) = IF Percent(codex) >= 1500 THEN "codex" ELSE "local"
      BY <2>2 DEF Cascade
    <3> QED
      BY <1>2, <1>3, <3>1
  <2>3. CASE ~(first = "codex" /\ Percent(codex) < 1500) /\ ~(first = "agy" /\ Percent(agy) < 1500)
    <3>1. Cascade(credit, first, codex, agy) = first
      BY <2>3 DEF Cascade
    <3> QED
      BY <1>2, <1>3, <1>4, <2>3, <3>1
  <2> QED
    BY <2>1, <2>2, <2>3
<1>5. CASE private
  BY <1>3, <1>5 DEF Route
<1>6. CASE ~private
  <2>1. PICK first \in {"codex", "agy", "local"} :
          /\ first = "agy" => credit
          /\ Route(private, credit, p, codex, agy) = Cascade(credit, first, codex, agy)
    BY <1>6 DEF Route, Providers
  <2> QED
    BY <1>4, <1>6, <2>1
<1> QED
  BY <1>5, <1>6

LEMMA GuardsInitially == Init => GuardInv
BY DEF Init, GuardInv, CallsKept, GuardsHold

\* Only a dispatch adds a call, with a route of the cascade.
LEMMA DispatchIsGuarded ==
  ASSUME GuardInv, NEW h \in Hubs, NEW i \in DOMAIN list[h], Dispatch(h, i)
  PROVE  GuardInv'
<1> DEFINE b == list[h][i].block
<1>1. PICK p \in Providers, codex \in Percents \cup {None}, agy \in Percents \cup {None} :
        LET r == Route(b \in Private, b \in Credit, p, codex, agy) IN
        calls' = calls \cup {[hub |-> h, at |-> i, todo |-> list[h][i], made |-> FALSE,
                              route |-> r, quota |-> QuotaOf(r, codex, agy)]}
  BY DEF Dispatch
<1> DEFINE r == Route(b \in Private, b \in Credit, p, codex, agy)
           new == [hub |-> h, at |-> i, todo |-> list[h][i], made |-> FALSE,
                   route |-> r, quota |-> QuotaOf(r, codex, agy)]
<1>2. /\ b \in Private => r = "local"
      /\ r = "agy" => b \in Credit
      /\ QuotaOf(r, codex, agy) # "short"
  <2> DEFINE private == b \in Private
             credit == b \in Credit
  <2>1. private \in BOOLEAN /\ credit \in BOOLEAN
    OBVIOUS
  <2>2. r = Route(private, credit, p, codex, agy)
    OBVIOUS
  <2> HIDE DEF private, credit, b, r
  <2>3. (private => r = "local") /\ (r = "agy" => credit) /\ QuotaOf(r, codex, agy) # "short"
    BY <2>1, <2>2, RouteIsGuarded, SMTT(30)
  <2> QED
    BY <2>3 DEF private, credit
<1>3. /\ DOMAIN new = CallFields /\ new.todo.block = b /\ new.route = r /\ new.quota # "short"
  BY <1>2 DEF CallFields
<1>4. calls' = calls \cup {new}
  BY <1>1
<1> HIDE DEF new, r, b
<1> QED
  BY <1>2, <1>3, <1>4 DEF GuardInv, CallsKept, GuardsHold

\* createTask's answer changes nothing else.
LEMMA CreatedIsGuarded ==
  ASSUME GuardInv, NEW c \in calls, Created(c)
  PROVE  GuardInv'
<1> DEFINE new == [c EXCEPT !.made = TRUE]
<1>1. /\ DOMAIN new = CallFields
      /\ new.todo = c.todo /\ new.route = c.route /\ new.quota = c.quota
  BY DEF GuardInv, CallsKept, CallFields
<1>2. calls' \subseteq calls \cup {new}
  BY DEF Created
<1> HIDE DEF new
<1> QED
  BY <1>1, <1>2 DEF GuardInv, CallsKept, GuardsHold

\* The other steps add no call.
LEMMA CallsShrink ==
  /\ \A h \in Hubs : Ingest(h) \/ Sync(h) \/ Overview(h) \/ Restart(h) => calls' \subseteq calls
  /\ \A h \in Hubs : Read(h) \/ ReadFails(h) \/ Align(h) \/ AlignFails(h) \/ Save(h) => calls' = calls
  /\ \A h \in Hubs : \A b \in Blocks : Clarify(h, b) => calls' = calls
  /\ \A c \in calls : BrokerFails(c) \/ DispatchEnds(c) => calls' \subseteq calls
  /\ \A f \in Files : Edit(f) \/ Write(f) => calls' = calls
BY DEF Ingest, Sync, Overview, Restart, Read, ReadFails, Align, AlignFails, Save, Clarify,
       BrokerFails, DispatchEnds, Edit, Write

LEMMA GuardsKept == GuardInv /\ [Next]_vars => GuardInv'
<1> SUFFICES ASSUME GuardInv, [Next]_vars PROVE GuardInv'
  OBVIOUS
<1>1. CASE calls' \subseteq calls
  BY <1>1 DEF GuardInv, CallsKept, GuardsHold
<1>2. CASE UNCHANGED vars
  BY <1>1, <1>2 DEF vars
<1> QED
  BY <1>1, <1>2, CallsShrink, DispatchIsGuarded, CreatedIsGuarded DEF Next

\* Whatever the caller prefers and the readings say, every dispatch respects the
\* privacy, credit and quota guards of dispatchTodo; the quota guard for readings that
\* do not pass for a fraction.
THEOREM GuardsAlwaysHold == Spec => []GuardsHold
<1>1. GuardInv => GuardsHold
  BY DEF GuardInv
<1> QED
  BY <1>1, GuardsInitially, GuardsKept, PTL DEF Spec

-----------------------------------------------------------------------------
(* Sequences of todos and of lines                                           *)

\* A set of natural numbers has a smallest element; below a bound, a largest one.
LEMMA SmallestOf ==
  ASSUME NEW S \in SUBSET Nat, S # {}
  PROVE  \E m \in S : \A k \in S : m <= k
<1>1. PICK m \in S : \A k \in S : <<k, m>> \notin OpToRel(<, Nat)
  BY NatLessThanWellFounded, WFMin, Zenon
<1>2. \A k \in S : ~(k < m)
  BY <1>1 DEF OpToRel
<1> QED
  BY <1>2

LEMMA LargestOf ==
  ASSUME NEW n \in Nat, NEW S \in SUBSET (1 .. n), S # {}
  PROVE  \E m \in S : \A k \in S : k <= m
<1> DEFINE D == {n - k : k \in S}
<1>1. D \in SUBSET Nat
  OBVIOUS
<1>0. D # {}
  OBVIOUS
<1>2. PICK d \in D : \A k \in D : d <= k
  BY <1>0, <1>1, SmallestOf
<1>3. PICK m \in S : d = n - m
  OBVIOUS
<1>4. ASSUME NEW k \in S PROVE k <= m
  <2>1. d <= n - k
    BY <1>2
  <2> QED
    BY <1>3, <2>1
<1> QED
  BY <1>4

\* findIndex finds a todo that is listed.
LEMMA FirstIs ==
  ASSUME NEW T, NEW s \in Seq(T), NEW b \in BlocksOf(s)
  PROVE  First(s, b) \in DOMAIN s /\ s[First(s, b)].block = b
<1> DEFINE at == {i \in DOMAIN s : s[i].block = b}
<1>1. at \in SUBSET Nat /\ at # {}
  BY DEF BlocksOf
<1>2. PICK m \in at : \A k \in at : m <= k
  BY <1>1, SmallestOf
<1>3. m \in DOMAIN s /\ s[m].block = b /\ \A j \in 1 .. m - 1 : s[j].block # b
  BY <1>2
<1> QED
  BY <1>3 DEF First

\* The map of a sync keeps a todo of that name.
LEMMA LastIs ==
  ASSUME NEW T, NEW s \in Seq(T), NEW b \in BlocksOf(s)
  PROVE  \E i \in DOMAIN s : LastOf(s, b) = s[i] /\ s[i].block = b
<1> DEFINE at == {i \in DOMAIN s : s[i].block = b}
<1>1. at \in SUBSET (1 .. Len(s)) /\ at # {} /\ Len(s) \in Nat
  BY DEF BlocksOf
<1>2. PICK m \in at : \A k \in at : k <= m
  BY <1>1, LargestOf
<1>3. m \in DOMAIN s /\ s[m].block = b /\ \A j \in m + 1 .. Len(s) : s[j].block # b
  BY <1>2
<1> QED
  BY <1>3 DEF LastOf

\* The todos without a line: each of them once, and no other.
LEMMA UnlistedIs ==
  ASSUME NEW T, NEW s \in Seq(T), NEW lines
  PROVE  LET more == Unlisted(s, lines) IN
         /\ more \in Seq(T)
         /\ \A k \in DOMAIN more : \E i \in DOMAIN s : more[k] = s[i]
         /\ Distinct(more)
         /\ BlocksOf(more) = BlocksOf(s) \ BlocksOf(lines)
<1> DEFINE fresh == {i \in DOMAIN s : /\ s[i].block \notin BlocksOf(lines)
                                      /\ \A j \in 1 .. i - 1 : s[j].block # s[i].block}
           place(i) == Cardinality({j \in fresh : j <= i})
           n == Cardinality(fresh)
           at(k) == CHOOSE i \in fresh : place(i) = k
           more == [k \in 1 .. n |-> s[at(k)]]
<1>1. Unlisted(s, lines) = more
  BY DEF Unlisted
<1>2. fresh \in SUBSET (1 .. Len(s)) /\ Len(s) \in Nat
  OBVIOUS
<1>3. IsFiniteSet(fresh) /\ n \in Nat
  <2>1. IsFiniteSet(1 .. Len(s))
    BY <1>2, FS_Interval
  <2> HIDE DEF fresh
  <2> QED
    BY <1>2, <2>1, FS_Subset, FS_CardinalityType
<1>4. ASSUME NEW i \in fresh, NEW j \in fresh, i < j
      PROVE  place(i) < place(j)
  <2> DEFINE I == {l \in fresh : l <= i}
             J == {l \in fresh : l <= j}
  <2>1. I \in SUBSET J /\ J \in SUBSET fresh /\ I # J
    BY <1>2, <1>4
  <2>2. IsFiniteSet(J)
    BY <1>3, <2>1, FS_Subset
  <2> HIDE DEF I, J
  <2>3. /\ IsFiniteSet(I) /\ Cardinality(I) <= Cardinality(J)
        /\ Cardinality(J) = Cardinality(I) => J = I
    BY <2>1, <2>2, FS_Subset
  <2>4. Cardinality(I) \in Nat /\ Cardinality(J) \in Nat
    BY <2>2, <2>3, FS_CardinalityType
  <2>5. Cardinality(I) < Cardinality(J)
    BY <2>1, <2>3, <2>4
  <2> QED
    BY <2>5 DEF I, J
<1>5. ASSUME NEW i \in fresh
      PROVE  place(i) \in 1 .. n
  <2> DEFINE I == {l \in fresh : l <= i}
  <2>1. I \in SUBSET fresh /\ i \in I
    BY <1>2
  <2> HIDE DEF I
  <2>2. IsFiniteSet(I) /\ Cardinality(I) <= n
    BY <1>3, <2>1, FS_Subset
  <2>3. Cardinality(I) \in Nat /\ Cardinality(I) # 0
    BY <2>1, <2>2, FS_CardinalityType, FS_EmptySet
  <2>4. Cardinality(I) \in 1 .. n
    BY <1>3, <2>2, <2>3
  <2> QED
    BY <2>4 DEF I
<1> DEFINE f == [i \in fresh |-> place(i)]
<1>6. f \in [fresh -> 1 .. n]
  BY <1>5
<1>7. \A i, j \in fresh : place(i) = place(j) => i = j
  <2> SUFFICES ASSUME NEW i \in fresh, NEW j \in fresh, i # j
               PROVE  place(i) # place(j)
    OBVIOUS
  <2>1. i \in Nat /\ j \in Nat
    BY <1>2
  <2>2. i < j \/ j < i
    BY <2>1
  <2> HIDE DEF place, fresh, n
  <2>3. place(i) \in Nat /\ place(j) \in Nat
    BY <1>5, <1>3
  <2>4. place(i) < place(j) \/ place(j) < place(i)
    BY <1>4, <2>2
  <2> QED
    BY <2>3, <2>4
<1> HIDE DEF place, fresh
<1>8. \A i \in fresh : f[i] = place(i)
  OBVIOUS
<1> HIDE DEF f
<1>9. f \in Injection(fresh, 1 .. n)
  BY <1>6, <1>7, <1>8 DEF Injection, IsInjective
<1>10. IsFiniteSet(1 .. n) /\ Cardinality(1 .. n) = n
  BY <1>3, FS_Interval
<1>11. f \in Surjection(fresh, 1 .. n)
  BY <1>9, <1>10, FS_Injection
<1>12. \A k \in 1 .. n : \E i \in fresh : place(i) = k
  BY <1>8, <1>11 DEF Surjection
<1>13. \A k \in 1 .. n : at(k) \in fresh /\ place(at(k)) = k
  BY <1>12
<1>14. \A i \in fresh : place(i) \in 1 .. n /\ at(place(i)) = i
  BY <1>5, <1>7
<1> HIDE DEF at, n
<1>15. \A i \in fresh : /\ i \in DOMAIN s /\ s[i].block \notin BlocksOf(lines)
                        /\ \A j \in 1 .. i - 1 : s[j].block # s[i].block
  BY DEF fresh
<1>16. \A i, j \in fresh : s[i].block = s[j].block => i = j
  <2> SUFFICES ASSUME NEW i \in fresh, NEW j \in fresh, s[i].block = s[j].block, i # j
               PROVE  FALSE
    OBVIOUS
  <2>1. i \in Nat \ {0} /\ j \in Nat \ {0}
    BY <1>2
  <2>2. i \in 1 .. j - 1 \/ j \in 1 .. i - 1
    BY <2>1
  <2> QED
    BY <1>15, <2>2
<1>17. more \in Seq(T) /\ DOMAIN more = 1 .. n
  BY <1>3, <1>13, <1>15
<1>18. \A k \in 1 .. n : more[k] = s[at(k)]
  OBVIOUS
<1> HIDE DEF more
<1>19. \A k \in DOMAIN more : \E i \in DOMAIN s : more[k] = s[i]
  BY <1>13, <1>15, <1>17, <1>18
<1>20. Distinct(more)
  <2> SUFFICES ASSUME NEW k \in 1 .. n, NEW l \in 1 .. n, more[k].block = more[l].block
               PROVE  k = l
    BY <1>17 DEF Distinct
  <2>1. at(k) = at(l)
    BY <1>13, <1>16, <1>18
  <2> QED
    BY <1>13, <2>1
<1>21. BlocksOf(more) \subseteq BlocksOf(s) \ BlocksOf(lines)
  BY <1>13, <1>15, <1>17, <1>18 DEF BlocksOf
<1>22. ASSUME NEW b \in BlocksOf(s), b \notin BlocksOf(lines)
       PROVE  b \in BlocksOf(more)
  <2> DEFINE of == {i \in DOMAIN s : s[i].block = b}
  <2>1. of \in SUBSET Nat /\ of # {}
    BY <1>22 DEF BlocksOf
  <2>2. PICK i \in of : \A k \in of : i <= k
    BY <2>1, SmallestOf
  <2>3. \A j \in 1 .. i - 1 : s[j].block # b
    BY <2>2
  <2>4. i \in fresh
    BY <1>22, <2>2, <2>3 DEF fresh
  <2> QED
    BY <1>14, <1>17, <1>18, <2>2, <2>4 DEF BlocksOf
<1> QED
  BY <1>1, <1>17, <1>19, <1>20, <1>21, <1>22

\* A todo of a file is the one of its line, and the line that is written back shows it.
LEMMA LineIs ==
  ASSUME NEW s \in Seq(Todo), NEW l \in Lines, NEW push \in BOOLEAN
  PROVE  /\ LineTodo(s, l, push) \in Todo
         /\ LineTodo(s, l, push).block = l.block
         /\ LineBack(s, l, push) \in Lines
         /\ Shows(LineBack(s, l, push), LineTodo(s, l, push))
         /\ push /\ l.block \in BlocksOf(s) =>
              /\ LineTodo(s, l, push) = LastOf(s, l.block)
              /\ LineBack(s, l, push) = Line(LastOf(s, l.block))
<1> DEFINE t == LineTodo(s, l, push)
<1>1. l.block \in Blocks /\ l.mark \in Statuses
  BY DEF Lines
<1>2. \A u \in Todo : Line(u) \in Lines /\ Shows(Line(u), u)
  BY DEF Todo, Line, Lines, Shows
<1>3. CASE l.block \in BlocksOf(s)
  <2>1. PICK i \in DOMAIN s : LastOf(s, l.block) = s[i] /\ s[i].block = l.block
    BY <1>3, LastIs
  <2> DEFINE u == LastOf(s, l.block)
  <2>2. u \in Todo /\ u.block = l.block
    BY <2>1
  <2> HIDE DEF u
  <2>3. [u EXCEPT !.status = l.mark] \in Todo /\ [u EXCEPT !.status = l.mark].block = l.block
    BY <1>1, <2>2 DEF Todo
  <2>4. t = IF push THEN u ELSE [u EXCEPT !.status = l.mark]
    BY <1>3 DEF LineTodo, u
  <2>5. LineBack(s, l, push) = Line(t)
    BY <1>3 DEF LineBack
  <2> HIDE DEF t
  <2>6. t \in Todo /\ t.block = l.block /\ (push => t = u)
    BY <2>2, <2>3, <2>4
  <2>7. LineBack(s, l, push) \in Lines /\ Shows(LineBack(s, l, push), t)
    BY <1>2, <2>5, <2>6
  <2> QED
    BY <2>5, <2>6, <2>7 DEF t, u
<1>4. CASE l.block \notin BlocksOf(s)
  <2>1. t = Triage(l.block, l.mark)
    BY <1>4 DEF LineTodo
  <2>2. /\ t.block = l.block /\ t.route = None
        /\ t.status = IF l.mark \in {"done", "in_progress", "awaiting_approval"} THEN l.mark
                      ELSE IF l.block \in Vague THEN "needs_clarification" ELSE "ready"
        /\ t \in Todo
    BY <1>1, <2>1 DEF Triage, Todo, Statuses
  <2>3. LineBack(s, l, push) = IF l.mark = "ready" THEN Line(t) ELSE l
    BY <1>4 DEF LineBack
  <2> HIDE DEF t
  <2>4. CASE l.mark = "ready"
    BY <1>2, <1>4, <2>2, <2>3, <2>4 DEF t
  <2>5. CASE l.mark # "ready"
    <3>1. Shows(l, t)
      BY <1>1, <2>2, <2>5 DEF Shows, Statuses
    <3> QED
      BY <1>4, <2>2, <2>3, <2>5, <3>1 DEF t
  <2> QED
    BY <2>4, <2>5
<1> QED
  BY <1>3, <1>4

\* The todo of that place has no other.
Only(s, i) == \A j \in DOMAIN s : s[j].block = s[i].block => j = i

\* What a file makes of a list: every todo and every line is there, in the same order
\* in both; once each if the file has one line per todo; and a push keeps a todo as it
\* is if it is listed once.
LEMMA SyncedIs ==
  ASSUME NEW s \in Seq(Todo), NEW lines, NEW push \in BOOLEAN,
         lines # NoFile => lines \in Seq(Lines)
  PROVE  LET r == Synced(s, lines, push) IN
         /\ r.list \in Seq(Todo) /\ r.lines \in Seq(Lines)
         /\ DOMAIN r.lines = DOMAIN r.list
         /\ \A i \in DOMAIN r.list : Shows(r.lines[i], r.list[i])
         /\ (IF lines = NoFile THEN Distinct(s) ELSE Distinct(lines)) => Distinct(r.list)
         /\ BlocksOf(r.list) = BlocksOf(s) \cup (IF lines = NoFile THEN {} ELSE BlocksOf(lines))
         /\ push => \A i \in DOMAIN s : Only(s, i) => \E j \in DOMAIN r.list : r.list[j] = s[i]
<1> DEFINE r == Synced(s, lines, push)
<1>0. \A u \in Todo : Line(u) \in Lines /\ Shows(Line(u), u)
  BY DEF Todo, Line, Lines, Shows
<1>1. ASSUME NEW u \in Seq(Todo)
      PROVE  /\ Listing(u) \in Seq(Lines) /\ DOMAIN Listing(u) = DOMAIN u
             /\ \A i \in DOMAIN u : Listing(u)[i] = Line(u[i])
  BY <1>0 DEF Listing
<1>2. CASE lines = NoFile
  <2>1. r.list = s /\ r.lines = Listing(s)
    BY <1>2 DEF Synced
  <2> QED
    BY <1>0, <1>1, <1>2, <2>1
<1>3. CASE lines # NoFile
  <2> DEFINE more == Unlisted(s, lines)
             todos == [i \in DOMAIN lines |-> LineTodo(s, lines[i], push)]
             back == [i \in DOMAIN lines |-> LineBack(s, lines[i], push)]
             n == Len(lines)
  <2>1. r.list = todos \o more /\ r.lines = back \o Listing(more)
    BY <1>3 DEF Synced
  <2>2. /\ more \in Seq(Todo)
        /\ \A k \in DOMAIN more : \E i \in DOMAIN s : more[k] = s[i]
        /\ Distinct(more)
        /\ BlocksOf(more) = BlocksOf(s) \ BlocksOf(lines)
    BY UnlistedIs
  <2>3. lines \in Seq(Lines)
    BY <1>3
  <2>4. ASSUME NEW i \in DOMAIN lines
        PROVE  /\ todos[i] \in Todo /\ todos[i].block = lines[i].block
               /\ back[i] \in Lines /\ Shows(back[i], todos[i])
               /\ push /\ lines[i].block \in BlocksOf(s) =>
                    /\ todos[i] = LastOf(s, lines[i].block)
                    /\ back[i] = Line(LastOf(s, lines[i].block))
    <3>1. lines[i] \in Lines
      BY <2>3
    <3> QED
      BY <3>1, LineIs
  <2>5. /\ todos \in Seq(Todo) /\ Len(todos) = n
        /\ back \in Seq(Lines) /\ Len(back) = n
    BY <2>3, <2>4
  <2>6. /\ Listing(more) \in Seq(Lines) /\ Len(Listing(more)) = Len(more)
        /\ \A k \in 1 .. Len(more) : Listing(more)[k] = Line(more[k])
    BY <1>1, <2>2
  <2>7. n \in Nat /\ Len(more) \in Nat /\ DOMAIN lines = 1 .. n /\ DOMAIN more = 1 .. Len(more)
    BY <2>2, <2>3
  <2> HIDE DEF more, todos, back, n, r
  <2> DEFINE m == Len(more)
  <2>15. m \in Nat /\ n \in Nat
    BY <2>7
  <2>8. /\ r.list \in Seq(Todo) /\ r.lines \in Seq(Lines)
        /\ DOMAIN r.list = 1 .. n + m /\ DOMAIN r.lines = 1 .. n + m
    <3>1. /\ r.list \in Seq(Todo) /\ r.lines \in Seq(Lines)
          /\ Len(r.list) = Len(todos) + m /\ Len(r.lines) = Len(back) + Len(Listing(more))
      BY <2>1, <2>2, <2>5, <2>6, ConcatProperties, ZenonT(60)
    <3>2. Len(r.list) = n + m /\ Len(r.lines) = n + m
      BY <2>5, <2>6, <3>1
    <3> QED
      BY <3>1, <3>2, LenProperties
  <2>9. /\ \A i \in 1 .. n : r.list[i] = todos[i] /\ r.lines[i] = back[i]
        /\ \A k \in 1 .. Len(more) : r.list[n + k] = more[k] /\ r.lines[n + k] = Line(more[k])
    BY <2>1, <2>2, <2>5, <2>6, <2>7, SMTT(30)
  <2>10. \A i \in DOMAIN r.list :
           \/ i \in 1 .. n
           \/ i - n \in 1 .. Len(more) /\ i = n + (i - n)
    BY <2>7, <2>8
  <2>11. \A i \in DOMAIN r.list : Shows(r.lines[i], r.list[i])
    <3> SUFFICES ASSUME NEW i \in DOMAIN r.list PROVE Shows(r.lines[i], r.list[i])
      OBVIOUS
    <3>1. CASE i \in 1 .. n
      BY <2>4, <2>7, <2>9, <3>1
    <3>2. CASE i - n \in 1 .. Len(more) /\ i = n + (i - n)
      <4>1. more[i - n] \in Todo
        BY <2>2, <2>7, <3>2
      <4>2. r.list[n + (i - n)] = more[i - n] /\ r.lines[n + (i - n)] = Line(more[i - n])
        BY <2>9, <3>2
      <4> QED
        BY <1>0, <3>2, <4>1, <4>2
    <3> QED
      BY <2>10, <3>1, <3>2
  <2>12. ASSUME Distinct(lines) PROVE Distinct(r.list)
    <3> SUFFICES ASSUME NEW i \in DOMAIN r.list, NEW j \in DOMAIN r.list,
                        r.list[i].block = r.list[j].block
                 PROVE  i = j
      BY DEF Distinct
    <3>1. \A k \in 1 .. n : r.list[k].block = lines[k].block /\ r.list[k].block \in BlocksOf(lines)
      BY <2>4, <2>7, <2>9 DEF BlocksOf
    <3>2. \A k \in 1 .. Len(more) : r.list[n + k] = more[k] /\ r.list[n + k].block \notin BlocksOf(lines)
      <4>1. \A k \in 1 .. Len(more) : more[k].block \in BlocksOf(more)
        BY <2>7 DEF BlocksOf
      <4> QED
        BY <2>2, <2>9, <4>1
    <3>3. CASE i \in 1 .. n /\ j \in 1 .. n
      BY <2>12, <2>7, <3>1, <3>3 DEF Distinct
    <3>4. CASE i - n \in 1 .. Len(more) /\ i = n + (i - n)
      <4>1. r.list[i] = more[i - n] /\ r.list[i].block \notin BlocksOf(lines)
        BY <3>2, <3>4
      <4>2. j - n \in 1 .. Len(more) /\ j = n + (j - n)
        BY <2>10, <3>1, <4>1
      <4>3. r.list[j] = more[j - n]
        BY <3>2, <4>2
      <4>4. i - n = j - n
        BY <2>2, <2>7, <3>4, <4>1, <4>2, <4>3 DEF Distinct
      <4> QED
        BY <3>4, <4>2, <4>4
    <3>5. CASE i \in 1 .. n /\ (j - n \in 1 .. Len(more) /\ j = n + (j - n))
      <4>1. r.list[j].block \notin BlocksOf(lines)
        BY <3>2, <3>5
      <4> QED
        BY <3>1, <3>5, <4>1
    <3> QED
      BY <2>10, <3>3, <3>4, <3>5
  <2>13. BlocksOf(r.list) = BlocksOf(s) \cup BlocksOf(lines)
    <3>1. ASSUME NEW i \in DOMAIN r.list
          PROVE  r.list[i].block \in BlocksOf(lines) \cup BlocksOf(more)
      <4>1. CASE i \in 1 .. n
        BY <2>4, <2>7, <2>9, <4>1 DEF BlocksOf
      <4>2. CASE i - n \in 1 .. Len(more) /\ i = n + (i - n)
        <5>1. r.list[n + (i - n)] = more[i - n]
          BY <2>9, <4>2
        <5> QED
          BY <2>7, <4>2, <5>1 DEF BlocksOf
      <4> QED
        BY <2>10, <4>1, <4>2
    <3>2. ASSUME NEW i \in DOMAIN lines
          PROVE  lines[i].block \in BlocksOf(r.list)
      <4>1. i \in 1 .. n
        BY <2>7
      <4>2. i \in DOMAIN r.list
        BY <2>8, <2>15, <4>1
      <4>3. r.list[i].block = lines[i].block
        BY <2>4, <2>9, <4>1
      <4> QED
        BY <4>2, <4>3 DEF BlocksOf
    <3>3. ASSUME NEW k \in DOMAIN more
          PROVE  more[k].block \in BlocksOf(r.list)
      <4>1. n + k \in DOMAIN r.list /\ r.list[n + k] = more[k]
        BY <2>7, <2>8, <2>9
      <4> QED
        BY <4>1 DEF BlocksOf
    <3>4. /\ BlocksOf(r.list) \subseteq BlocksOf(lines) \cup BlocksOf(more)
          /\ BlocksOf(lines) \subseteq BlocksOf(r.list)
          /\ BlocksOf(more) \subseteq BlocksOf(r.list)
      BY <3>1, <3>2, <3>3 DEF BlocksOf
    <3> QED
      BY <2>2, <3>4
  <2>14. ASSUME push, NEW i \in DOMAIN s, Only(s, i)
         PROVE  \E j \in DOMAIN r.list : r.list[j] = s[i]
    <3>1. s[i].block \in BlocksOf(s) /\ LastOf(s, s[i].block) = s[i]
      <4>1. s[i].block \in BlocksOf(s)
        BY DEF BlocksOf
      <4>2. PICK k \in DOMAIN s : LastOf(s, s[i].block) = s[k] /\ s[k].block = s[i].block
        BY <4>1, LastIs
      <4> QED
        BY <2>14, <4>1, <4>2 DEF Only
    <3>2. CASE s[i].block \in BlocksOf(lines)
      <4>1. PICK j \in DOMAIN lines : lines[j].block = s[i].block
        BY <3>2 DEF BlocksOf
      <4>2. todos[j] = s[i]
        BY <2>4, <2>14, <3>1, <4>1
      <4>3. j \in 1 .. n /\ j \in DOMAIN r.list
        BY <2>7, <2>8, <4>1
      <4> QED
        BY <2>9, <4>2, <4>3
    <3>3. CASE s[i].block \notin BlocksOf(lines)
      <4>0. s[i].block \in BlocksOf(more)
        BY <2>2, <3>1, <3>3
      <4>1. PICK k \in DOMAIN more : more[k].block = s[i].block
        BY <4>0 DEF BlocksOf
      <4>2. PICK l \in DOMAIN s : more[k] = s[l]
        BY <2>2
      <4>3. more[k] = s[i]
        BY <2>14, <4>1, <4>2 DEF Only
      <4>4. k \in 1 .. Len(more) /\ n + k \in DOMAIN r.list
        BY <2>7, <2>8
      <4> QED
        BY <2>9, <4>3, <4>4
    <3> QED
      BY <3>2, <3>3
  <2> QED
    BY <1>3, <2>8, <2>11, <2>12, <2>13, <2>14 DEF r
<1> QED
  BY <1>2, <1>3

\* Sequences that are put together, and one element of a sequence replaced.
LEMMA JoinIs ==
  ASSUME NEW T, NEW a \in Seq(T), NEW b \in Seq(T)
  PROVE  /\ a \o b \in Seq(T)
         /\ BlocksOf(a \o b) = BlocksOf(a) \cup BlocksOf(b)
         /\ Distinct(a) /\ Distinct(b) /\ BlocksOf(a) \cap BlocksOf(b) = {} => Distinct(a \o b)
<1> DEFINE s == a \o b
<1>1. PICK n \in Nat : n = Len(a) /\ DOMAIN a = 1 .. n
  OBVIOUS
<1>2. PICK m \in Nat : m = Len(b) /\ DOMAIN b = 1 .. m
  OBVIOUS
<1>3. /\ s \in Seq(T) /\ DOMAIN s = 1 .. n + m
      /\ \A i \in 1 .. n : s[i] = a[i]
      /\ \A i \in 1 .. m : s[n + i] = b[i]
  BY <1>1, <1>2
<1> HIDE DEF s
<1>4. \A i \in DOMAIN s : i \in 1 .. n \/ (i - n \in 1 .. m /\ i = n + (i - n))
  BY <1>3
<1>5. /\ \A i \in 1 .. n : i \in DOMAIN s
      /\ \A i \in 1 .. m : n + i \in DOMAIN s
  BY <1>3
<1>6. \A i \in DOMAIN s :
        \/ i \in DOMAIN a /\ s[i] = a[i] /\ s[i].block \in BlocksOf(a)
        \/ i - n \in DOMAIN b /\ i = n + (i - n) /\ s[i] = b[i - n] /\ s[i].block \in BlocksOf(b)
  <2> SUFFICES ASSUME NEW i \in DOMAIN s
               PROVE  \/ i \in DOMAIN a /\ s[i] = a[i] /\ s[i].block \in BlocksOf(a)
                      \/ i - n \in DOMAIN b /\ i = n + (i - n) /\ s[i] = b[i - n] /\ s[i].block \in BlocksOf(b)
    OBVIOUS
  <2>1. CASE i \in 1 .. n
    BY <1>1, <1>3, <2>1 DEF BlocksOf
  <2>2. CASE i - n \in 1 .. m /\ i = n + (i - n)
    <3>1. s[n + (i - n)] = b[i - n]
      BY <1>3, <2>2
    <3> QED
      BY <1>2, <2>2, <3>1 DEF BlocksOf
  <2> QED
    BY <1>4, <2>1, <2>2
<1>7. BlocksOf(s) = BlocksOf(a) \cup BlocksOf(b)
  <2>1. BlocksOf(s) \subseteq BlocksOf(a) \cup BlocksOf(b)
    BY <1>6 DEF BlocksOf
  <2>2. BlocksOf(a) \subseteq BlocksOf(s)
    BY <1>1, <1>3, <1>5 DEF BlocksOf
  <2>3. ASSUME NEW i \in DOMAIN b PROVE b[i].block \in BlocksOf(s)
    <3>1. n + i \in DOMAIN s /\ s[n + i] = b[i]
      BY <1>2, <1>3, <1>5
    <3> QED
      BY <3>1 DEF BlocksOf
  <2> QED
    BY <2>1, <2>2, <2>3 DEF BlocksOf
<1>8. ASSUME Distinct(a), Distinct(b), BlocksOf(a) \cap BlocksOf(b) = {}
      PROVE  Distinct(s)
  <2> SUFFICES ASSUME NEW i \in DOMAIN s, NEW j \in DOMAIN s, s[i].block = s[j].block
               PROVE  i = j
    BY DEF Distinct
  <2>1. CASE s[i].block \in BlocksOf(a)
    BY <1>6, <1>8, <2>1 DEF Distinct
  <2>2. CASE s[i].block \in BlocksOf(b)
    <3>1. /\ i - n \in DOMAIN b /\ i = n + (i - n) /\ s[i] = b[i - n]
          /\ j - n \in DOMAIN b /\ j = n + (j - n) /\ s[j] = b[j - n]
      BY <1>6, <1>8, <2>2
    <3>2. i - n = j - n
      BY <1>8, <3>1 DEF Distinct
    <3> QED
      BY <3>1, <3>2
  <2> QED
    BY <1>6, <2>1, <2>2
<1> QED
  BY <1>3, <1>7, <1>8 DEF s

LEMMA OneIs ==
  ASSUME NEW T, NEW t \in T
  PROVE  <<t>> \in Seq(T) /\ BlocksOf(<<t>>) = {t.block} /\ Distinct(<<t>>)
BY DEF BlocksOf, Distinct

\* One element of a sequence replaced.
LEMMA ReplaceIs ==
  ASSUME NEW T, NEW s \in Seq(T), NEW i \in DOMAIN s, NEW t \in T
  PROVE  LET u == [s EXCEPT ![i] = t] IN
         /\ u \in Seq(T) /\ DOMAIN u = DOMAIN s /\ u[i] = t
         /\ BlocksOf(u) \subseteq BlocksOf(s) \cup {t.block}
         /\ t.block = s[i].block => BlocksOf(u) = BlocksOf(s) /\ (Distinct(s) => Distinct(u))
<1> DEFINE u == [s EXCEPT ![i] = t]
<1>1. u \in Seq(T) /\ DOMAIN u = DOMAIN s /\ u[i] = t
  OBVIOUS
<1>2. \A j \in DOMAIN s : j # i => u[j] = s[j]
  OBVIOUS
<1> HIDE DEF u
<1> QED
  BY <1>1, <1>2 DEF BlocksOf, Distinct, u

\* The last element taken to the front.
LEMMA MovedIs ==
  ASSUME NEW T, NEW s \in Seq(T), Len(s) > 1
  PROVE  LET u == <<Last(s)>> \o Front(s) IN
         u \in Seq(T) /\ BlocksOf(u) = BlocksOf(s) /\ (Distinct(s) => Distinct(u))
<1>1. PICK n \in Nat : n = Len(s) /\ DOMAIN s = 1 .. n
  OBVIOUS
<1>2. /\ Front(s) \in Seq(T) /\ DOMAIN Front(s) = 1 .. n - 1
      /\ \A i \in 1 .. n - 1 : Front(s)[i] = s[i]
  BY <1>1 DEF Front
<1>3. Last(s) = s[n] /\ n \in DOMAIN s /\ Last(s) \in T
  BY <1>1 DEF Last
<1>4. \A i \in DOMAIN s : i \in 1 .. n - 1 \/ i = n
  BY <1>1
<1>5. \A i \in 1 .. n - 1 : i \in DOMAIN s /\ i # n
  BY <1>1
<1>6. BlocksOf(s) = {Last(s).block} \cup BlocksOf(Front(s))
  BY <1>2, <1>3, <1>4, <1>5 DEF BlocksOf
<1>7. Distinct(s) => Distinct(Front(s)) /\ Last(s).block \notin BlocksOf(Front(s))
  BY <1>2, <1>3, <1>5 DEF BlocksOf, Distinct
<1> HIDE DEF Last
<1>8. /\ <<Last(s)>> \in Seq(T) /\ BlocksOf(<<Last(s)>>) = {Last(s).block}
      /\ Distinct(<<Last(s)>>)
  BY <1>3, OneIs
<1> DEFINE a == <<Last(s)>>
           b == Front(s)
<1>9. a \in Seq(T) /\ b \in Seq(T)
  BY <1>2, <1>8
<1> HIDE DEF a, b
<1>10. /\ a \o b \in Seq(T) /\ BlocksOf(a \o b) = BlocksOf(a) \cup BlocksOf(b)
       /\ Distinct(a) /\ Distinct(b) /\ BlocksOf(a) \cap BlocksOf(b) = {} => Distinct(a \o b)
  BY <1>9, JoinIs
<1> QED
  BY <1>6, <1>7, <1>8, <1>10, Zenon DEF a, b
-----------------------------------------------------------------------------
(* What every state keeps                                                    *)

Items == Todo \cup {Hole}
GoodList(s, k) == s \in Seq(Items) /\ BlocksOf(s) \subseteq k \cup {None}
GoodFile(l, k) == l = NoFile \/ (l \in Seq(Lines) /\ BlocksOf(l) \subseteq k)

\* The lists, the files and what alignments have read of them name only todos that
\* somebody wrote; and no alignment goes on with a hole in its list.
StateInv ==
  /\ known \subseteq Blocks /\ upsets \in Nat
  /\ DOMAIN list = Hubs /\ \A h \in Hubs : GoodList(list[h], known)
  /\ eco \in [Hubs -> Files \cup {None}] /\ job \in [Hubs -> Job]
  /\ \A h \in Hubs : /\ GoodFile(job[h].lines, known)
                     /\ job[h].at = "align" => Hole \notin Range(list[h])
  /\ saved = Unparsable \/ GoodList(saved, known)
  /\ DOMAIN md = Files /\ \A f \in Files : GoodFile(md[f], known)

CallInv ==
  /\ CallsKept
  /\ \A c \in calls : /\ c.hub \in Hubs /\ c.at \in Nat \ {0} /\ c.route \in Providers
                      /\ c.todo \in Todo /\ c.todo.block \in known

\* Until a dispatch strays, nothing names a todo twice: no list, no file, and no copy
\* of a file that an alignment holds.
OnceInv ==
  ~strayed => /\ \A h \in Hubs : Distinct(list[h]) /\ Distinct(job[h].lines)
              /\ Distinct(saved) /\ \A f \in Files : Distinct(md[f])

\* The alignment after a dispatch finds the dispatched todo once, and pushes it; at
\* its end the todo is still listed as dispatched.
Recorded(s, j) ==
  j.todo # None /\ j.sure =>
    \E i \in DOMAIN s : s[i] = j.todo /\ (j.at # "save" => j.push /\ Only(s, i))
RecordInv == \A h \in Hubs : Recorded(list[h], job[h])

HubInv == StateInv /\ CallInv /\ OnceInv /\ RecordInv

LEMMA Empty ==
  /\ \A T : <<>> \in Seq(T)
  /\ Distinct(<<>>) /\ BlocksOf(<<>>) = {}
BY DEF Distinct, BlocksOf

LEMMA Placeholders ==
  /\ Distinct(NoFile) /\ Distinct(Unparsable)
  /\ NoJob \in Job /\ NoJob.lines = <<>> /\ NoJob.at = "idle" /\ NoJob.todo = None
  /\ Hole.block = None
BY DEF NoFile, Unparsable, NoJob, Job, Distinct, Files, Hole

LEMMA HubInitially == Init => HubInv
<1> SUFFICES ASSUME Init PROVE HubInv
  OBVIOUS
<1>1. \A h \in Hubs : list[h] = <<>> /\ job[h] = NoJob
  BY DEF Init
<1>2. StateInv
  <2>1. GoodList(<<>>, {}) /\ GoodFile(<<>>, {})
    BY Empty DEF GoodList, GoodFile
  <2>2. job \in [Hubs -> Job] /\ DOMAIN list = Hubs /\ DOMAIN md = Files
        /\ eco \in [Hubs -> Files \cup {None}]
    BY Placeholders DEF Init
  <2>3. \A f \in Files : GoodFile(md[f], known)
    BY DEF Init, GoodFile
  <2> QED
    BY <1>1, <2>1, <2>2, <2>3, Placeholders DEF Init, StateInv
<1>3. OnceInv
  BY <1>1, Empty, Placeholders DEF Init, OnceInv
<1>4. RecordInv
  BY <1>1, Placeholders DEF RecordInv, Recorded
<1> QED
  BY <1>2, <1>3, <1>4 DEF Init, HubInv, CallInv, CallsKept

\* More todos may be known than before.
LEMMA MoreKnown ==
  ASSUME NEW k, NEW l, k \subseteq l
  PROVE  /\ \A s : GoodList(s, k) => GoodList(s, l)
         /\ \A s : GoodFile(s, k) => GoodFile(s, l)
BY DEF GoodList, GoodFile

\* Dispatches that end, or go on as they were.
LEMMA CallsLeave ==
  ASSUME CallInv, calls' \subseteq calls, known \subseteq known'
  PROVE  CallInv'
BY DEF CallInv, CallsKept

\* The hubs whose list and job a step leaves alone.
LEMMA OthersKept ==
  ASSUME HubInv, NEW h \in Hubs, known \subseteq known', strayed => strayed',
         \A g \in Hubs \ {h} : list'[g] = list[g] /\ job'[g] = job[g]
  PROVE  \A g \in Hubs \ {h} :
           /\ GoodList(list'[g], known') /\ GoodFile(job'[g].lines, known')
           /\ job'[g].at = "align" => Hole \notin Range(list'[g])
           /\ ~strayed' => Distinct(list'[g]) /\ Distinct(job'[g].lines)
           /\ Recorded(list'[g], job'[g])
BY MoreKnown DEF HubInv, StateInv, OnceInv, RecordInv

-----------------------------------------------------------------------------
(* Operations                                                                *)

\* An operation that puts a list into memory keeps everything in order, if the list is.
LEMMA KeepStep ==
  ASSUME HubInv, NEW h \in Hubs, NEW s, NEW next, Keep(h, s, next),
         known \subseteq known', known' \subseteq Blocks, GoodList(s, known'),
         next \in Job, next.lines = <<>>, next.at = "read",
         strayed => strayed', ~strayed' => Distinct(s), Recorded(s, next)
  PROVE  /\ StateInv' /\ OnceInv' /\ RecordInv'
         /\ list'[h] = s /\ \A g \in Hubs \ {h} : list'[g] = list[g]
<1>1. /\ list' = [list EXCEPT ![h] = s] /\ job[h] = NoJob
      /\ eco' = eco /\ md' = md
  BY DEF Keep, Free
<1>2. /\ job' = job \/ \E x \in {next, NoJob} : job' = [job EXCEPT ![h] = x]
      /\ saved' \in {s, saved, Unparsable} /\ upsets' \in Nat
  BY DEF Keep, Upset, HubInv, StateInv
<1>3. DOMAIN list = Hubs /\ job \in [Hubs -> Job]
  BY DEF HubInv, StateInv
<1>4. /\ list'[h] = s /\ DOMAIN list' = Hubs
      /\ \A g \in Hubs \ {h} : list'[g] = list[g]
  BY <1>1, <1>3
<1>5. /\ job' \in [Hubs -> Job] /\ job'[h] \in {next, NoJob}
      /\ \A g \in Hubs \ {h} : job'[g] = job[g]
  BY <1>1, <1>2, <1>3, Placeholders
<1>6. \A g \in Hubs \ {h} :
        /\ GoodList(list'[g], known') /\ GoodFile(job'[g].lines, known')
        /\ job'[g].at = "align" => Hole \notin Range(list'[g])
        /\ ~strayed' => Distinct(list'[g]) /\ Distinct(job'[g].lines)
        /\ Recorded(list'[g], job'[g])
  BY <1>4, <1>5, OthersKept
<1>7. /\ job'[h].lines = <<>> /\ job'[h].at # "align"
      /\ GoodFile(job'[h].lines, known') /\ Distinct(job'[h].lines)
      /\ Recorded(s, job'[h])
  BY <1>5, Empty, Placeholders DEF GoodFile, Recorded
<1>8. /\ \A f \in Files : GoodFile(md'[f], known')
      /\ saved' = Unparsable \/ GoodList(saved', known')
  BY <1>1, <1>2, MoreKnown DEF HubInv, StateInv
<1>9. StateInv'
  <2>1. \A g \in Hubs : /\ GoodList(list'[g], known') /\ GoodFile(job'[g].lines, known')
                        /\ job'[g].at = "align" => Hole \notin Range(list'[g])
    BY <1>4, <1>6, <1>7
  <2>2. eco' \in [Hubs -> Files \cup {None}] /\ DOMAIN md' = Files
    BY <1>1 DEF HubInv, StateInv
  <2> QED
    BY <1>2, <1>4, <1>5, <1>8, <2>1, <2>2 DEF StateInv
<1>10. OnceInv'
  <2> SUFFICES ASSUME ~strayed'
               PROVE  /\ \A g \in Hubs : Distinct(list'[g]) /\ Distinct(job'[g].lines)
                      /\ Distinct(saved') /\ \A f \in Files : Distinct(md'[f])
    BY DEF OnceInv
  <2>1. Distinct(saved) /\ \A f \in Files : Distinct(md[f])
    BY DEF HubInv, OnceInv
  <2> QED
    BY <1>1, <1>2, <1>4, <1>6, <1>7, <2>1, Placeholders
<1>11. RecordInv'
  BY <1>4, <1>6, <1>7 DEF RecordInv
<1> QED
  BY <1>4, <1>9, <1>10, <1>11

\* What an alignment starts from.
LEMMA ActiveIs ==
  ASSUME HubInv, NEW h \in Hubs
  PROVE  Active(h) \in Files
BY DEF Active, Files, HubInv, StateInv

LEMMA AligningIs ==
  ASSUME NEW f \in Files, NEW push \in BOOLEAN, NEW todo \in Todo \cup {None},
         NEW sure \in BOOLEAN
  PROVE  LET j == Aligning(f, push, todo, sure) IN
         /\ j \in Job /\ j.lines = <<>> /\ j.at = "read"
         /\ j.push = push /\ j.todo = todo /\ j.sure = sure
<1>1. <<>> \in Seq(Lines)
  BY Empty
<1> QED
  BY <1>1 DEF Aligning, Job

\* A new todo is of no list and of no file.
LEMMA IngestStep ==
  ASSUME HubInv, NEW h \in Hubs, Ingest(h)
  PROVE  HubInv' /\ BlocksOf(list[h]) \subseteq BlocksOf(list'[h])
         /\ \A g \in Hubs \ {h} : list'[g] = list[g]
<1>1. PICK b \in Blocks \ known :
        /\ known' = known \cup {b}
        /\ Keep(h, <<Triage(b, "ready")>> \o list[h], Aligning(Active(h), TRUE, None, FALSE))
  BY DEF Ingest
<1> DEFINE t == Triage(b, "ready")
           a == <<t>>
           s == a \o list[h]
           next == Aligning(Active(h), TRUE, None, FALSE)
<1>2. t \in Items /\ t.block = b
  BY DEF Triage, Todo, Statuses, Items
<1> HIDE DEF t
<1>3. list[h] \in Seq(Items) /\ BlocksOf(list[h]) \subseteq known \cup {None}
  BY DEF HubInv, StateInv, GoodList
<1>4. a \in Seq(Items) /\ BlocksOf(a) = {b} /\ Distinct(a)
  BY <1>2, OneIs
<1> HIDE DEF a
<1>5. b # None
  BY HubAssumption
<1>6. /\ s \in Seq(Items) /\ BlocksOf(s) = {b} \cup BlocksOf(list[h])
      /\ Distinct(list[h]) => Distinct(s)
  <2>1. BlocksOf(a) \cap BlocksOf(list[h]) = {}
    BY <1>3, <1>4, <1>5
  <2>2. /\ a \o list[h] \in Seq(Items) /\ BlocksOf(a \o list[h]) = BlocksOf(a) \cup BlocksOf(list[h])
        /\ Distinct(list[h]) => Distinct(a \o list[h])
    BY <1>3, <1>4, <2>1, JoinIs
  <2> QED
    BY <1>4, <2>2, Zenon
<1> HIDE DEF s
<1>7. GoodList(s, known') /\ known \subseteq known' /\ known' \subseteq Blocks
  BY <1>1, <1>3, <1>6 DEF GoodList, HubInv, StateInv
<1>8. next \in Job /\ next.lines = <<>> /\ next.at = "read" /\ next.todo = None
  <2>1. Active(h) \in Files /\ TRUE \in BOOLEAN /\ FALSE \in BOOLEAN /\ None \in Todo \cup {None}
    BY ActiveIs
  <2> QED
    BY <2>1, AligningIs, Zenon
<1> HIDE DEF next
<1>9. Keep(h, s, next) /\ strayed' = strayed /\ calls' = calls
  BY <1>1 DEF Ingest, s, a, t, next
<1>10. ~strayed' => Distinct(s)
  BY <1>6, <1>9 DEF HubInv, OnceInv
<1>11. Recorded(s, next)
  BY <1>8 DEF Recorded
<1>12. /\ StateInv' /\ OnceInv' /\ RecordInv'
       /\ list'[h] = s /\ \A g \in Hubs \ {h} : list'[g] = list[g]
  BY <1>7, <1>8, <1>9, <1>10, <1>11, KeepStep, Zenon
<1>13. CallInv'
  BY <1>7, <1>9, CallsLeave DEF HubInv
<1> QED
  BY <1>6, <1>12, <1>13 DEF HubInv

\* The answers change a status, of a todo that the list has.
LEMMA ClarifyStep ==
  ASSUME HubInv, NEW h \in Hubs, NEW b \in Blocks, Clarify(h, b)
  PROVE  HubInv' /\ BlocksOf(list[h]) \subseteq BlocksOf(list'[h])
         /\ \A g \in Hubs \ {h} : list'[g] = list[g]
<1>1. PICK status \in {"ready", "needs_clarification"} :
        Keep(h, [list[h] EXCEPT ![First(list[h], b)].status = status],
             Aligning(Active(h), TRUE, None, FALSE))
  BY DEF Clarify
<1> DEFINE i == First(list[h], b)
           t == [list[h][i] EXCEPT !.status = status]
           s == [list[h] EXCEPT ![i] = t]
           next == Aligning(Active(h), TRUE, None, FALSE)
<1>2. list[h] \in Seq(Items) /\ BlocksOf(list[h]) \subseteq known \cup {None}
  BY DEF HubInv, StateInv, GoodList
<1>3. i \in DOMAIN list[h] /\ list[h][i].block = b
  BY <1>2, FirstIs DEF Clarify, Found
<1> HIDE DEF i
<1>4. list[h][i] \in Todo
  <2>1. list[h][i] \in Items
    BY <1>2, <1>3
  <2>2. b # None
    BY HubAssumption
  <2> QED
    BY <1>3, <2>1, <2>2, Placeholders DEF Items
<1>5. t \in Items /\ t.block = list[h][i].block
  BY <1>4 DEF Todo, Statuses, Items
<1>6. [list[h] EXCEPT ![i].status = status] = s
  BY <1>2, <1>3
<1> HIDE DEF t
<1>7. /\ s \in Seq(Items) /\ BlocksOf(s) = BlocksOf(list[h])
      /\ Distinct(list[h]) => Distinct(s)
  BY <1>2, <1>3, <1>5, ReplaceIs
<1> HIDE DEF s
<1>8. /\ known' = known /\ strayed' = strayed /\ calls' = calls
      /\ GoodList(s, known') /\ known' \subseteq Blocks
  BY <1>2, <1>7 DEF Clarify, GoodList, HubInv, StateInv
<1>9. next \in Job /\ next.lines = <<>> /\ next.at = "read" /\ next.todo = None
  <2>1. Active(h) \in Files /\ TRUE \in BOOLEAN /\ FALSE \in BOOLEAN /\ None \in Todo \cup {None}
    BY ActiveIs
  <2> QED
    BY <2>1, AligningIs, Zenon
<1> HIDE DEF next
<1>10. Keep(h, s, next)
  BY <1>1, <1>6 DEF i, next
<1>11. (~strayed' => Distinct(s)) /\ Recorded(s, next)
  BY <1>7, <1>8, <1>9 DEF HubInv, OnceInv, Recorded
<1>12. /\ StateInv' /\ OnceInv' /\ RecordInv'
       /\ list'[h] = s /\ \A g \in Hubs \ {h} : list'[g] = list[g]
  BY <1>8, <1>9, <1>10, <1>11, KeepStep, Zenon
<1>13. CallInv'
  BY <1>8, CallsLeave DEF HubInv
<1> QED
  BY <1>7, <1>12, <1>13 DEF HubInv

\* What an assignment to an index leaves of a list: all but the todo that was there,
\* and perhaps holes.
LEMMA PutIs ==
  ASSUME NEW s \in Seq(Items), NEW i \in Nat \ {0}, NEW t \in Items
  PROVE  LET u == Put(s, i, t) IN
         /\ u \in Seq(Items) /\ DOMAIN s \subseteq DOMAIN u /\ i \in DOMAIN u /\ u[i] = t
         /\ \A j \in DOMAIN s : j # i => u[j] = s[j]
         /\ BlocksOf(u) \subseteq BlocksOf(s) \cup {t.block, None}
         /\ i \in DOMAIN s => DOMAIN u = DOMAIN s
<1> DEFINE n == Len(s)
<1>0. PICK m \in Nat : m >= n /\ m >= i /\ m \in {n, i}
  OBVIOUS
<1> DEFINE u == [j \in 1 .. m |-> IF j = i THEN t ELSE IF j \in 1 .. n THEN s[j] ELSE Hole]
<1>1. n \in Nat /\ DOMAIN s = 1 .. n
  OBVIOUS
<1> HIDE DEF n
<1>2. DOMAIN s \cup 1 .. i = 1 .. m
  BY <1>0, <1>1
<1>3. Put(s, i, t) = u
  BY <1>1, <1>2 DEF Put
<1>4. \A j \in 1 .. m : u[j] \in Items
  BY <1>1 DEF Items
<1>5. u \in Seq(Items)
  <2>1. u \in [1 .. m -> Items]
    BY <1>4
  <2> HIDE DEF u
  <2> QED
    BY <2>1
<1>6. /\ DOMAIN u = 1 .. m /\ i \in 1 .. m /\ 1 .. n \subseteq 1 .. m
      /\ i \in 1 .. n => m = n
  BY <1>0, <1>1
<1>7. \A j \in 1 .. m : u[j] = t \/ u[j] = Hole \/ (j \in DOMAIN s /\ u[j] = s[j])
  BY <1>1
<1>8. u[i] = t /\ \A j \in 1 .. n : j # i => u[j] = s[j]
  BY <1>6
<1> HIDE DEF u
<1>9. BlocksOf(u) \subseteq BlocksOf(s) \cup {t.block, None}
  BY <1>6, <1>7, Placeholders DEF BlocksOf
<1> QED
  BY <1>1, <1>3, <1>5, <1>6, <1>8, <1>9

\* A dispatch that ends finds a record of its own, and forgets at most the todo at the
\* place it found before; and not even that if the place is its todo's still.
LEMMA DispatchEndsStep ==
  ASSUME HubInv, NEW c \in calls, DispatchEnds(c)
  PROVE  /\ HubInv' /\ c.hub \in Hubs /\ c \in calls \ calls'
         /\ \A g \in Hubs \ {c.hub} : list'[g] = list[g]
         /\ \A b \in BlocksOf(list[c.hub]) \ BlocksOf(list'[c.hub]) :
              strayed' /\ c.at \in DOMAIN list[c.hub] /\ list[c.hub][c.at].block = b
<1> DEFINE h == c.hub
           t == Dispatched(c)
           s == Put(list[h], c.at, t)
           next == Aligning(Active(h), TRUE, t, Sure(c))
<1>1. /\ h \in Hubs /\ c.at \in Nat \ {0} /\ c.route \in Providers
      /\ c.todo \in Todo /\ c.todo.block \in known
  BY DEF HubInv, CallInv
<1>2. /\ list[h] \in Seq(Items) /\ BlocksOf(list[h]) \subseteq known \cup {None}
      /\ known \subseteq Blocks
  BY <1>1 DEF HubInv, StateInv, GoodList
<1>3. t \in Todo /\ t \in Items /\ t.block = c.todo.block
  BY <1>1 DEF Dispatched, Todo, Statuses, Items
<1> HIDE DEF t
<1>4. /\ s \in Seq(Items) /\ DOMAIN list[h] \subseteq DOMAIN s /\ c.at \in DOMAIN s /\ s[c.at] = t
      /\ \A j \in DOMAIN list[h] : j # c.at => s[j] = list[h][j]
      /\ BlocksOf(s) \subseteq BlocksOf(list[h]) \cup {t.block, None}
      /\ c.at \in DOMAIN list[h] => DOMAIN s = DOMAIN list[h]
  BY <1>1, <1>2, <1>3, PutIs
<1> HIDE DEF s
<1>5. Sure(c) \in BOOLEAN
  BY DEF Sure
<1>6. /\ next \in Job /\ next.lines = <<>> /\ next.at = "read"
      /\ next.push /\ next.todo = t /\ next.sure = Sure(c)
  <2>1. Active(h) \in Files /\ TRUE \in BOOLEAN /\ t \in Todo \cup {None}
    BY <1>1, <1>3, ActiveIs
  <2> QED
    BY <1>5, <2>1, AligningIs, Zenon
<1> HIDE DEF next
<1>7. /\ Keep(h, s, next) /\ known' = known /\ c \in calls /\ calls' = calls \ {c}
  BY DEF DispatchEnds, h, t, s, next
<1>8. strayed' = (strayed \/ ~Sure(c))
  BY DEF DispatchEnds
<1>9. GoodList(s, known') /\ known' \subseteq Blocks /\ known \subseteq known'
  BY <1>1, <1>2, <1>3, <1>4, <1>7 DEF GoodList
<1>10. ASSUME Sure(c)
       PROVE  /\ c.at \in DOMAIN list[h] /\ list[h][c.at].block = t.block
              /\ \A j \in DOMAIN list[h] : list[h][j].block = t.block => j = c.at
              /\ Only(s, c.at)
  BY <1>3, <1>4, <1>10 DEF Sure, Only
<1>11. ~strayed' => Distinct(s)
  <2> SUFFICES ASSUME ~strayed, Sure(c) PROVE Distinct(s)
    BY <1>8
  <2>1. Distinct(list[h])
    BY <1>1 DEF HubInv, OnceInv
  <2> QED
    BY <1>4, <1>10, <2>1 DEF Distinct
<1>12. Recorded(s, next)
  BY <1>4, <1>6, <1>10 DEF Recorded
<1>13. strayed => strayed'
  BY <1>8
<1>14. /\ StateInv' /\ OnceInv' /\ RecordInv'
       /\ list'[h] = s /\ \A g \in Hubs \ {h} : list'[g] = list[g]
  BY <1>1, <1>6, <1>7, <1>9, <1>11, <1>12, <1>13, KeepStep
<1>15. CallInv'
  BY <1>7, CallsLeave DEF HubInv
<1>16. ASSUME NEW b \in BlocksOf(list[h]) \ BlocksOf(s)
       PROVE  strayed' /\ c.at \in DOMAIN list[h] /\ list[h][c.at].block = b
  <2>1. PICK j \in DOMAIN list[h] : list[h][j].block = b
    BY DEF BlocksOf
  <2>2. j \in DOMAIN s /\ s[j].block # b
    BY <1>4 DEF BlocksOf
  <2>3. j = c.at
    BY <1>4, <2>1, <2>2
  <2>4. ~Sure(c)
    BY <1>4, <1>10, <2>1, <2>2, <2>3
  <2> QED
    BY <1>8, <2>1, <2>3, <2>4
<1> QED
  BY <1>1, <1>7, <1>14, <1>15, <1>16 DEF HubInv

-----------------------------------------------------------------------------
(* Alignments                                                                *)

\* What a controller remembers of its alignment, when it changes.
JobFits(j, s) ==
  /\ j \in Job /\ GoodFile(j.lines, known')
  /\ j.at = "align" => Hole \notin Range(s)
  /\ ~strayed' => Distinct(j.lines)
  /\ Recorded(s, j)

LEMMA NoJobFits == \A s : JobFits(NoJob, s)
BY Empty, Placeholders DEF JobFits, GoodFile, Recorded

\* A step that leaves the lists alone keeps everything in order if the alignments and
\* the files are.
LEMMA FilesStep ==
  ASSUME HubInv, list' = list, known \subseteq known', known' \subseteq Blocks,
         strayed' = strayed, calls' \subseteq calls, upsets' \in Nat,
         eco' \in [Hubs -> Files \cup {None}],
         job' = job \/ \E h \in Hubs : \E j : job' = [job EXCEPT ![h] = j] /\ JobFits(j, list[h]),
         saved' = Unparsable \/ GoodList(saved', known'), ~strayed => Distinct(saved'),
         DOMAIN md' = Files, \A f \in Files : GoodFile(md'[f], known'),
         ~strayed => \A f \in Files : Distinct(md'[f])
  PROVE  HubInv'
<1>1. job \in [Hubs -> Job] /\ DOMAIN list = Hubs
  BY DEF HubInv, StateInv
<1>2. \A g \in Hubs : job'[g] = job[g] => JobFits(job'[g], list'[g])
  BY <1>1, MoreKnown DEF HubInv, StateInv, OnceInv, RecordInv, JobFits
<1>3. \A g \in Hubs : JobFits(job'[g], list'[g])
  <2>1. CASE job' = job
    BY <1>2, <2>1
  <2>2. CASE \E h \in Hubs : \E j : job' = [job EXCEPT ![h] = j] /\ JobFits(j, list[h])
    BY <1>1, <1>2, <2>2
  <2> QED
    BY <2>1, <2>2
<1>4. job' \in [Hubs -> Job]
  BY <1>1, <1>3 DEF JobFits
<1>5. \A g \in Hubs : GoodList(list'[g], known')
  BY MoreKnown DEF HubInv, StateInv
<1>6. StateInv'
  BY <1>1, <1>3, <1>4, <1>5 DEF StateInv, JobFits
<1>7. OnceInv'
  BY <1>3 DEF HubInv, OnceInv, JobFits
<1>8. RecordInv'
  BY <1>3 DEF RecordInv, JobFits
<1>9. CallInv'
  BY CallsLeave DEF HubInv
<1> QED
  BY <1>6, <1>7, <1>8, <1>9 DEF HubInv

\* What stays in order when it is left alone.
LEMMA Kept ==
  ASSUME HubInv, known' = known, strayed' = strayed
  PROVE  /\ known \subseteq known' /\ known' \subseteq Blocks
         /\ saved' = saved => (saved' = Unparsable \/ GoodList(saved', known')) /\ (~strayed => Distinct(saved'))
         /\ md' = md => /\ DOMAIN md' = Files /\ \A f \in Files : GoodFile(md'[f], known')
                        /\ ~strayed => \A f \in Files : Distinct(md'[f])
         /\ eco' = eco => eco' \in [Hubs -> Files \cup {None}]
         /\ upsets' = upsets \/ upsets' = upsets + 1 => upsets' \in Nat
BY DEF HubInv, StateInv, OnceInv

LEMMA SyncStep ==
  ASSUME HubInv, NEW h \in Hubs, Sync(h)
  PROVE  HubInv' /\ list' = list
<1> DEFINE j == Aligning(Active(h), FALSE, None, FALSE)
<1>1. j \in Job /\ j.lines = <<>> /\ j.at = "read" /\ j.todo = None
  <2>1. Active(h) \in Files /\ FALSE \in BOOLEAN /\ None \in Todo \cup {None}
    BY ActiveIs
  <2> QED
    BY <2>1, AligningIs, Zenon
<1>2. JobFits(j, list[h])
  BY <1>1, Empty DEF JobFits, GoodFile, Recorded
<1> HIDE DEF j
<1>3. job' = [job EXCEPT ![h] = j]
  BY DEF Sync, j
<1> QED
  BY <1>2, <1>3, Kept, FilesStep DEF Sync, disk

LEMMA OverviewStep ==
  ASSUME HubInv, NEW h \in Hubs, Overview(h)
  PROVE  HubInv' /\ list' = list
<1>0. eco \in [Hubs -> Files \cup {None}]
  BY DEF HubInv, StateInv
<1>1. PICK f \in {IF md["vault"] = NoFile THEN "root" ELSE "vault"} \cup ({eco[h]} \ {None}),
           auto \in AutoSync :
        /\ eco' = [eco EXCEPT ![h] = f]
        /\ job' = [job EXCEPT ![h] = IF auto THEN Aligning(f, FALSE, None, FALSE) ELSE @]
  BY DEF Overview
<1>2. f \in Files
  BY <1>0, <1>1 DEF Files
<1> DEFINE j == Aligning(f, FALSE, None, FALSE)
<1>3. j \in Job /\ j.lines = <<>> /\ j.at = "read" /\ j.todo = None
  <2>1. FALSE \in BOOLEAN /\ None \in Todo \cup {None}
    OBVIOUS
  <2> QED
    BY <1>2, <2>1, AligningIs, Zenon
<1>4. JobFits(j, list[h])
  BY <1>3, Empty DEF JobFits, GoodFile, Recorded
<1> HIDE DEF j
<1>5. job' = job \/ job' = [job EXCEPT ![h] = j]
  BY <1>1 DEF j, HubInv, StateInv
<1>6. eco' \in [Hubs -> Files \cup {None}]
  BY <1>0, <1>1, <1>2
<1> QED
  BY <1>4, <1>5, <1>6, Kept, FilesStep DEF Overview, disk

\* An alignment that only goes on to save.
LEMMA GoesOn ==
  ASSUME HubInv, NEW h \in Hubs, known' = known, strayed' = strayed
  PROVE  /\ job[h] \in Job /\ JobFits([job[h] EXCEPT !.at = "save"], list[h])
         /\ NowAt(h, "save") = [job EXCEPT ![h] = [job[h] EXCEPT !.at = "save"]]
<1> DEFINE j == [job[h] EXCEPT !.at = "save"]
<1>1. job[h] \in Job
  BY DEF HubInv, StateInv
<1>2. /\ j \in Job /\ j.at = "save" /\ j.lines = job[h].lines
      /\ j.todo = job[h].todo /\ j.sure = job[h].sure
  BY <1>1 DEF Job
<1>3. NowAt(h, "save") = [job EXCEPT ![h] = j]
  BY DEF NowAt, HubInv, StateInv
<1> HIDE DEF j
<1>4. Recorded(list[h], j)
  BY <1>2 DEF HubInv, RecordInv, Recorded
<1>5. JobFits(j, list[h])
  BY <1>2, <1>4 DEF JobFits, HubInv, StateInv, OnceInv
<1> QED
  BY <1>1, <1>3, <1>5 DEF j

LEMMA ReadStep ==
  ASSUME HubInv, NEW h \in Hubs, Read(h) \/ ReadFails(h)
  PROVE  HubInv' /\ list' = list
<1>1. /\ list' = list /\ eco' = eco /\ saved' = saved /\ md' = md /\ calls' = calls
      /\ known' = known /\ strayed' = strayed /\ job[h].at = "read"
      /\ upsets' = upsets \/ upsets' = upsets + 1
  BY DEF Read, ReadFails, Upset, disk
<1>2. CASE Read(h)
  <2>1. PICK lines \in {md[job[h].file], <<>>} :
          job' = IF Hole \in Range(list[h]) THEN Done(h)
                 ELSE [job EXCEPT ![h].at = "align", ![h].lines = lines]
    BY <1>2 DEF Read
  <2> DEFINE j == [job[h] EXCEPT !.at = "align", !.lines = lines]
  <2>2. job[h] \in Job /\ job \in [Hubs -> Job]
    BY DEF HubInv, StateInv
  <2>3. GoodFile(lines, known) /\ (~strayed => Distinct(lines))
    <3>1. job[h].file \in Files
      BY <2>2 DEF Job
    <3> QED
      BY <3>1, Empty DEF GoodFile, HubInv, StateInv, OnceInv
  <2>4. lines \in Seq(Lines) \cup {NoFile}
    BY <2>3 DEF GoodFile
  <2>5. /\ j \in Job /\ j.at = "align" /\ j.lines = lines
        /\ j.todo = job[h].todo /\ j.sure = job[h].sure /\ j.push = job[h].push
    BY <2>2, <2>4 DEF Job
  <2>6. Hole \notin Range(list[h]) => job' = [job EXCEPT ![h] = j]
    BY <2>1, <2>2
  <2> HIDE DEF j
  <2>7. Recorded(list[h], j)
    BY <1>1, <2>5 DEF HubInv, RecordInv, Recorded
  <2>8. CASE Hole \notin Range(list[h])
    <3>1. JobFits(j, list[h])
      BY <1>1, <2>3, <2>5, <2>7, <2>8 DEF JobFits
    <3> QED
      BY <1>1, <2>6, <2>8, <3>1, Kept, FilesStep
  <2>9. CASE Hole \in Range(list[h])
    <3>1. job' = [job EXCEPT ![h] = NoJob]
      BY <2>1, <2>9 DEF Done
    <3> QED
      BY <1>1, <3>1, NoJobFits, Kept, FilesStep
  <2> QED
    BY <2>8, <2>9
<1>3. CASE ReadFails(h)
  <2>1. job' = NowAt(h, "save")
    BY <1>3 DEF ReadFails
  <2> QED
    BY <1>1, <2>1, GoesOn, Kept, FilesStep
<1> QED
  BY <1>2, <1>3

\* The list and the lines of an alignment show the same todos.
LEMMA AlignIs ==
  ASSUME HubInv, NEW h \in Hubs, Align(h)
  PROVE  LET f == job[h].file
             r == Synced(list[h], job[h].lines, job[h].push) IN
         /\ f \in Files /\ list' = [list EXCEPT ![h] = r.list] /\ list'[h] = r.list
         /\ md' = md \/ md' = [md EXCEPT ![f] = r.lines]
         /\ r.list \in Seq(Todo) /\ r.lines \in Seq(Lines)
         /\ DOMAIN r.lines = DOMAIN r.list
         /\ \A i \in DOMAIN r.list : Shows(r.lines[i], r.list[i])
         /\ BlocksOf(r.lines) = BlocksOf(r.list)
         /\ BlocksOf(list[h]) \subseteq BlocksOf(r.list) /\ BlocksOf(r.list) \subseteq known
         /\ ~strayed => Distinct(r.list) /\ Distinct(r.lines)
         /\ job[h].push => \A i \in DOMAIN list[h] : Only(list[h], i) =>
                              \E j \in DOMAIN r.list : r.list[j] = list[h][i]
<1> DEFINE r == Synced(list[h], job[h].lines, job[h].push)
           lines == job[h].lines
           push == job[h].push
<1>1. job[h] \in Job /\ DOMAIN list = Hubs /\ job[h].at = "align"
  BY DEF HubInv, StateInv, Align
<1>2. job[h].file \in Files /\ push \in BOOLEAN /\ (lines # NoFile => lines \in Seq(Lines))
  BY <1>1 DEF Job
<1>3. list[h] \in Seq(Todo) /\ BlocksOf(list[h]) \subseteq known
  <2>1. list[h] \in Seq(Items) /\ Hole \notin Range(list[h]) /\ BlocksOf(list[h]) \subseteq known \cup {None}
    BY <1>1 DEF HubInv, StateInv, GoodList
  <2>2. \A i \in DOMAIN list[h] : list[h][i] \in Todo
    BY <2>1 DEF Items, Range
  <2>3. list[h] \in Seq(Todo)
    BY <2>1, <2>2
  <2>4. None \notin BlocksOf(list[h])
    BY <2>2, HubAssumption DEF BlocksOf, Todo
  <2> QED
    BY <2>1, <2>3, <2>4
<1> HIDE DEF push, lines
<1>4. /\ r.list \in Seq(Todo) /\ r.lines \in Seq(Lines)
      /\ DOMAIN r.lines = DOMAIN r.list
      /\ \A i \in DOMAIN r.list : Shows(r.lines[i], r.list[i])
      /\ (IF lines = NoFile THEN Distinct(list[h]) ELSE Distinct(lines)) => Distinct(r.list)
      /\ BlocksOf(r.list) = BlocksOf(list[h]) \cup (IF lines = NoFile THEN {} ELSE BlocksOf(lines))
      /\ push => \A i \in DOMAIN list[h] : Only(list[h], i) =>
                   \E j \in DOMAIN r.list : r.list[j] = list[h][i]
  BY <1>2, <1>3, SyncedIs, Zenon DEF push, lines
<1>5. /\ list' = [list EXCEPT ![h] = r.list] /\ list'[h] = r.list
      /\ md' = md \/ md' = [md EXCEPT ![job[h].file] = r.lines]
  BY <1>1 DEF Align
<1> HIDE DEF r
<1>6. BlocksOf(r.lines) = BlocksOf(r.list) /\ (Distinct(r.list) => Distinct(r.lines))
  BY <1>4, SMTT(30) DEF BlocksOf, Distinct, Shows
<1>7. BlocksOf(r.list) \subseteq known
  <2>1. lines = NoFile \/ BlocksOf(lines) \subseteq known
    BY <1>1 DEF HubInv, StateInv, GoodFile, lines
  <2> QED
    BY <1>3, <1>4, <2>1
<1>8. ~strayed => Distinct(r.list)
  BY <1>4 DEF HubInv, OnceInv, lines
<1> QED
  BY <1>2, <1>4, <1>5, <1>6, <1>7, <1>8 DEF r, push

LEMMA AlignStep ==
  ASSUME HubInv, NEW h \in Hubs, Align(h)
  PROVE  HubInv' /\ BlocksOf(list[h]) \subseteq BlocksOf(list'[h])
         /\ \A g \in Hubs \ {h} : list'[g] = list[g]
<1> DEFINE f == job[h].file
           r == Synced(list[h], job[h].lines, job[h].push)
           j == [job[h] EXCEPT !.at = "save"]
<1>1. /\ f \in Files /\ list' = [list EXCEPT ![h] = r.list] /\ list'[h] = r.list
      /\ md' = md \/ md' = [md EXCEPT ![f] = r.lines]
      /\ r.list \in Seq(Todo) /\ r.lines \in Seq(Lines)
      /\ BlocksOf(r.lines) = BlocksOf(r.list)
      /\ BlocksOf(list[h]) \subseteq BlocksOf(r.list) /\ BlocksOf(r.list) \subseteq known
      /\ ~strayed => Distinct(r.list) /\ Distinct(r.lines)
      /\ job[h].push => \A i \in DOMAIN list[h] : Only(list[h], i) =>
                           \E k \in DOMAIN r.list : r.list[k] = list[h][i]
  BY AlignIs, Zenon
<1> HIDE DEF r, f
<1>2. /\ job[h].at = "align" /\ job' = NowAt(h, "save") /\ eco' = eco /\ saved' = saved
      /\ calls' = calls /\ known' = known /\ strayed' = strayed /\ upsets' = upsets
  BY DEF Align
<1>3. /\ DOMAIN list = Hubs /\ DOMAIN md = Files /\ job \in [Hubs -> Job] /\ job[h] \in Job
  BY DEF HubInv, StateInv
<1>4. JobFits(j, list[h]) /\ job' = [job EXCEPT ![h] = j]
  BY <1>2, GoesOn
<1>5. j.at = "save" /\ j.todo = job[h].todo /\ j.sure = job[h].sure /\ j \in Job
  BY <1>3 DEF Job
<1> HIDE DEF j
<1>6. /\ DOMAIN list' = Hubs /\ \A g \in Hubs \ {h} : list'[g] = list[g]
      /\ job'[h] = j /\ \A g \in Hubs \ {h} : job'[g] = job[g]
      /\ job' \in [Hubs -> Job]
  BY <1>1, <1>3, <1>4, <1>5
<1>7. GoodList(r.list, known')
  <2>1. r.list \in Seq(Items)
    BY <1>1 DEF Items
  <2> QED
    BY <1>1, <1>2, <2>1 DEF GoodList
<1>8. Recorded(r.list, j)
  <2> SUFFICES ASSUME job[h].todo # None, job[h].sure
               PROVE  \E k \in DOMAIN r.list : r.list[k] = job[h].todo
    BY <1>5 DEF Recorded
  <2>1. PICK i \in DOMAIN list[h] : list[h][i] = job[h].todo /\ job[h].push /\ Only(list[h], i)
    BY <1>2 DEF HubInv, RecordInv, Recorded
  <2> QED
    BY <1>1, <2>1
<1>9. \A g \in Hubs \ {h} :
        /\ GoodList(list'[g], known') /\ GoodFile(job'[g].lines, known')
        /\ job'[g].at = "align" => Hole \notin Range(list'[g])
        /\ ~strayed' => Distinct(list'[g]) /\ Distinct(job'[g].lines)
        /\ Recorded(list'[g], job'[g])
  BY <1>2, <1>6, OthersKept
<1>10. /\ DOMAIN md' = Files /\ \A k \in Files : GoodFile(md'[k], known')
       /\ ~strayed' => \A k \in Files : Distinct(md'[k])
  <2>1. /\ \A k \in Files : GoodFile(md[k], known)
        /\ ~strayed => \A k \in Files : Distinct(md[k])
    BY DEF HubInv, StateInv, OnceInv
  <2>2. GoodFile(r.lines, known)
    BY <1>1 DEF GoodFile
  <2> QED
    BY <1>1, <1>2, <1>3, <2>1, <2>2
<1>11. StateInv'
  <2>1. \A g \in Hubs : /\ GoodList(list'[g], known') /\ GoodFile(job'[g].lines, known')
                        /\ job'[g].at = "align" => Hole \notin Range(list'[g])
    BY <1>1, <1>4, <1>5, <1>6, <1>7, <1>9 DEF JobFits
  <2> QED
    BY <1>2, <1>6, <1>10, <2>1 DEF StateInv, HubInv
<1>12. OnceInv'
  <2> SUFFICES ASSUME ~strayed
               PROVE  /\ \A g \in Hubs : Distinct(list'[g]) /\ Distinct(job'[g].lines)
                      /\ Distinct(saved') /\ \A k \in Files : Distinct(md'[k])
    BY <1>2 DEF OnceInv
  <2>1. Distinct(saved')
    BY <1>2 DEF HubInv, OnceInv
  <2> QED
    BY <1>1, <1>2, <1>4, <1>6, <1>9, <1>10, <2>1 DEF JobFits
<1>13. RecordInv'
  BY <1>1, <1>6, <1>8, <1>9 DEF RecordInv
<1>14. CallInv'
  BY <1>2, CallsLeave DEF HubInv
<1> QED
  BY <1>1, <1>6, <1>11, <1>12, <1>13, <1>14 DEF HubInv

\* A write that fails may leave the file empty.
LEMMA AlignFailsStep ==
  ASSUME HubInv, NEW h \in Hubs, AlignFails(h)
  PROVE  HubInv' /\ list' = list
<1>1. /\ list' = list /\ eco' = eco /\ saved' = saved /\ calls' = calls
      /\ known' = known /\ strayed' = strayed /\ upsets' = upsets + 1
      /\ job' = [job EXCEPT ![h] = NoJob]
      /\ md' = md \/ md' = [md EXCEPT ![job[h].file] = <<>>]
  BY DEF AlignFails, Upset, Done
<1>2. /\ DOMAIN md' = Files /\ \A k \in Files : GoodFile(md'[k], known')
      /\ ~strayed => \A k \in Files : Distinct(md'[k])
  <2>1. /\ DOMAIN md = Files /\ \A k \in Files : GoodFile(md[k], known)
        /\ ~strayed => \A k \in Files : Distinct(md[k])
    BY DEF HubInv, StateInv, OnceInv
  <2>2. GoodFile(<<>>, known) /\ Distinct(<<>>)
    BY Empty DEF GoodFile
  <2> QED
    BY <1>1, <2>1, <2>2
<1> QED
  BY <1>1, <1>2, NoJobFits, Kept, FilesStep

LEMMA SaveStep ==
  ASSUME HubInv, NEW h \in Hubs, Save(h)
  PROVE  HubInv' /\ list' = list
<1>1. /\ list' = list /\ eco' = eco /\ md' = md /\ calls' = calls
      /\ known' = known /\ strayed' = strayed
      /\ upsets' = upsets \/ upsets' = upsets + 1
      /\ job' = [job EXCEPT ![h] = NoJob]
      /\ saved' \in {list[h], saved, Unparsable}
  BY DEF Save, Upset, Done
<1>2. /\ saved' = Unparsable \/ GoodList(saved', known')
      /\ ~strayed => Distinct(saved')
  BY <1>1, Placeholders DEF HubInv, StateInv, OnceInv
<1> QED
  BY <1>1, <1>2, NoJobFits, Kept, FilesStep

-----------------------------------------------------------------------------
(* Dispatches, the user and the process                                      *)

LEMMA RemovedIs ==
  ASSUME NEW T, NEW s \in Seq(T), NEW i \in DOMAIN s
  PROVE  LET u == RemoveAt(s, i) IN
         u \in Seq(T) /\ BlocksOf(u) \subseteq BlocksOf(s) /\ (Distinct(s) => Distinct(u))
<1>1. PICK n \in Nat : n = Len(s) /\ DOMAIN s = 1 .. n
  OBVIOUS
<1> DEFINE a == SubSeq(s, 1, i - 1)
           b == SubSeq(s, i + 1, Len(s))
<1>2. /\ a \in Seq(T) /\ DOMAIN a = 1 .. i - 1 /\ \A k \in 1 .. i - 1 : a[k] = s[k]
  BY <1>1
<1>3. /\ b \in Seq(T) /\ DOMAIN b = 1 .. n - i /\ \A k \in 1 .. n - i : b[k] = s[i + k]
  BY <1>1
<1> HIDE DEF a, b
<1>4. /\ \A k \in 1 .. i - 1 : k \in DOMAIN s /\ k < i
      /\ \A k \in 1 .. n - i : i + k \in DOMAIN s /\ i + k > i
  BY <1>1
<1>5. BlocksOf(a) \subseteq BlocksOf(s) /\ BlocksOf(b) \subseteq BlocksOf(s)
  BY <1>2, <1>3, <1>4 DEF BlocksOf
<1>6. ASSUME Distinct(s)
      PROVE  Distinct(a) /\ Distinct(b) /\ BlocksOf(a) \cap BlocksOf(b) = {}
  <2>1. Distinct(a)
    BY <1>2, <1>4, <1>6 DEF Distinct
  <2>2. Distinct(b)
    <3> SUFFICES ASSUME NEW j \in 1 .. n - i, NEW k \in 1 .. n - i, b[j].block = b[k].block
                 PROVE  j = k
      BY <1>3 DEF Distinct
    <3>1. i + j = i + k
      BY <1>3, <1>4, <1>6 DEF Distinct
    <3> QED
      BY <1>1, <3>1
  <2>3. ASSUME NEW j \in 1 .. i - 1, NEW k \in 1 .. n - i, a[j].block = b[k].block PROVE FALSE
    <3>1. j = i + k
      BY <1>2, <1>3, <1>4, <1>6, <2>3 DEF Distinct
    <3> QED
      BY <1>1, <3>1
  <2> QED
    BY <1>2, <1>3, <2>1, <2>2, <2>3 DEF BlocksOf
<1>7. RemoveAt(s, i) = a \o b
  BY DEF RemoveAt, a, b
<1>8. /\ a \o b \in Seq(T) /\ BlocksOf(a \o b) = BlocksOf(a) \cup BlocksOf(b)
      /\ Distinct(a) /\ Distinct(b) /\ BlocksOf(a) \cap BlocksOf(b) = {} => Distinct(a \o b)
  BY <1>2, <1>3, JoinIs
<1> QED
  BY <1>5, <1>6, <1>7, <1>8

\* No edit of the user's writes a line twice, or a line that was not there.
LEMMA EditedIs ==
  ASSUME NEW s \in Seq(Lines), NEW l \in Edited(s)
  PROVE  l \in Seq(Lines) /\ BlocksOf(l) \subseteq BlocksOf(s) /\ (Distinct(s) => Distinct(l))
<1>1. CASE \E i \in DOMAIN s, m \in {"ready", "done"} : l = [s EXCEPT ![i].mark = m]
  <2>1. PICK i \in DOMAIN s, m \in {"ready", "done"} : l = [s EXCEPT ![i].mark = m]
    BY <1>1
  <2>2. s[i] \in Lines
    OBVIOUS
  <2> DEFINE t == [s[i] EXCEPT !.mark = m]
  <2>3. t \in Lines /\ t.block = s[i].block
    BY <2>2 DEF Lines, Statuses
  <2>4. l = [s EXCEPT ![i] = t]
    BY <2>1
  <2> HIDE DEF t
  <2>5. [s EXCEPT ![i] = t] \in Seq(Lines) /\ BlocksOf([s EXCEPT ![i] = t]) = BlocksOf(s)
        /\ (Distinct(s) => Distinct([s EXCEPT ![i] = t]))
    BY <2>3, ReplaceIs
  <2> QED
    BY <2>4, <2>5
<1>2. CASE Len(s) > 1 /\ l = <<Last(s)>> \o Front(s)
  <2>1. LET u == <<Last(s)>> \o Front(s) IN
        u \in Seq(Lines) /\ BlocksOf(u) = BlocksOf(s) /\ (Distinct(s) => Distinct(u))
    BY <1>2, MovedIs
  <2> QED
    BY <1>2, <2>1
<1>3. CASE \E i \in DOMAIN s : l = RemoveAt(s, i)
  BY <1>3, RemovedIs
<1> QED
  BY <1>1, <1>2, <1>3 DEF Edited

LEMMA EditStep ==
  ASSUME HubInv, NEW f \in Files, Edit(f)
  PROVE  HubInv' /\ list' = list
<1>1. /\ list' = list /\ eco' = eco /\ job' = job /\ saved' = saved /\ calls' = calls
      /\ known' = known /\ strayed' = strayed /\ upsets' = upsets + 1 /\ md[f] # NoFile
  BY DEF Edit, Upset, memory
<1>2. PICK lines \in Edited(md[f]) \cup {NoFile} : md' = [md EXCEPT ![f] = lines]
  BY DEF Edit
<1>3. /\ DOMAIN md = Files /\ \A k \in Files : GoodFile(md[k], known)
      /\ ~strayed => \A k \in Files : Distinct(md[k])
  BY DEF HubInv, StateInv, OnceInv
<1>4. GoodFile(lines, known) /\ (~strayed => Distinct(lines))
  BY <1>1, <1>3, EditedIs, Placeholders DEF GoodFile
<1>5. /\ DOMAIN md' = Files /\ \A k \in Files : GoodFile(md'[k], known')
      /\ ~strayed => \A k \in Files : Distinct(md'[k])
  BY <1>1, <1>2, <1>3, <1>4
<1> QED
  BY <1>1, <1>5, Kept, FilesStep

LEMMA WriteStep ==
  ASSUME HubInv, NEW f \in Files, Write(f)
  PROVE  HubInv' /\ list' = list
<1> DEFINE lines == IF md[f] = NoFile THEN <<>> ELSE md[f]
<1>1. /\ list' = list /\ eco' = eco /\ job' = job /\ saved' = saved /\ calls' = calls
      /\ strayed' = strayed /\ upsets' = upsets + 1
  BY DEF Write, Upset, memory
<1>2. PICK b \in Blocks \ BlocksOf(lines), m \in {"ready", "in_progress"} :
        /\ known' = known \cup {b}
        /\ md' = [md EXCEPT ![f] = Append(lines, [block |-> b, mark |-> m])]
  BY DEF Write
<1> DEFINE l == [block |-> b, mark |-> m]
           new == lines \o <<l>>
<1>3. /\ DOMAIN md = Files /\ \A k \in Files : GoodFile(md[k], known)
      /\ ~strayed => \A k \in Files : Distinct(md[k])
  BY DEF HubInv, StateInv, OnceInv
<1>4. /\ lines \in Seq(Lines) /\ BlocksOf(lines) \subseteq known
      /\ ~strayed => Distinct(lines)
  BY <1>3, Empty DEF GoodFile
<1>5. l \in Lines /\ l.block = b
  BY DEF Lines, Statuses
<1> HIDE DEF l, lines
<1>6. /\ <<l>> \in Seq(Lines) /\ BlocksOf(<<l>>) = {b} /\ Distinct(<<l>>)
  BY <1>5, OneIs
<1>7. /\ new \in Seq(Lines) /\ BlocksOf(new) = BlocksOf(lines) \cup {b}
      /\ Distinct(lines) => Distinct(new)
  <2> DEFINE a == <<l>>
  <2>1. a \in Seq(Lines) /\ BlocksOf(a) = {b} /\ Distinct(a)
    BY <1>6
  <2> HIDE DEF a
  <2>2. BlocksOf(lines) \cap BlocksOf(a) = {}
    BY <1>2, <2>1
  <2>3. /\ lines \o a \in Seq(Lines) /\ BlocksOf(lines \o a) = BlocksOf(lines) \cup BlocksOf(a)
        /\ Distinct(lines) => Distinct(lines \o a)
    BY <1>4, <2>1, <2>2, JoinIs
  <2> QED
    BY <2>1, <2>3, Zenon DEF a
<1>8. Append(lines, l) = new
  BY <1>4, <1>5
<1> HIDE DEF new
<1>9. md' = [md EXCEPT ![f] = new]
  BY <1>2, <1>8 DEF l
<1>10. known \subseteq known' /\ known' \subseteq Blocks
  BY <1>2 DEF HubInv, StateInv
<1>11. GoodFile(new, known') /\ (~strayed => Distinct(new))
  BY <1>2, <1>4, <1>7 DEF GoodFile
<1>12. \A k \in Files : GoodFile(md[k], known')
  BY <1>3, <1>10, MoreKnown
<1>13. /\ DOMAIN md' = Files /\ \A k \in Files : GoodFile(md'[k], known')
       /\ ~strayed => \A k \in Files : Distinct(md'[k])
  BY <1>3, <1>9, <1>11, <1>12
<1>14. /\ saved' = Unparsable \/ GoodList(saved', known')
       /\ ~strayed => Distinct(saved')
  BY <1>1, <1>10, MoreKnown DEF HubInv, StateInv, OnceInv
<1>15. upsets' \in Nat /\ eco' \in [Hubs -> Files \cup {None}]
  BY <1>1 DEF HubInv, StateInv
<1> QED
  BY <1>1, <1>10, <1>13, <1>14, <1>15, FilesStep

\* A new process starts from the JSON file, without an alignment.
LEMMA RestartStep ==
  ASSUME HubInv, NEW h \in Hubs, Restart(h)
  PROVE  HubInv' /\ \A g \in Hubs \ {h} : list'[g] = list[g]
<1>1. /\ saved' \in {saved, Unparsable} /\ upsets' = upsets + 1
      /\ eco' = [eco EXCEPT ![h] = None] /\ job' = [job EXCEPT ![h] = NoJob]
      /\ calls' \subseteq calls /\ known' = known /\ strayed' = strayed
      /\ md' = md \/ md' = [md EXCEPT ![job[h].file] = <<>>]
  BY DEF Restart, Upset, Done
<1>2. PICK json \in {saved', Unparsable} : list' = [list EXCEPT ![h] = Loaded(json)]
  BY DEF Restart
<1>3. /\ saved' = Unparsable \/ GoodList(saved', known')
      /\ ~strayed => Distinct(saved')
  BY <1>1, Placeholders DEF HubInv, StateInv, OnceInv
<1>4. GoodList(Loaded(json), known') /\ (~strayed => Distinct(Loaded(json)))
  BY <1>2, <1>3, Empty DEF Loaded, GoodList
<1>5. /\ DOMAIN list = Hubs /\ DOMAIN md = Files /\ job \in [Hubs -> Job]
      /\ eco \in [Hubs -> Files \cup {None}]
  BY DEF HubInv, StateInv
<1>6. /\ DOMAIN list' = Hubs /\ list'[h] = Loaded(json)
      /\ \A g \in Hubs \ {h} : list'[g] = list[g] /\ job'[g] = job[g]
      /\ job'[h] = NoJob /\ job' \in [Hubs -> Job]
  BY <1>1, <1>2, <1>5, Placeholders
<1>7. \A g \in Hubs \ {h} :
        /\ GoodList(list'[g], known') /\ GoodFile(job'[g].lines, known')
        /\ job'[g].at = "align" => Hole \notin Range(list'[g])
        /\ ~strayed' => Distinct(list'[g]) /\ Distinct(job'[g].lines)
        /\ Recorded(list'[g], job'[g])
  BY <1>1, <1>6, OthersKept
<1>8. JobFits(job'[h], list'[h]) /\ job'[h].at = "idle"
  BY <1>6, NoJobFits, Placeholders
<1>9. /\ DOMAIN md' = Files /\ \A k \in Files : GoodFile(md'[k], known')
      /\ ~strayed => \A k \in Files : Distinct(md'[k])
  <2>1. /\ \A k \in Files : GoodFile(md[k], known)
        /\ ~strayed => \A k \in Files : Distinct(md[k])
    BY DEF HubInv, StateInv, OnceInv
  <2>2. GoodFile(<<>>, known) /\ Distinct(<<>>)
    BY Empty DEF GoodFile
  <2> QED
    BY <1>1, <1>5, <2>1, <2>2
<1>10. StateInv'
  <2>1. \A g \in Hubs : /\ GoodList(list'[g], known') /\ GoodFile(job'[g].lines, known')
                        /\ job'[g].at = "align" => Hole \notin Range(list'[g])
    BY <1>4, <1>6, <1>7, <1>8 DEF JobFits
  <2>2. eco' \in [Hubs -> Files \cup {None}] /\ upsets' \in Nat /\ known' \subseteq Blocks
    BY <1>1, <1>5 DEF HubInv, StateInv
  <2> QED
    BY <1>3, <1>6, <1>9, <2>1, <2>2 DEF StateInv
<1>11. OnceInv'
  BY <1>1, <1>3, <1>4, <1>6, <1>7, <1>8, <1>9 DEF OnceInv, JobFits
<1>12. RecordInv'
  BY <1>6, <1>7, <1>8 DEF RecordInv, JobFits
<1>13. CallInv'
  BY <1>1, CallsLeave DEF HubInv
<1> QED
  BY <1>6, <1>10, <1>11, <1>12, <1>13 DEF HubInv

\* Steps of dispatches leave everything but the calls as it is.
LEMMA OnlyCalls ==
  ASSUME HubInv, CallInv', UNCHANGED <<memory, disk, known, strayed, upsets>>
  PROVE  HubInv' /\ list' = list
BY DEF memory, disk, HubInv, StateInv, OnceInv, RecordInv

LEMMA DispatchStep ==
  ASSUME HubInv, NEW h \in Hubs, NEW i \in DOMAIN list[h], Dispatch(h, i)
  PROVE  HubInv' /\ list' = list
<1>1. PICK p \in Providers, codex \in Percents \cup {None}, agy \in Percents \cup {None} :
        LET r == Route(list[h][i].block \in Private, list[h][i].block \in Credit, p, codex, agy) IN
        calls' = calls \cup {[hub |-> h, at |-> i, todo |-> list[h][i], made |-> FALSE,
                              route |-> r, quota |-> QuotaOf(r, codex, agy)]}
  BY DEF Dispatch
<1> DEFINE r == Route(list[h][i].block \in Private, list[h][i].block \in Credit, p, codex, agy)
           q == QuotaOf(r, codex, agy)
           new == [hub |-> h, at |-> i, todo |-> list[h][i], made |-> FALSE, route |-> r, quota |-> q]
<1>2. calls' = calls \cup {new}
  BY <1>1
<1>3. r \in Providers
  BY DEF Route, Cascade, Providers
<1> HIDE DEF r, q
<1>4. list[h] \in Seq(Items) /\ BlocksOf(list[h]) \subseteq known \cup {None}
  BY DEF HubInv, StateInv, GoodList
<1>5. list[h][i] \in Items /\ i \in Nat \ {0} /\ list[h][i].block \in known \cup {None}
  BY <1>4 DEF BlocksOf
<1>6. list[h][i] # Hole
  <2>1. i \in 1 .. i
    BY <1>5
  <2> QED
    BY <2>1 DEF Dispatch, Found
<1>7. list[h][i] \in Todo /\ list[h][i].block \in known
  BY <1>5, <1>6, HubAssumption DEF Items, Todo
<1>8. /\ DOMAIN new = CallFields
      /\ new.hub \in Hubs /\ new.at \in Nat \ {0} /\ new.route \in Providers
      /\ new.todo \in Todo /\ new.todo.block \in known
  BY <1>3, <1>5, <1>7 DEF CallFields
<1> HIDE DEF new
<1>9. known' = known
  BY DEF Dispatch
<1>10. CallInv'
  BY <1>2, <1>8, <1>9 DEF HubInv, CallInv, CallsKept
<1> QED
  BY <1>10, OnlyCalls DEF Dispatch

LEMMA CreatedStep ==
  ASSUME HubInv, NEW c \in calls, Created(c)
  PROVE  HubInv' /\ list' = list
<1> DEFINE new == [c EXCEPT !.made = TRUE]
<1>1. DOMAIN c = CallFields
  BY DEF HubInv, CallInv, CallsKept
<1>2. /\ DOMAIN new = CallFields /\ new.hub = c.hub /\ new.at = c.at
      /\ new.route = c.route /\ new.todo = c.todo
  BY <1>1 DEF CallFields
<1>3. calls' \subseteq calls \cup {new} /\ known' = known
  BY DEF Created
<1> HIDE DEF new
<1>4. CallInv'
  BY <1>2, <1>3 DEF HubInv, CallInv, CallsKept
<1> QED
  BY <1>4, OnlyCalls DEF Created

LEMMA BrokerFailsStep ==
  ASSUME HubInv, NEW c \in calls, BrokerFails(c)
  PROVE  HubInv' /\ list' = list
BY CallsLeave, OnlyCalls DEF BrokerFails, HubInv

LEMMA HubStep == HubInv /\ [Next]_vars => HubInv'
<1> SUFFICES ASSUME HubInv, [Next]_vars PROVE HubInv'
  OBVIOUS
<1>1. CASE UNCHANGED vars
  <2>1. UNCHANGED <<memory, disk, known, strayed, upsets>> /\ calls' = calls /\ known' = known
    BY <1>1 DEF vars
  <2> QED
    BY <2>1, CallsLeave, OnlyCalls DEF HubInv
<1> QED
  BY <1>1, IngestStep, SyncStep, OverviewStep, RestartStep, ReadStep, AlignStep, AlignFailsStep,
     SaveStep, ClarifyStep, DispatchStep, CreatedStep, BrokerFailsStep, DispatchEndsStep,
     EditStep, WriteStep DEF Next

LEMMA HubAlways == Spec => []HubInv
BY HubInitially, HubStep, PTL DEF Spec

-----------------------------------------------------------------------------
(* The theorems                                                              *)

\* Lists, files, alignments and dispatches are what the code takes them for; nothing
\* in them names a todo that nobody wrote.
THEOREM HubTypes == Spec => []TypeOK
<1>1. HubInv => TypeOK
  <2> SUFFICES ASSUME HubInv PROVE TypeOK
    OBVIOUS
  <2>1. ASSUME NEW h \in Hubs
        PROVE  list[h] \in Seq(Todo \cup {Hole}) /\ BlocksOf(list[h]) \subseteq known \cup {None}
    BY DEF HubInv, StateInv, GoodList, Items
  <2>2. eco \in [Hubs -> Files \cup {None}] /\ job \in [Hubs -> Job]
    BY DEF HubInv, StateInv
  <2>3. \A f \in Files : md[f] = NoFile \/ (md[f] \in Seq(Lines) /\ BlocksOf(md[f]) \subseteq known)
    BY DEF HubInv, StateInv, GoodFile
  <2>4. \A c \in calls : c.hub \in Hubs /\ c.at \in Nat \ {0} /\ c.todo \in Todo /\ c.route \in Providers
    BY DEF HubInv, CallInv
  <2> QED
    BY <2>1, <2>2, <2>3, <2>4 DEF TypeOK
<1> QED
  BY <1>1, HubAlways, PTL

\* No list and no file names a todo twice, whatever fails, ends or is edited between
\* the reads and the writes of the controllers, until a dispatch writes to a place that
\* is not its todo's alone.
THEOREM TodosListedOnce == Spec => []ListedOnce
<1>1. HubInv => ListedOnce
  BY DEF HubInv, OnceInv, ListedOnce
<1> QED
  BY <1>1, HubAlways, PTL

\* The steps that write a file without a failure, an edit or a restart are alignments.
LEMMA FilesChange ==
  ASSUME HubInv, [Next]_vars, NEW f \in Files, md'[f] # md[f], upsets' = upsets
  PROVE  \E h \in Hubs : Align(h)
<1>1. upsets' # upsets + 1
  BY DEF HubInv, StateInv
<1>2. ASSUME NEW h \in Hubs, Ingest(h) \/ Sync(h) \/ Overview(h) \/ Restart(h) PROVE FALSE
  BY <1>1, <1>2 DEF Ingest, Keep, Sync, Overview, Restart, Upset, disk
<1>3. ASSUME NEW h \in Hubs, Read(h) \/ ReadFails(h) \/ AlignFails(h) \/ Save(h) PROVE FALSE
  BY <1>1, <1>3 DEF Read, ReadFails, AlignFails, Save, Upset, disk
<1>4. ASSUME NEW h \in Hubs, NEW b \in Blocks, Clarify(h, b) PROVE FALSE
  BY <1>4 DEF Clarify, Keep
<1>5. ASSUME NEW h \in Hubs, NEW i \in DOMAIN list[h], Dispatch(h, i) PROVE FALSE
  BY <1>5 DEF Dispatch, disk
<1>6. ASSUME NEW c \in calls, Created(c) \/ BrokerFails(c) \/ DispatchEnds(c) PROVE FALSE
  BY <1>6 DEF Created, BrokerFails, DispatchEnds, Keep, disk
<1>7. ASSUME NEW k \in Files, Edit(k) \/ Write(k) PROVE FALSE
  BY <1>1, <1>7 DEF Edit, Write, Upset
<1>8. CASE UNCHANGED vars
  BY <1>8 DEF vars, disk
<1> QED
  BY <1>2, <1>3, <1>4, <1>5, <1>6, <1>7, <1>8 DEF Next

\* What a controller writes into Todo.md is its list from then on, whatever was written
\* there since it read the file.
THEOREM FilesAgree == Spec => SyncAgrees
<1> DEFINE P(f) == md'[f] # md[f] /\ upsets' = upsets =>
             \E h \in Hubs : /\ job[h].at = "align" /\ job[h].file = f
                             /\ DOMAIN md'[f] = DOMAIN list'[h]
                             /\ \A i \in DOMAIN list'[h] : Shows(md'[f][i], list'[h][i])
<1>1. ASSUME HubInv, [Next]_vars, NEW f \in Files PROVE P(f)
  <2> SUFFICES ASSUME md'[f] # md[f], upsets' = upsets
               PROVE  \E h \in Hubs : /\ job[h].at = "align" /\ job[h].file = f
                                      /\ DOMAIN md'[f] = DOMAIN list'[h]
                                      /\ \A i \in DOMAIN list'[h] : Shows(md'[f][i], list'[h][i])
    OBVIOUS
  <2>1. PICK h \in Hubs : Align(h)
    BY <1>1, FilesChange
  <2> DEFINE r == Synced(list[h], job[h].lines, job[h].push)
  <2>2. /\ list'[h] = r.list /\ DOMAIN r.lines = DOMAIN r.list
        /\ \A i \in DOMAIN r.list : Shows(r.lines[i], r.list[i])
        /\ md' = md \/ md' = [md EXCEPT ![job[h].file] = r.lines]
    BY <1>1, <2>1, AlignIs, Zenon
  <2> HIDE DEF r
  <2>3. DOMAIN md = Files /\ job[h].at = "align"
    BY <1>1, <2>1 DEF HubInv, StateInv, Align
  <2>4. job[h].file = f /\ md'[f] = r.lines
    BY <2>2, <2>3
  <2> QED
    BY <2>2, <2>3, <2>4
<1>2. HubInv /\ [Next]_vars => [\A f \in Files : P(f)]_vars
  BY <1>1
<1> QED
  BY <1>2, HubAlways, PTL DEF Spec, SyncAgrees

\* A dispatch that is answered is on record in memory and in the JSON file, whatever
\* became of Todo.md meanwhile, unless another todo had taken its todo's place.
THEOREM DispatchesRecorded == Spec => DispatchRecorded
<1> DEFINE P(h) == Save(h) /\ upsets' = upsets /\ job[h].todo # None /\ job[h].sure =>
             saved' = list'[h] /\ \E i \in DOMAIN saved' : saved'[i] = job[h].todo
<1>1. ASSUME HubInv, NEW h \in Hubs PROVE P(h)
  <2> SUFFICES ASSUME Save(h), upsets' = upsets, job[h].todo # None, job[h].sure
               PROVE  saved' = list'[h] /\ \E i \in DOMAIN saved' : saved'[i] = job[h].todo
    OBVIOUS
  <2>1. upsets' # upsets + 1
    BY <1>1 DEF HubInv, StateInv
  <2>2. saved' = list[h] /\ list' = list
    BY <2>1 DEF Save, Upset
  <2>3. \E i \in DOMAIN list[h] : list[h][i] = job[h].todo
    BY <1>1 DEF HubInv, RecordInv, Recorded
  <2> QED
    BY <2>2, <2>3
<1>2. HubInv => [\A h \in Hubs : P(h)]_vars
  BY <1>1
<1> QED
  BY <1>2, HubAlways, PTL DEF Spec, DispatchRecorded

\* What a controller has once listed it forgets only by ending, or by a dispatch that
\* writes to a place that is another todo's by now.
THEOREM MemoriesKeep == Spec => MemoryKeeps
<1> DEFINE P(h) == \A b \in BlocksOf(list[h]) \ BlocksOf(list'[h]) :
             \/ Restart(h)
             \/ strayed' /\ \E c \in calls \ calls' :
                  c.hub = h /\ c.at \in DOMAIN list[h] /\ list[h][c.at].block = b
<1>1. ASSUME NEW h \in Hubs, BlocksOf(list[h]) \subseteq BlocksOf(list'[h]) PROVE P(h)
  BY <1>1
<1>2. ASSUME HubInv, [Next]_vars, NEW h \in Hubs PROVE P(h)
  <2>1. CASE list'[h] = list[h]
    BY <1>1, <2>1
  <2>2. ASSUME NEW g \in Hubs, Sync(g) \/ Overview(g) \/ Read(g) \/ ReadFails(g) \/ AlignFails(g) \/ Save(g)
        PROVE  list' = list
    BY <2>2 DEF Sync, Overview, Read, ReadFails, AlignFails, Save
  <2>3. ASSUME NEW g \in Hubs, Ingest(g) \/ Align(g) PROVE P(h)
    <3>1. CASE g = h
      BY <1>1, <1>2, <2>3, <3>1, IngestStep, AlignStep
    <3>2. CASE g # h
      <4>1. list'[h] = list[h]
        BY <1>2, <2>3, <3>2, IngestStep, AlignStep
      <4> QED
        BY <2>1, <4>1
    <3> HIDE DEF P
    <3> QED
      BY <3>1, <3>2
  <2>4. ASSUME NEW g \in Hubs, NEW b \in Blocks, Clarify(g, b) PROVE P(h)
    <3>1. CASE g = h
      BY <1>1, <1>2, <2>4, <3>1, ClarifyStep
    <3>2. CASE g # h
      <4>1. list'[h] = list[h]
        BY <1>2, <2>4, <3>2, ClarifyStep
      <4> QED
        BY <2>1, <4>1
    <3> HIDE DEF P
    <3> QED
      BY <3>1, <3>2
  <2>5. ASSUME NEW c \in calls, DispatchEnds(c) PROVE P(h)
    <3>1. /\ c \in calls \ calls'
          /\ \A g \in Hubs \ {c.hub} : list'[g] = list[g]
          /\ \A b \in BlocksOf(list[c.hub]) \ BlocksOf(list'[c.hub]) :
               strayed' /\ c.at \in DOMAIN list[c.hub] /\ list[c.hub][c.at].block = b
      BY <1>2, <2>5, DispatchEndsStep
    <3>2. CASE c.hub = h
      BY <3>1, <3>2
    <3>3. CASE c.hub # h
      <4>1. list'[h] = list[h]
        BY <3>1, <3>3
      <4> QED
        BY <2>1, <4>1
    <3> HIDE DEF P
    <3> QED
      BY <3>2, <3>3
  <2>6. ASSUME NEW g \in Hubs, Restart(g) PROVE P(h)
    <3>1. CASE g = h
      BY <2>6, <3>1
    <3>2. CASE g # h
      <4>1. list'[h] = list[h]
        BY <1>2, <2>6, <3>2, RestartStep
      <4> QED
        BY <2>1, <4>1
    <3> HIDE DEF P
    <3> QED
      BY <3>1, <3>2
  <2>7. ASSUME NEW g \in Hubs, NEW i \in DOMAIN list[g], Dispatch(g, i) PROVE list' = list
    BY <2>7 DEF Dispatch, memory
  <2>8. ASSUME NEW c \in calls, Created(c) \/ BrokerFails(c) PROVE list' = list
    BY <2>8 DEF Created, BrokerFails, memory
  <2>9. ASSUME NEW f \in Files, Edit(f) \/ Write(f) PROVE list' = list
    BY <2>9 DEF Edit, Write, memory
  <2>10. CASE UNCHANGED vars
    BY <2>1, <2>10 DEF vars, memory
  <2> HIDE DEF P
  <2> QED
    BY <1>2, <2>1, <2>2, <2>3, <2>4, <2>5, <2>6, <2>7, <2>8, <2>9, <2>10 DEF Next
<1>3. HubInv /\ [Next]_vars => [\A h \in Hubs : P(h)]_vars
  BY <1>2
<1> QED
  BY <1>3, HubAlways, PTL DEF Spec, MemoryKeeps
=============================================================================
