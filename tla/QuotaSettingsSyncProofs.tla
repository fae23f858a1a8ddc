----------------------- MODULE QuotaSettingsSyncProofs -----------------------
(* The quota settings in the store, the dashboard and the desktop, for any    *)
(* values of a setting, any number of operations under way and any bounds:    *)
(* the run has two values, two saves and two upsets.                          *)
EXTENDS QuotaSettingsSync, SequenceTheorems, TLAPS

LEMMA FieldsAre == Range(Fields) = {"mode", "notify"}
<1>1. DOMAIN Fields = {1, 2} /\ Fields[1] = "mode" /\ Fields[2] = "notify"
  BY DEF Fields
<1> QED
  BY <1>1 DEF Range

-----------------------------------------------------------------------------
(* Operations under way, as a set per kind                                   *)

IsSequence(s) == \E S : s \in Seq(S)
Shape(cs) == DOMAIN cs = Kinds /\ \A k \in Kinds : IsSequence(cs[k])
Of(cs, k) == Range(cs[k])

\* An element added, replaced or removed.
LEMMA AppendKeeps ==
  ASSUME NEW s, IsSequence(s), NEW c
  PROVE  IsSequence(Append(s, c)) /\ Range(Append(s, c)) = Range(s) \cup {c}
<1>1. PICK S : s \in Seq(S)
  BY DEF IsSequence
<1>2. s \in Seq(S \cup {c})
  BY <1>1
<1>3. PICK n \in Nat : n = Len(s) /\ DOMAIN s = 1 .. n
  BY <1>1
<1>4. /\ Append(s, c) \in Seq(S \cup {c}) /\ DOMAIN Append(s, c) = 1 .. n + 1
      /\ \A i \in 1 .. n : Append(s, c)[i] = s[i]
      /\ Append(s, c)[n + 1] = c
  BY <1>2, <1>3
<1>5. \A i \in 1 .. n + 1 : i \in 1 .. n \/ i = n + 1
  BY <1>3
<1>6. n + 1 \in 1 .. n + 1 /\ \A i \in 1 .. n : i \in 1 .. n + 1
  BY <1>3
<1> DEFINE a == Append(s, c)
<1>7. IsSequence(a)
  BY <1>4 DEF IsSequence
<1> HIDE DEF a
<1>8. Range(a) = Range(s) \cup {c}
  BY <1>3, <1>4, <1>5, <1>6 DEF Range, a
<1> QED
  BY <1>7, <1>8 DEF a

LEMMA PutKeeps ==
  ASSUME NEW s, IsSequence(s), NEW i \in DOMAIN s, NEW c
  PROVE  LET t == [s EXCEPT ![i] = c] IN
         /\ IsSequence(t) /\ DOMAIN t = DOMAIN s
         /\ c \in Range(t) /\ Range(s) \ {s[i]} \subseteq Range(t)
         /\ \A x \in Range(t) : x = c \/ \E j \in DOMAIN s \ {i} : x = s[j]
<1>1. PICK S : s \in Seq(S)
  BY DEF IsSequence
<1>2. s \in Seq(S \cup {c})
  BY <1>1
<1> DEFINE t == [s EXCEPT ![i] = c]
<1>3. t \in Seq(S \cup {c})
  BY <1>2
<1>4. DOMAIN t = DOMAIN s /\ t[i] = c /\ \A j \in DOMAIN s : j # i => t[j] = s[j]
  OBVIOUS
<1>5. IsSequence(t)
  BY <1>3 DEF IsSequence
<1> HIDE DEF t
<1> QED
  BY <1>4, <1>5 DEF Range, t

LEMMA RemoveKeeps ==
  ASSUME NEW s, IsSequence(s), NEW i \in DOMAIN s
  PROVE  /\ IsSequence(RemoveAt(s, i))
         /\ Range(s) \ {s[i]} \subseteq Range(RemoveAt(s, i))
         /\ \A x \in Range(RemoveAt(s, i)) : \E j \in DOMAIN s \ {i} : x = s[j]
<1>1. PICK S : s \in Seq(S)
  BY DEF IsSequence
<1>2. PICK n \in Nat : n = Len(s) /\ DOMAIN s = 1 .. n
  BY <1>1
<1> DEFINE a == SubSeq(s, 1, i - 1)
           b == SubSeq(s, i + 1, n)
           t == a \o b
<1>3. i \in 1 .. n /\ i - 1 \in Nat /\ n - i \in Nat
  BY <1>2
<1>4. a \in Seq(S) /\ Len(a) = i - 1 /\ \A j \in 1 .. i - 1 : a[j] = s[j]
  BY <1>1, <1>2, <1>3
<1>5. b \in Seq(S) /\ Len(b) = n - i /\ \A j \in 1 .. n - i : b[j] = s[i + j]
  BY <1>1, <1>2, <1>3, SMTT(30)
<1> HIDE DEF a, b
<1>6. /\ t \in Seq(S) /\ DOMAIN t = 1 .. n - 1
      /\ \A j \in 1 .. i - 1 : t[j] = a[j]
      /\ \A j \in 1 .. n - i : t[(i - 1) + j] = b[j]
  <2>1. PICK m \in Nat, l \in Nat : m = i - 1 /\ l = n - i /\ n - 1 = m + l
    BY <1>3
  <2>2. a \in Seq(S) /\ Len(a) = m /\ b \in Seq(S) /\ Len(b) = l
    BY <1>4, <1>5, <2>1
  <2>3. /\ t \in Seq(S) /\ DOMAIN t = 1 .. m + l
        /\ \A j \in 1 .. m : t[j] = a[j]
        /\ \A j \in 1 .. l : t[m + j] = b[j]
    BY <2>2
  <2> QED
    BY <2>1, <2>3
<1> HIDE DEF t
<1>7. \A j \in 1 .. n - 1 : j < i => t[j] = s[j]
  BY <1>3, <1>4, <1>6
<1>8. ASSUME NEW j \in 1 .. n - 1, ~(j < i) PROVE t[j] = s[j + 1]
  <2>1. j - (i - 1) \in 1 .. n - i /\ (i - 1) + (j - (i - 1)) = j /\ i + (j - (i - 1)) = j + 1
    BY <1>3, <1>8
  <2>2. t[(i - 1) + (j - (i - 1))] = b[j - (i - 1)] /\ b[j - (i - 1)] = s[i + (j - (i - 1))]
    BY <1>5, <1>6, <2>1
  <2> QED
    BY <2>1, <2>2
<1>9. ASSUME NEW l \in 1 .. n, l # i PROVE \E j \in 1 .. n - 1 : t[j] = s[l]
  <2>1. CASE l < i
    <3>1. l \in 1 .. n - 1
      BY <1>3, <2>1
    <3> QED
      BY <1>7, <2>1, <3>1
  <2>2. CASE ~(l < i)
    <3>1. l - 1 \in 1 .. n - 1 /\ ~(l - 1 < i) /\ l - 1 + 1 = l
      BY <1>3, <1>9, <2>2
    <3> QED
      BY <1>8, <3>1
  <2> QED
    BY <2>1, <2>2
<1>10. ASSUME NEW j \in 1 .. n - 1 PROVE \E l \in 1 .. n : l # i /\ t[j] = s[l]
  <2>1. CASE j < i
    <3>1. j \in 1 .. n /\ j # i
      BY <1>3, <2>1
    <3> QED
      BY <1>7, <2>1, <3>1
  <2>2. CASE ~(j < i)
    <3>1. j + 1 \in 1 .. n /\ j + 1 # i
      BY <1>3, <2>2
    <3> QED
      BY <1>8, <2>2, <3>1
  <2> QED
    BY <2>1, <2>2
<1>11. RemoveAt(s, i) = t
  BY <1>2 DEF RemoveAt, t, a, b
<1>12. IsSequence(t)
  BY <1>6 DEF IsSequence
<1>13. ASSUME NEW x \in Range(s) \ {s[i]} PROVE x \in Range(t)
  <2>1. PICK l \in 1 .. n : x = s[l]
    BY <1>2 DEF Range
  <2>2. PICK j \in 1 .. n - 1 : t[j] = x
    BY <1>9, <2>1
  <2> QED
    BY <1>6, <2>2 DEF Range
<1>14. ASSUME NEW x \in Range(t) PROVE \E j \in DOMAIN s \ {i} : x = s[j]
  <2>1. PICK j \in 1 .. n - 1 : x = t[j]
    BY <1>6 DEF Range
  <2> QED
    BY <1>2, <1>10, <2>1
<1> QED
  BY <1>11, <1>12, <1>13, <1>14

\* The applies under way.
Applying(cs) == {c \in Of(cs, "load") \cup Of(cs, "ide") : c.at = "applying"}

LEMMA StartedIs ==
  ASSUME NEW cs, Shape(cs), NEW k \in Kinds, NEW c
  PROVE  LET ds == Started(cs, k, c) IN
         /\ Shape(ds) /\ Of(ds, k) = Of(cs, k) \cup {c}
         /\ \A l \in Kinds \ {k} : Of(ds, l) = Of(cs, l)
<1> DEFINE ds == Started(cs, k, c)
<1>1. DOMAIN ds = Kinds /\ ds[k] = Append(cs[k], c) /\ \A l \in Kinds \ {k} : ds[l] = cs[l]
  BY DEF Started, Shape
<1>2. IsSequence(cs[k])
  BY DEF Shape
<1> HIDE DEF ds
<1>3. IsSequence(ds[k]) /\ Range(ds[k]) = Range(cs[k]) \cup {c}
  BY <1>1, <1>2, AppendKeeps
<1> QED
  BY <1>1, <1>3 DEF Shape, Of, ds

LEMMA BecomesIs ==
  ASSUME Shape(calls), NEW k \in Kinds, NEW i \in DOMAIN calls[k], NEW c
  PROVE  LET ds == Becomes(k, i, c) IN
         /\ Shape(ds)
         /\ c \in Of(ds, k) /\ Of(calls, k) \ {calls[k][i]} \subseteq Of(ds, k)
         /\ \A x \in Of(ds, k) : x = c \/ \E j \in DOMAIN calls[k] \ {i} : x = calls[k][j]
         /\ \A l \in Kinds \ {k} : Of(ds, l) = Of(calls, l)
<1> DEFINE ds == Becomes(k, i, c)
           t == [calls[k] EXCEPT ![i] = c]
<1>1. DOMAIN ds = Kinds /\ ds[k] = t /\ \A l \in Kinds \ {k} : ds[l] = calls[l]
  BY DEF Becomes, Shape
<1>2. IsSequence(calls[k])
  BY DEF Shape
<1>3. /\ IsSequence(t) /\ c \in Range(t) /\ Range(calls[k]) \ {calls[k][i]} \subseteq Range(t)
      /\ \A x \in Range(t) : x = c \/ \E j \in DOMAIN calls[k] \ {i} : x = calls[k][j]
  BY <1>2, PutKeeps
<1> HIDE DEF ds, t
<1> QED
  BY <1>1, <1>3 DEF Shape, Of, ds

LEMMA EndedIs ==
  ASSUME Shape(calls), NEW k \in Kinds, NEW i \in DOMAIN calls[k]
  PROVE  LET ds == Ended(k, i) IN
         /\ Shape(ds)
         /\ Of(calls, k) \ {calls[k][i]} \subseteq Of(ds, k)
         /\ \A x \in Of(ds, k) : \E j \in DOMAIN calls[k] \ {i} : x = calls[k][j]
         /\ \A l \in Kinds \ {k} : Of(ds, l) = Of(calls, l)
<1> DEFINE ds == Ended(k, i)
           t == RemoveAt(calls[k], i)
<1>1. DOMAIN ds = Kinds /\ ds[k] = t /\ \A l \in Kinds \ {k} : ds[l] = calls[l]
  BY DEF Ended, Shape
<1>2. IsSequence(calls[k])
  BY DEF Shape
<1>3. /\ IsSequence(t) /\ Range(calls[k]) \ {calls[k][i]} \subseteq Range(t)
      /\ \A x \in Range(t) : \E j \in DOMAIN calls[k] \ {i} : x = calls[k][j]
  BY <1>2, RemoveKeeps
<1> HIDE DEF ds, t
<1> QED
  BY <1>1, <1>3 DEF Shape, Of, ds

LEMMA PlacesAreOf ==
  ASSUME NEW k, NEW i \in DOMAIN calls[k]
  PROVE  calls[k][i] \in Of(calls, k)
BY DEF Of, Range

\* Whether another apply is under way.
LEMMA OthersIs ==
  ASSUME Shape(calls)
  PROVE  Others("ide", 0) <=> Applying(calls) # {}
<1>1. \A l \in Kinds : \A j \in DOMAIN calls[l] : j # 0
  <2> SUFFICES ASSUME NEW l \in Kinds, NEW j \in DOMAIN calls[l] PROVE j # 0
    OBVIOUS
  <2>1. PICK S : calls[l] \in Seq(S)
    BY DEF Shape, IsSequence
  <2> QED
    BY <2>1
<1>2. \A l \in {"load", "ide"} : \A j \in DOMAIN calls[l] : <<l, j>> # <<"ide", 0>>
  BY <1>1 DEF Kinds
<1> QED
  BY <1>2 DEF Others, Applying, Of, Range

LEMMA AloneIs ==
  ASSUME Shape(calls), NEW k \in {"load", "ide"}, NEW i \in DOMAIN calls[k], ~Others(k, i)
  PROVE  /\ Applying(Ended(k, i)) = {}
         /\ \A c : Applying(Becomes(k, i, c)) \subseteq {c}
<1>1. k \in Kinds /\ "load" \in Kinds /\ "ide" \in Kinds
  BY DEF Kinds
<1>2. \A l \in {"load", "ide"} : \A j \in DOMAIN calls[l] :
        <<l, j>> # <<k, i>> => calls[l][j].at # "applying"
  BY DEF Others
<1>3. \A j \in DOMAIN calls[k] \ {i} : calls[k][j].at # "applying"
  BY <1>2
<1>4. \A l \in {"load", "ide"} \ {k} : \A x \in Of(calls, l) : x.at # "applying"
  BY <1>2 DEF Of, Range
<1>5. ASSUME NEW x \in Applying(Ended(k, i)) PROVE FALSE
  <2> DEFINE ds == Ended(k, i)
  <2>1. /\ \A y \in Of(ds, k) : \E j \in DOMAIN calls[k] \ {i} : y = calls[k][j]
        /\ \A l \in Kinds \ {k} : Of(ds, l) = Of(calls, l)
    BY <1>1, EndedIs
  <2> HIDE DEF ds
  <2>2. x \in Of(ds, "load") \cup Of(ds, "ide") /\ x.at = "applying"
    BY <1>5 DEF Applying, ds
  <2> QED
    BY <1>1, <1>3, <1>4, <2>1, <2>2
<1>6. ASSUME NEW c, NEW x \in Applying(Becomes(k, i, c)) PROVE x = c
  <2> DEFINE ds == Becomes(k, i, c)
  <2>1. /\ \A y \in Of(ds, k) : y = c \/ \E j \in DOMAIN calls[k] \ {i} : y = calls[k][j]
        /\ \A l \in Kinds \ {k} : Of(ds, l) = Of(calls, l)
    BY <1>1, BecomesIs
  <2> HIDE DEF ds
  <2>2. x \in Of(ds, "load") \cup Of(ds, "ide") /\ x.at = "applying"
    BY <1>6 DEF Applying, ds
  <2> QED
    BY <1>1, <1>3, <1>4, <2>1, <2>2
<1> QED
  BY <1>5, <1>6

-----------------------------------------------------------------------------
(* The invariant                                                             *)

Envelopes == [rev : Nat, init : BOOLEAN, set : Settings]
Applies == [at : {"applying"}, set : Settings, todo : Seq(Range(Fields))]
Undos == [field : Range(Fields), to : Values, from : Values]

\* Two settings differ in no other field.
Within(a, b, fields) == \A f \in Range(Fields) : a[f] # b[f] => f \in fields

TypeInv ==
  /\ Shape(calls) /\ store \in Envelopes /\ local \in Settings /\ desk \in Envelopes
  /\ ide \in [rev : Nat, ready : BOOLEAN, synced : Settings \cup {None}, mode : Values,
              applying : BOOLEAN]
  /\ hist \in [ide : SUBSET Range(Fields), desk : SUBSET Range(Fields), mixed : BOOLEAN,
               refused : BOOLEAN, rolled : BOOLEAN]

\* A revision names its settings: what came with the present revision are the settings
\* of the store.
Fit(e) ==
  /\ e \in Envelopes /\ e.rev <= store.rev /\ (e.init => store.init)
  /\ e.rev = store.rev => e.set = store.set

\* A write under way that is not out of date changes what its author touched.
AskOK(k, c) ==
  /\ c.rev \in Nat /\ c.rev <= store.rev /\ c.set \in Settings
  /\ k = "ide" => store.init
  /\ c.known /\ c.rev = store.rev => Within(c.set, store.set, c.touched)

CallOK(k, c) ==
  /\ c.at = "read" => Fit(c.now)
  /\ c.at = "asked" => AskOK(k, c)
  /\ c.at = "answered" => Fit(c.now) /\ (k = "ide" \/ c.ok => c.now.init)
  /\ k = "desk" /\ c.at \in {"asked", "answered"} => c.undo \in Undos
  /\ c.at = "applying" => c \in Applies
  /\ k = "menu" => c.at = "writing" /\ c.to \in Values
CallsInv == \A k \in Kinds : \A c \in Of(calls, k) : CallOK(k, c)

\* The desktop shows the settings of its revision but for what its user touched.
DeskInv ==
  /\ desk.rev <= store.rev
  /\ desk.init /\ ~hist.rolled /\ desk.rev = store.rev => Within(desk.set, store.set, hist.desk)

IdeInv ==
  /\ ide.rev <= store.rev
  /\ ide.ready => store.init /\ ide.synced # None
  /\ ide.synced # None /\ ide.rev = store.rev => ide.synced = store.set
  /\ ide.applying => Applying(calls) # {}

\* Unless applies overlapped or one was cut short, the configuration differs from what was last synced in
\* what its user touched and in what an apply still has to write.
TouchAt(cs, l, synced, touched) ==
  /\ Applying(cs) = {} => Within(l, synced, touched)
  /\ \A c \in Applying(cs) : c.set = synced /\ Within(l, c.set, touched \cup Range(c.todo))
TouchInv ==
  ide.synced # None /\ ~hist.mixed => TouchAt(calls, local, ide.synced, hist.ide)

\* A menu that shows another mode than the configuration has is about to be followed,
\* or VS Code refused to.
MenuAt(cs, mode) ==
  \/ \E c \in Of(cs, "menu") : c.to = mode
  \/ \E c \in Applying(cs) : "mode" \in Range(c.todo) /\ c.set["mode"] = mode
MenuInv == ide.mode # local["mode"] => MenuAt(calls, ide.mode) \/ hist.refused

SyncInv == TypeInv /\ CallsInv /\ DeskInv /\ IdeInv /\ TouchInv /\ MenuInv

LEMMA SyncInitially == Init => SyncInv
<1> SUFFICES ASSUME Init PROVE SyncInv
  OBVIOUS
<1> DEFINE fresh == [f \in Range(Fields) |-> Default]
<1>1. fresh \in Settings /\ \A f \in Range(Fields) : fresh[f] = Default
  BY SettingsAssumption DEF Settings
<1> HIDE DEF fresh
<1>2. PICK r \in 0 .. 1 : store = [rev |-> r, init |-> r = 1, set |-> fresh]
  BY DEF Init, fresh
<1>3. desk = [rev |-> 0, init |-> FALSE, set |-> fresh]
  BY DEF Init, fresh
<1>4. local \in Settings /\ local["mode"] \in Values
  BY SettingsAssumption, FieldsAre DEF Init, Settings
<1>5. store \in Envelopes /\ desk \in Envelopes
  BY <1>1, <1>2, <1>3 DEF Envelopes
<1>6. \A k \in Kinds : Of(calls, k) = {} /\ calls[k] = <<>>
  BY DEF Init, Of, Range
<1>7. Shape(calls)
  <2>1. IsSequence(<<>>)
    <3>1. <<>> \in Seq({})
      OBVIOUS
    <3> QED
      BY <3>1 DEF IsSequence
  <2> QED
    BY <1>6, <2>1 DEF Init, Shape
<1>8. Applying(calls) = {}
  BY <1>6 DEF Applying, Kinds
<1>9. ide = [rev |-> 0, ready |-> FALSE, synced |-> None, mode |-> local["mode"], applying |-> FALSE]
  BY DEF Init
<1>10. hist = [ide |-> {}, desk |-> {}, mixed |-> FALSE, refused |-> FALSE,
                  rolled |-> FALSE]
  BY DEF Init
<1>11. TypeInv
  BY <1>4, <1>5, <1>7, <1>9, <1>10 DEF TypeInv
<1>12. store.rev \in Nat
  BY <1>2
<1> QED
  BY <1>3, <1>6, <1>8, <1>9, <1>11, <1>12 DEF SyncInv, CallsInv, DeskInv, IdeInv, TouchInv, MenuInv

-----------------------------------------------------------------------------
(* Steps that neither apply settings nor change the configuration            *)

\* At most one operation is new, and neither the applies nor the menu's writes change.
Quiet(k, c) ==
  /\ Shape(calls') /\ Applying(calls') = Applying(calls)
  /\ Of(calls', "menu") = Of(calls, "menu")
  /\ \A l \in Kinds : \A x \in Of(calls', l) : x \in Of(calls, l) \/ (l = k /\ x = c)

LEMMA StartsQuietly ==
  ASSUME Shape(calls), NEW k \in Kinds \ {"menu"}, NEW c, c.at # "applying",
         calls' = Started(calls, k, c)
  PROVE  Quiet(k, c)
<1>1. /\ Shape(calls') /\ Of(calls', k) = Of(calls, k) \cup {c}
      /\ \A l \in Kinds \ {k} : Of(calls', l) = Of(calls, l)
  BY StartedIs
<1>2. "load" \in Kinds /\ "ide" \in Kinds /\ "menu" \in Kinds
  BY DEF Kinds
<1> QED
  BY <1>1, <1>2 DEF Quiet, Applying

LEMMA BecomesQuietly ==
  ASSUME Shape(calls), NEW k \in Kinds \ {"menu"}, NEW i \in DOMAIN calls[k], NEW c,
         c.at # "applying", calls[k][i].at # "applying", calls' = Becomes(k, i, c)
  PROVE  Quiet(k, c)
<1>1. /\ Shape(calls') /\ Of(calls, k) \ {calls[k][i]} \subseteq Of(calls', k)
      /\ \A x \in Of(calls', k) : x = c \/ \E j \in DOMAIN calls[k] \ {i} : x = calls[k][j]
      /\ \A l \in Kinds \ {k} : Of(calls', l) = Of(calls, l)
  BY BecomesIs
<1>2. \A x \in Of(calls', k) : x = c \/ x \in Of(calls, k)
  BY <1>1, PlacesAreOf
<1>3. "load" \in Kinds /\ "ide" \in Kinds /\ "menu" \in Kinds
  BY DEF Kinds
<1> QED
  BY <1>1, <1>2, <1>3 DEF Quiet, Applying

LEMMA EndsQuietly ==
  ASSUME Shape(calls), NEW k \in Kinds \ {"menu"}, NEW i \in DOMAIN calls[k],
         calls[k][i].at # "applying", calls' = Ended(k, i)
  PROVE  Quiet(k, calls[k][i])
<1>1. /\ Shape(calls') /\ Of(calls, k) \ {calls[k][i]} \subseteq Of(calls', k)
      /\ \A x \in Of(calls', k) : \E j \in DOMAIN calls[k] \ {i} : x = calls[k][j]
      /\ \A l \in Kinds \ {k} : Of(calls', l) = Of(calls, l)
  BY EndedIs
<1>2. \A x \in Of(calls', k) : x \in Of(calls, k)
  BY <1>1, PlacesAreOf
<1>3. "load" \in Kinds /\ "ide" \in Kinds /\ "menu" \in Kinds
  BY DEF Kinds
<1> QED
  BY <1>1, <1>2, <1>3 DEF Quiet, Applying

\* The store changes with its revision.
Grows == store' \in Envelopes /\ (store' = store \/ (store'.rev = store.rev + 1 /\ store'.init))

LEMMA GrowsKeepsAnswers ==
  ASSUME store \in Envelopes, Grows, NEW e, Fit(e)
  PROVE  Fit(e)'
<1>1. e.rev \in Nat /\ store.rev \in Nat
  BY DEF Fit, Envelopes
<1> QED
  BY <1>1 DEF Fit, Grows

LEMMA GrowsKeepsCalls ==
  ASSUME store \in Envelopes, Grows, NEW k, NEW c, CallOK(k, c)
  PROVE  CallOK(k, c)'
<1>1. store.rev \in Nat
  BY DEF Envelopes
<1>2. AskOK(k, c) => AskOK(k, c)'
  <2> SUFFICES ASSUME AskOK(k, c) PROVE AskOK(k, c)'
    OBVIOUS
  <2>1. CASE store' = store
    BY <2>1 DEF AskOK
  <2>2. CASE store'.rev = store.rev + 1 /\ store'.init
    <3>1. c.rev \in Nat /\ c.rev <= store.rev
      BY DEF AskOK
    <3>2. c.rev <= store'.rev /\ c.rev # store'.rev
      BY <1>1, <2>2, <3>1
    <3> QED
      BY <2>2, <3>2 DEF AskOK
  <2> QED
    BY <2>1, <2>2 DEF Grows
<1>3. c.at = "read" => Fit(c.now)'
  BY GrowsKeepsAnswers DEF CallOK
<1>4. c.at = "answered" => Fit(c.now)'
  BY GrowsKeepsAnswers DEF CallOK
<1> QED
  BY <1>2, <1>3, <1>4 DEF CallOK

LEMMA DeskKept ==
  ASSUME store \in Envelopes, desk \in Envelopes, Grows, DeskInv, desk' = desk, hist'.desk = hist.desk,
         hist'.rolled = hist.rolled
  PROVE  DeskInv'
<1>1. store.rev \in Nat /\ desk.rev \in Nat
  BY DEF Envelopes
<1>2. CASE store' = store
  BY <1>2 DEF DeskInv
<1>3. CASE store'.rev = store.rev + 1
  <2>1. desk.rev <= store'.rev /\ desk.rev # store'.rev
    BY <1>1, <1>3 DEF DeskInv
  <2> QED
    BY <2>1 DEF DeskInv
<1> QED
  BY <1>2, <1>3 DEF Grows

IdeType == [rev : Nat, ready : BOOLEAN, synced : Settings \cup {None}, mode : Values,
            applying : BOOLEAN]
HistType == [ide : SUBSET Range(Fields), desk : SUBSET Range(Fields), mixed : BOOLEAN,
             refused : BOOLEAN, rolled : BOOLEAN]

LEMMA QuietStep ==
  ASSUME SyncInv, Grows, local' = local,
         ide' = ide \/ ide' = [ide EXCEPT !.ready = FALSE],
         hist' \in HistType, hist'.ide = hist.ide, hist'.mixed = hist.mixed, hist'.refused = hist.refused,
         desk' \in Envelopes, DeskInv',
         NEW k, NEW c, Quiet(k, c), CallOK(k, c)'
  PROVE  SyncInv'
<1>1. store.rev \in Nat /\ ide.rev \in Nat /\ store \in Envelopes /\ ide \in IdeType
  BY DEF SyncInv, TypeInv, Envelopes, IdeType
<1>2. /\ ide' \in IdeType
      /\ ide'.rev = ide.rev /\ ide'.synced = ide.synced /\ ide'.mode = ide.mode
      /\ ide'.applying = ide.applying /\ (ide'.ready => ide.ready)
  BY <1>1 DEF IdeType
<1>3. TypeInv'
  BY <1>2 DEF SyncInv, TypeInv, Quiet, Grows, IdeType, HistType
<1>4. CallsInv'
  <2> SUFFICES ASSUME NEW l \in Kinds, NEW x \in Of(calls', l) PROVE CallOK(l, x)'
    BY DEF CallsInv
  <2>1. CASE x \in Of(calls, l)
    <3>1. CallOK(l, x)
      BY <2>1 DEF SyncInv, CallsInv
    <3> QED
      BY <1>1, <3>1, GrowsKeepsCalls
  <2>2. CASE l = k /\ x = c
    BY <2>2
  <2> QED
    BY <2>1, <2>2 DEF Quiet
<1>5. IdeInv'
  <2>1. CASE store' = store
    BY <1>2, <2>1 DEF SyncInv, IdeInv, Quiet
  <2>2. CASE store'.rev = store.rev + 1 /\ store'.init
    <3>1. ide.rev <= store'.rev /\ ide.rev # store'.rev
      BY <1>1, <2>2 DEF SyncInv, IdeInv
    <3> QED
      BY <1>2, <2>2, <3>1 DEF SyncInv, IdeInv, Quiet
  <2> QED
    BY <2>1, <2>2 DEF Grows
<1>6. TouchInv'
  BY <1>2 DEF SyncInv, TouchInv, TouchAt, Quiet
<1>7. MenuInv'
  BY <1>2 DEF SyncInv, MenuInv, MenuAt, Quiet
<1> QED
  BY <1>3, <1>4, <1>5, <1>6, <1>7 DEF SyncInv

LEMMA QuietSame ==
  ASSUME SyncInv, store' = store, local' = local, hist' = hist, desk' = desk,
         ide' = ide \/ ide' = [ide EXCEPT !.ready = FALSE],
         NEW k, NEW c, Quiet(k, c), CallOK(k, c)
  PROVE  SyncInv'
<1>1. store \in Envelopes /\ desk \in Envelopes /\ Grows /\ DeskInv /\ hist \in HistType
  BY DEF SyncInv, TypeInv, Grows, HistType
<1>2. DeskInv'
  BY <1>1, DeskKept
<1>3. CallOK(k, c)'
  BY <1>1, GrowsKeepsCalls
<1> QED
  BY <1>1, <1>2, <1>3, QuietStep

LEMMA UnderWayIsOK ==
  ASSUME SyncInv, NEW k \in Kinds, NEW i \in DOMAIN calls[k]
  PROVE  CallOK(k, calls[k][i])
BY PlacesAreOf DEF SyncInv, CallsInv

LEMMA ReadIsOK ==
  ASSUME SyncInv, NEW k \in {"load", "poll"}
  PROVE  CallOK(k, Read(store)) /\ Read(store).at = "read"
<1>1. Fit(store)
  BY DEF Fit, SyncInv, TypeInv, Envelopes
<1> QED
  BY <1>1 DEF CallOK, Read

LEMMA LoadStartsStep == SyncInv /\ LoadStarts => SyncInv'
<1> SUFFICES ASSUME SyncInv, LoadStarts PROVE SyncInv'
  OBVIOUS
<1>1. Quiet("load", Read(store))
  BY ReadIsOK, StartsQuietly DEF LoadStarts, SyncInv, TypeInv, Kinds
<1> QED
  BY <1>1, ReadIsOK, QuietSame DEF LoadStarts

LEMMA PollStartsStep == SyncInv /\ PollStarts => SyncInv'
<1> SUFFICES ASSUME SyncInv, PollStarts PROVE SyncInv'
  OBVIOUS
<1>1. Quiet("poll", Read(store))
  BY ReadIsOK, StartsQuietly DEF PollStarts, SyncInv, TypeInv, Kinds
<1> QED
  BY <1>1, ReadIsOK, QuietSame DEF PollStarts

\* A store that nobody initialised is offered all of the configuration.
LEMMA OfferLocalStep == SyncInv /\ OfferLocal => SyncInv'
<1> SUFFICES ASSUME SyncInv, OfferLocal PROVE SyncInv'
  OBVIOUS
<1> DEFINE w == Write(0, local, TRUE, None, Range(Fields), TRUE)
<1>1. /\ w.at = "asked" /\ w.rev = 0 /\ w.set = local /\ w.touched = Range(Fields)
  BY DEF Write
<1>2. CallOK("load", w)
  <2>1. store.rev \in Nat /\ local \in Settings
    BY DEF SyncInv, TypeInv, Envelopes
  <2> HIDE DEF w
  <2>2. Within(w.set, store.set, w.touched)
    BY <1>1 DEF Within
  <2>3. AskOK("load", w)
    BY <1>1, <2>1, <2>2 DEF AskOK
  <2> QED
    BY <1>1, <2>3 DEF CallOK
<1>3. /\ 1 \in DOMAIN calls["load"] /\ calls["load"][1].at = "read"
      /\ calls' = Becomes("load", 1, w)
  BY DEF OfferLocal, At
<1> HIDE DEF w
<1>4. Quiet("load", w)
  BY <1>1, <1>3, BecomesQuietly DEF SyncInv, TypeInv, Kinds
<1> QED
  BY <1>2, <1>4, QuietSame DEF OfferLocal

LEMMA ReadAgainStep == SyncInv /\ ReadAgain => SyncInv'
<1> SUFFICES ASSUME SyncInv, ReadAgain PROVE SyncInv'
  OBVIOUS
<1>1. ASSUME NEW c \in {Reread, Read(store)}, calls' = Becomes("load", 1, c),
             1 \in DOMAIN calls["load"], calls["load"][1].at # "applying"
      PROVE  SyncInv'
  <2>1. CallOK("load", c) /\ c.at # "applying"
    BY ReadIsOK DEF CallOK, Reread
  <2>2. Quiet("load", c)
    BY <1>1, <2>1, BecomesQuietly DEF SyncInv, TypeInv, Kinds
  <2> QED
    BY <2>1, <2>2, QuietSame DEF ReadAgain
<1>2. CASE At("load", 1, "answered") /\ calls' = Becomes("load", 1, Reread)
  BY <1>1, <1>2 DEF At
<1>3. CASE At("load", 1, "reread") /\ calls' = Becomes("load", 1, Read(store))
  BY <1>1, <1>3 DEF At
<1> QED
  BY <1>2, <1>3 DEF ReadAgain

LEMMA LoadFailsStep == SyncInv /\ LoadFails => SyncInv'
<1> SUFFICES ASSUME SyncInv, LoadFails PROVE SyncInv'
  OBVIOUS
<1>1. /\ 1 \in DOMAIN calls["load"] /\ calls["load"][1].at # "applying"
      /\ calls' = Becomes("load", 1, Failing)
  BY DEF LoadFails, At
<1>2. CallOK("load", Failing) /\ Failing.at # "applying"
  BY DEF CallOK, Failing
<1>3. Quiet("load", Failing)
  BY <1>1, <1>2, BecomesQuietly DEF SyncInv, TypeInv, Kinds
<1> QED
  BY <1>2, <1>3, QuietSame DEF LoadFails

LEMMA LoadGivesUpStep == SyncInv /\ LoadGivesUp => SyncInv'
<1> SUFFICES ASSUME SyncInv, LoadGivesUp PROVE SyncInv'
  OBVIOUS
<1>1. 1 \in DOMAIN calls["load"] /\ calls["load"][1].at # "applying"
  BY DEF LoadGivesUp, At
<1>2. Quiet("load", calls["load"][1])
  BY <1>1, EndsQuietly DEF LoadGivesUp, SyncInv, TypeInv, Kinds
<1>3. CallOK("load", calls["load"][1])
  BY <1>1, UnderWayIsOK DEF Kinds
<1> QED
  BY <1>2, <1>3, QuietSame DEF LoadGivesUp

LEMMA SaveFailsStep ==
  ASSUME SyncInv, NEW i \in DOMAIN calls["ide"], SaveFails(i)
  PROVE  SyncInv'
<1>1. Quiet("ide", calls["ide"][i])
  BY EndsQuietly DEF SaveFails, At, SyncInv, TypeInv, Kinds
<1>2. CallOK("ide", calls["ide"][i])
  BY UnderWayIsOK DEF Kinds
<1> QED
  BY <1>1, <1>2, QuietSame DEF SaveFails

-----------------------------------------------------------------------------
(* The store                                                                 *)

\* A write is accepted at the revision it names only, and answered with the settings
\* there are.
LEMMA PutIs ==
  ASSUME SyncInv, NEW k \in {"load", "ide", "desk"}, NEW i \in DOMAIN calls[k], Put(k, i)
  PROVE  /\ AskOK(k, calls[k][i])
         /\ store' # store =>
              calls[k][i].rev = store.rev /\ store'.set = calls[k][i].set
         /\ SyncInv'
<1> DEFINE c == calls[k][i]
           next == IF Accepts(c) THEN [rev |-> store.rev + 1, init |-> TRUE, set |-> c.set] ELSE store
<1>0. PICK new : new = next
  OBVIOUS
<1> DEFINE reply == [at |-> "answered", ok |-> Accepts(c), now |-> new, undo |-> c.undo]
<1>16. PICK ans : ans = reply
  OBVIOUS
<1>1. /\ c.at = "asked" /\ store' = new /\ calls' = Becomes(k, i, ans)
      /\ local' = local /\ ide' = ide /\ desk' = desk /\ hist' = hist
  BY <1>0, <1>16 DEF Put, At
<1>2. k \in Kinds /\ k # "menu"
  BY DEF Kinds
<1>3. CallOK(k, c) /\ AskOK(k, c)
  BY <1>1, <1>2, UnderWayIsOK DEF CallOK
<1>4. store \in Envelopes /\ store.rev \in Nat /\ c.set \in Settings
  BY <1>3 DEF SyncInv, TypeInv, Envelopes, AskOK
<1> HIDE DEF c
<1>5. new \in Envelopes /\ (Accepts(c) => new.rev = store.rev + 1 /\ new.init /\ new.set = c.set)
  BY <1>0, <1>4 DEF Envelopes
<1>6. ~Accepts(c) => new = store
  BY <1>0
<1>7. Accepts(c) => c.rev = store.rev
  BY DEF Accepts
<1>8. Accepts(c) \/ ~Accepts(c)
  OBVIOUS
<1>9. ans.at = "answered" /\ ans.now = new /\ ans.ok = Accepts(c) /\ ans.undo = c.undo
  BY <1>16
<1> HIDE DEF next, reply
<1>10. Grows
  BY <1>1, <1>5, <1>6 DEF Grows
<1>11. CallOK(k, ans)'
  <2>1. Fit(new)'
    <3>1. new.rev \in Nat
      BY <1>5 DEF Envelopes
    <3> QED
      BY <1>1, <1>5, <3>1 DEF Fit
  <2>2. k = "ide" \/ ans.ok => new.init
    BY <1>3, <1>5, <1>6, <1>9 DEF AskOK
  <2>3. k = "desk" => ans.undo \in Undos
    BY <1>1, <1>3, <1>9 DEF CallOK
  <2> QED
    BY <1>2, <1>9, <2>1, <2>2, <2>3 DEF CallOK
<1>12. Quiet(k, ans)
  BY <1>1, <1>2, <1>9, BecomesQuietly DEF SyncInv, TypeInv, c
<1>13. desk \in Envelopes /\ DeskInv /\ hist \in HistType
  BY DEF SyncInv, TypeInv, HistType
<1>14. DeskInv'
  BY <1>1, <1>4, <1>10, <1>13, DeskKept
<1>15. SyncInv'
  BY <1>1, <1>10, <1>11, <1>12, <1>13, <1>14, QuietStep
<1> QED
  BY <1>1, <1>3, <1>5, <1>6, <1>7, <1>15 DEF c

LEMMA ResetOnceStep == SyncInv /\ ResetOnce => SyncInv'
<1> SUFFICES ASSUME SyncInv, ResetOnce PROVE SyncInv'
  OBVIOUS
<1>1. /\ store.init /\ store' = [store EXCEPT !.rev = @ + 1, !.set["mode"] = Default]
      /\ local' = local /\ ide' = ide /\ desk' = desk /\ hist' = hist /\ calls' = calls
  BY DEF ResetOnce
<1>2. PICK r \in Nat, b \in BOOLEAN, s \in Settings : store = [rev |-> r, init |-> b, set |-> s]
  BY DEF SyncInv, TypeInv, Envelopes
<1>3. PICK t : t = [s EXCEPT !["mode"] = Default]
  OBVIOUS
<1>4. t \in Settings
  BY <1>2, <1>3, SettingsAssumption DEF Settings
<1>5. store' = [rev |-> r + 1, init |-> b, set |-> t]
  BY <1>1, <1>2, <1>3
<1>9. b = TRUE
  BY <1>1, <1>2
<1>10. store' \in Envelopes
  BY <1>4, <1>5 DEF Envelopes
<1>11. store'.rev = store.rev + 1 /\ store'.init
  BY <1>2, <1>5, <1>9
<1>6. Grows
  BY <1>10, <1>11 DEF Grows
<1>7. store \in Envelopes /\ desk \in Envelopes /\ DeskInv /\ hist \in HistType
  BY DEF SyncInv, TypeInv, HistType
<1>8. DeskInv'
  BY <1>1, <1>6, <1>7, DeskKept
<1>12. Quiet("poll", Reread) /\ CallOK("poll", Reread)'
  BY <1>1 DEF Quiet, CallOK, Reread, SyncInv, TypeInv
<1> QED
  BY <1>1, <1>6, <1>7, <1>8, <1>12, QuietStep

-----------------------------------------------------------------------------
(* The desktop                                                               *)

\* What the desktop does to itself keeps its invariant and the dashboard's history.
DeskMoves ==
  /\ desk' \in Envelopes /\ hist' \in HistType /\ DeskInv'
  /\ hist'.ide = hist.ide /\ hist'.mixed = hist.mixed /\ hist'.refused = hist.refused

LEMMA EnvelopeIs ==
  ASSUME SyncInv, store' = store, NEW now, Fit(now), Envelope(now)
  PROVE  DeskMoves
<1>1. desk \in Envelopes /\ hist \in HistType /\ now \in Envelopes /\ DeskInv /\ store \in Envelopes
  BY DEF SyncInv, TypeInv, HistType, Fit
<1>2. CASE now.init
  <2>1. desk' = now /\ hist' = [hist EXCEPT !.desk = {}, !.rolled = FALSE]
    BY <1>2 DEF Envelope
  <2>2. /\ hist' \in HistType /\ hist'.ide = hist.ide /\ hist'.mixed = hist.mixed
        /\ hist'.desk = {} /\ hist'.refused = hist.refused
    BY <1>1, <2>1 DEF HistType
  <2>3. DeskInv'
    BY <2>1 DEF DeskInv, Fit, Within
  <2> QED
    BY <1>1, <2>1, <2>2, <2>3 DEF DeskMoves
<1>3. CASE ~now.init
  <2>1. desk' = [desk EXCEPT !.rev = now.rev, !.init = FALSE] /\ hist' = hist
    BY <1>3 DEF Envelope
  <2>2. PICK r \in Nat, b \in BOOLEAN, s \in Settings : desk = [rev |-> r, init |-> b, set |-> s]
    BY <1>1 DEF Envelopes
  <2>3. desk' = [rev |-> now.rev, init |-> FALSE, set |-> s]
    BY <2>1, <2>2
  <2>4. now.rev \in Nat
    BY <1>1 DEF Envelopes
  <2>5. desk' \in Envelopes
    BY <2>3, <2>4 DEF Envelopes
  <2>6. DeskInv'
    BY <2>3 DEF DeskInv, Fit
  <2> QED
    BY <1>1, <2>1, <2>5, <2>6 DEF DeskMoves
<1> QED
  BY <1>2, <1>3

\* A rollback shows what the store never had; the history says so.
LEMMA RollbackIs ==
  ASSUME SyncInv, store' = store, NEW undo \in Undos, Rollback(undo)
  PROVE  DeskMoves
<1>1. desk \in Envelopes /\ hist \in HistType /\ DeskInv /\ store \in Envelopes
  BY DEF SyncInv, TypeInv, HistType
<1>2. CASE desk' = desk /\ hist' = hist
  <2>1. DeskInv'
    BY <1>1, <1>2 DEF DeskInv
  <2> QED
    BY <1>1, <1>2, <2>1 DEF DeskMoves
<1>3. CASE /\ desk' = [desk EXCEPT !.set[undo.field] = undo.from]
           /\ hist' = [hist EXCEPT !.rolled = TRUE]
  <2>1. PICK r \in Nat, b \in BOOLEAN, s \in Settings : desk = [rev |-> r, init |-> b, set |-> s]
    BY <1>1 DEF Envelopes
  <2>2. PICK f \in Range(Fields), v \in Values : f = undo.field /\ v = undo.from
    BY DEF Undos
  <2>3. PICK t : t = [s EXCEPT ![f] = v]
    OBVIOUS
  <2>4. t \in Settings
    BY <2>3 DEF Settings
  <2>5. desk' = [rev |-> r, init |-> b, set |-> t]
    BY <1>3, <2>1, <2>2, <2>3
  <2>6. /\ hist' \in HistType /\ hist'.ide = hist.ide /\ hist'.mixed = hist.mixed
        /\ hist'.rolled = TRUE /\ hist'.refused = hist.refused
    BY <1>1, <1>3 DEF HistType
  <2>7. desk' \in Envelopes
    BY <2>4, <2>5 DEF Envelopes
  <2>8. DeskInv'
    BY <1>1, <2>1, <2>5, <2>6 DEF DeskInv
  <2> QED
    BY <2>6, <2>7, <2>8 DEF DeskMoves
<1> QED
  BY <1>2, <1>3 DEF Rollback

LEMMA DeskStepIs ==
  ASSUME SyncInv, store' = store, local' = local, ide' = ide, DeskMoves,
         NEW k, NEW c, Quiet(k, c), CallOK(k, c)
  PROVE  SyncInv'
<1>1. store \in Envelopes /\ Grows
  BY DEF SyncInv, TypeInv, Grows
<1>2. CallOK(k, c)'
  BY <1>1, GrowsKeepsCalls
<1> QED
  BY <1>1, <1>2, QuietStep DEF DeskMoves

LEMMA PollAnsweredStep == SyncInv /\ PollAnswered => SyncInv'
<1> SUFFICES ASSUME SyncInv, PollAnswered PROVE SyncInv'
  OBVIOUS
<1> DEFINE c == calls["poll"][1]
<1>1. /\ 1 \in DOMAIN calls["poll"] /\ c.at = "read" /\ Envelope(c.now)
      /\ calls' = Ended("poll", 1)
      /\ store' = store /\ local' = local /\ ide' = ide
  BY DEF PollAnswered, At
<1>2. CallOK("poll", c)
  BY <1>1, UnderWayIsOK DEF Kinds
<1>3. Quiet("poll", c)
  BY <1>1, EndsQuietly DEF SyncInv, TypeInv, Kinds
<1> HIDE DEF c
<1>4. Fit(c.now)
  BY <1>1, <1>2 DEF CallOK
<1>5. DeskMoves
  BY <1>1, <1>4, EnvelopeIs
<1> QED
  BY <1>1, <1>2, <1>3, <1>5, DeskStepIs

LEMMA EditAnsweredStep ==
  ASSUME SyncInv, NEW i \in DOMAIN calls["desk"], EditAnswered(i)
  PROVE  SyncInv'
<1> DEFINE c == calls["desk"][i]
<1>1. /\ c.at = "answered" /\ (IF c.ok THEN Envelope(c.now) ELSE Rollback(c.undo))
      /\ calls' = Ended("desk", i)
      /\ store' = store /\ local' = local /\ ide' = ide
  BY DEF EditAnswered, At
<1>2. CallOK("desk", c)
  BY UnderWayIsOK DEF Kinds
<1>3. Quiet("desk", c)
  BY <1>1, EndsQuietly DEF SyncInv, TypeInv, Kinds
<1> HIDE DEF c
<1>4. Fit(c.now) /\ c.undo \in Undos
  BY <1>1, <1>2 DEF CallOK
<1>5. DeskMoves
  BY <1>1, <1>4, EnvelopeIs, RollbackIs
<1> QED
  BY <1>1, <1>2, <1>3, <1>5, DeskStepIs

LEMMA EditFailsStep ==
  ASSUME SyncInv, NEW i \in DOMAIN calls["desk"], EditFails(i)
  PROVE  SyncInv'
<1> DEFINE c == calls["desk"][i]
<1>1. /\ c.at \in {"asked", "answered"} /\ Rollback(c.undo)
      /\ calls' = Ended("desk", i)
      /\ store' = store /\ local' = local /\ ide' = ide
  BY DEF EditFails, At
<1>2. CallOK("desk", c)
  BY UnderWayIsOK DEF Kinds
<1>3. Quiet("desk", c)
  BY <1>1, EndsQuietly DEF SyncInv, TypeInv, Kinds
<1> HIDE DEF c
<1>4. c.undo \in Undos
  BY <1>1, <1>2 DEF CallOK
<1>5. DeskMoves
  BY <1>1, <1>4, RollbackIs
<1> QED
  BY <1>1, <1>2, <1>3, <1>5, DeskStepIs

\* The desktop sends all of its settings with every edit.
LEMMA EditDeskStep ==
  ASSUME SyncInv, NEW f \in Range(Fields), NEW v \in Values, EditDesk(f, v)
  PROVE  SyncInv'
<1>1. PICK new : new = [desk.set EXCEPT ![f] = v]
  OBVIOUS
<1> DEFINE undo == [field |-> f, to |-> v, from |-> desk.set[f]]
           touched == IF desk.init THEN hist.desk \cup {f} ELSE Range(Fields)
           w == Write(desk.rev, new, ~desk.init, undo, touched, ~hist.rolled)
<1>2. /\ desk' = [desk EXCEPT !.set = new] /\ hist' = [hist EXCEPT !.desk = @ \cup {f}]
      /\ calls' = Started(calls, "desk", w)
      /\ store' = store /\ local' = local /\ ide' = ide
  BY <1>1 DEF EditDesk
<1>3. /\ desk \in Envelopes /\ desk.set \in Settings /\ desk.rev \in Nat /\ hist \in HistType
      /\ store \in Envelopes /\ DeskInv
  BY DEF SyncInv, TypeInv, HistType, Envelopes
<1>4. new \in Settings /\ \A g \in Range(Fields) : g # f => new[g] = desk.set[g]
  BY <1>1, <1>3 DEF Settings
<1>5. undo \in Undos
  BY <1>3 DEF Undos, Settings
<1> HIDE DEF undo
<1>6. desk.init /\ ~hist.rolled /\ desk.rev = store.rev => Within(new, store.set, hist.desk \cup {f})
  BY <1>3, <1>4 DEF DeskInv, Within
<1>7. /\ w.at = "asked" /\ w.rev = desk.rev /\ w.set = new /\ w.undo = undo
      /\ w.touched = touched /\ w.known = ~hist.rolled
  BY DEF Write
<1>8. w.known /\ w.rev = store.rev => Within(w.set, store.set, w.touched)
  <2>1. CASE desk.init
    BY <1>6, <1>7, <2>1
  <2>2. CASE ~desk.init
    BY <1>7, <2>2 DEF Within
  <2> QED
    BY <2>1, <2>2
<1> HIDE DEF w
<1>9. CallOK("desk", w)
  <2>1. AskOK("desk", w)
    BY <1>3, <1>4, <1>7, <1>8 DEF AskOK, DeskInv
  <2> QED
    BY <1>5, <1>7, <2>1 DEF CallOK
<1>10. Quiet("desk", w)
  BY <1>2, <1>7, StartsQuietly DEF SyncInv, TypeInv, Kinds
<1>11. DeskMoves
  <2>1. desk' \in Envelopes /\ desk'.rev = desk.rev /\ desk'.init = desk.init /\ desk'.set = new
    BY <1>2, <1>3, <1>4 DEF Envelopes
  <2>2. /\ hist' \in HistType /\ hist'.ide = hist.ide /\ hist'.mixed = hist.mixed
        /\ hist'.desk = hist.desk \cup {f} /\ hist'.rolled = hist.rolled /\ hist'.refused = hist.refused
    BY <1>2, <1>3 DEF HistType
  <2>3. DeskInv'
    BY <1>2, <1>3, <1>6, <2>1, <2>2 DEF DeskInv
  <2> QED
    BY <2>1, <2>2, <2>3 DEF DeskMoves
<1> QED
  BY <1>2, <1>9, <1>10, <1>11, DeskStepIs

-----------------------------------------------------------------------------
(* The dashboard                                                             *)

\* A save that is known to belong to its revision changes what the user touched.
LEMMA SaveIsOK ==
  ASSUME SyncInv, ide.ready, NEW set \in Settings, NEW touched, NEW known,
         known => Within(set, ide.synced, touched)
  PROVE  LET w == Write(ide.rev, set, FALSE, None, touched, known) IN
         w.at = "asked" /\ CallOK("ide", w)
<1> DEFINE w == Write(ide.rev, set, FALSE, None, touched, known)
<1>1. /\ w.at = "asked" /\ w.rev = ide.rev /\ w.set = set /\ w.touched = touched
      /\ w.known = known
  BY DEF Write
<1> HIDE DEF w
<1>2. /\ ide.rev \in Nat /\ ide.rev <= store.rev /\ store.init
      /\ ide.rev = store.rev => ide.synced = store.set
  BY DEF SyncInv, TypeInv, IdeInv
<1>3. AskOK("ide", w)
  BY <1>1, <1>2 DEF AskOK
<1> QED
  BY <1>1, <1>3 DEF CallOK, w

\* The conditions under which a change of the configuration keeps the invariant.
LEMMA ChangedStep ==
  ASSUME SyncInv, store' = store, desk' = desk,
         NEW l \in Settings, NEW f, NEW cs, NEW touched \in SUBSET Range(Fields),
         Changed(l, f, cs, touched),
         Shape(cs), \A k \in Kinds : \A x \in Of(cs, k) : CallOK(k, x),
         ide.applying => Applying(cs) # {},
         ide.synced # None /\ ~hist.mixed => TouchAt(cs, l, ide.synced, touched),
         ide.synced # None /\ ~hist.mixed /\ Applying(calls) = {} => Within(l, ide.synced, touched),
         f # "mode" => l["mode"] = local["mode"] /\ (MenuAt(calls, ide.mode) => MenuAt(cs, ide.mode))
  PROVE  SyncInv'
<1> DEFINE known == ~hist.mixed /\ ~Others("ide", 0)
           w == Write(ide.rev, l, FALSE, None, touched, known)
<1>1. /\ local' = l /\ hist' = [hist EXCEPT !.ide = touched, !.refused = @ /\ f # "mode"]
      /\ ide' = [ide EXCEPT !.mode = IF f = "mode" THEN l["mode"] ELSE @]
      /\ \/ calls' = cs
         \/ ide.ready /\ calls' = Started(cs, "ide", w)
  BY DEF Changed, Save
<1>2. ide \in IdeType /\ hist \in HistType /\ l["mode"] \in Values /\ Shape(calls)
  BY FieldsAre DEF SyncInv, TypeInv, IdeType, HistType, Settings
<1>3. /\ ide' \in IdeType
      /\ ide'.rev = ide.rev /\ ide'.ready = ide.ready /\ ide'.synced = ide.synced
      /\ ide'.applying = ide.applying
      /\ ide'.mode = IF f = "mode" THEN l["mode"] ELSE ide.mode
  BY <1>1, <1>2 DEF IdeType
<1>4. /\ hist' \in HistType /\ hist'.ide = touched /\ hist'.desk = hist.desk
      /\ hist'.mixed = hist.mixed /\ hist'.rolled = hist.rolled
      /\ f # "mode" => hist'.refused = hist.refused
  BY <1>1, <1>2 DEF HistType
<1>5. ide.ready => w.at = "asked" /\ CallOK("ide", w)
  <2> SUFFICES ASSUME ide.ready PROVE w.at = "asked" /\ CallOK("ide", w)
    OBVIOUS
  <2>1. ide.synced # None
    BY DEF SyncInv, IdeInv
  <2>2. known => Within(l, ide.synced, touched)
    BY <1>2, <2>1, OthersIs
  <2> HIDE DEF known
  <2> QED
    BY <2>2, SaveIsOK
<1> HIDE DEF w, known
<1>6. /\ Shape(calls') /\ Applying(calls') = Applying(cs) /\ Of(calls', "menu") = Of(cs, "menu")
      /\ \A k \in Kinds : \A x \in Of(calls', k) : CallOK(k, x)
  <2>1. CASE calls' = cs
    BY <2>1
  <2>2. CASE ide.ready /\ calls' = Started(cs, "ide", w)
    <3>1. /\ Shape(calls') /\ Of(calls', "ide") = Of(cs, "ide") \cup {w}
          /\ \A k \in Kinds \ {"ide"} : Of(calls', k) = Of(cs, k)
      BY <2>2, StartedIs DEF Kinds
    <3>2. "load" \in Kinds /\ "ide" \in Kinds /\ "menu" \in Kinds
      BY DEF Kinds
    <3>3. w.at # "applying"
      BY <1>5, <2>2
    <3>4. Applying(calls') = Applying(cs)
      BY <3>1, <3>2, <3>3 DEF Applying
    <3> QED
      BY <1>5, <2>2, <3>1, <3>2, <3>4
  <2> QED
    BY <1>1, <2>1, <2>2
<1>7. store \in Envelopes /\ desk \in Envelopes /\ Grows /\ DeskInv
  BY DEF SyncInv, TypeInv, Grows
<1>8. TypeInv'
  BY <1>1, <1>3, <1>4, <1>6, <1>7 DEF SyncInv, TypeInv, IdeType, HistType
<1>9. CallsInv'
  BY <1>6, <1>7, GrowsKeepsCalls DEF CallsInv
<1>10. DeskInv'
  BY <1>4, <1>7, DeskKept
<1>11. IdeInv'
  BY <1>3, <1>6 DEF SyncInv, IdeInv
<1>12. TouchInv'
  BY <1>1, <1>3, <1>4, <1>6 DEF TouchInv, TouchAt
<1>13. MenuInv'
  BY <1>1, <1>3, <1>4, <1>6 DEF SyncInv, MenuInv, MenuAt
<1> QED
  BY <1>8, <1>9, <1>10, <1>11, <1>12, <1>13 DEF SyncInv

\* A user's edit of one field.
LEMMA TouchOne ==
  ASSUME NEW cs, NEW l \in Settings, NEW synced, NEW touched, NEW f, NEW v,
         TouchAt(cs, l, synced, touched)
  PROVE  TouchAt(cs, [l EXCEPT ![f] = v], synced, touched \cup {f})
<1> DEFINE m == [l EXCEPT ![f] = v]
<1>1. \A g \in Range(Fields) : g # f => m[g] = l[g]
  BY DEF Settings
<1> HIDE DEF m
<1>2. ASSUME NEW set, NEW fields, Within(l, set, fields)
      PROVE  Within(m, set, fields \cup {f})
  BY <1>1, <1>2 DEF Within
<1>3. ASSUME NEW c \in Applying(cs) PROVE Within(m, c.set, (touched \cup {f}) \cup Range(c.todo))
  <2>1. Within(m, c.set, (touched \cup Range(c.todo)) \cup {f})
    BY <1>2 DEF TouchAt
  <2>2. (touched \cup Range(c.todo)) \cup {f} = (touched \cup {f}) \cup Range(c.todo)
    OBVIOUS
  <2> QED
    BY <2>1, <2>2
<1>4. Applying(cs) = {} => Within(m, synced, touched \cup {f})
  BY <1>2 DEF TouchAt
<1>5. \A c \in Applying(cs) : c.set = synced
  BY DEF TouchAt
<1> QED
  BY <1>3, <1>4, <1>5 DEF TouchAt, m

LEMMA EditConfigStep ==
  ASSUME SyncInv, NEW f \in Range(Fields), NEW v \in Values, EditConfig(f, v)
  PROVE  SyncInv'
<1> DEFINE l == [local EXCEPT ![f] = v]
           touched == hist.ide \cup {f}
<1>1. /\ store' = store /\ desk' = desk /\ Changed(l, f, calls, touched)
  BY DEF EditConfig
<1>2. local \in Settings /\ hist \in HistType /\ Shape(calls)
  BY DEF SyncInv, TypeInv, HistType
<1>3. l \in Settings /\ touched \in SUBSET Range(Fields)
  BY <1>2 DEF Settings, HistType
<1>4. ide.synced # None /\ ~hist.mixed => TouchAt(calls, l, ide.synced, touched)
  BY <1>2, TouchOne DEF SyncInv, TouchInv
<1>5. f # "mode" => l["mode"] = local["mode"]
  BY <1>2 DEF Settings
<1> HIDE DEF l, touched
<1>6. ide.synced # None /\ ~hist.mixed /\ Applying(calls) = {} => Within(l, ide.synced, touched)
  BY <1>4 DEF TouchAt
<1> QED
  BY <1>1, <1>2, <1>3, <1>4, <1>5, <1>6, ChangedStep DEF SyncInv, CallsInv, IdeInv

\* A menu's write, when it ends, leaves the applies alone.
LEMMA MenuEnds ==
  ASSUME SyncInv, NEW i \in DOMAIN calls["menu"]
  PROVE  LET cs == Ended("menu", i) IN
         /\ Shape(cs) /\ Applying(cs) = Applying(calls)
         /\ \A k \in Kinds : Of(cs, k) \subseteq Of(calls, k)
         /\ \A x \in Of(calls, "menu") : x = calls["menu"][i] \/ x \in Of(cs, "menu")
<1> DEFINE cs == Ended("menu", i)
<1>1. "load" \in Kinds /\ "ide" \in Kinds /\ "menu" \in Kinds
  BY DEF Kinds
<1>2. /\ Shape(cs) /\ Of(calls, "menu") \ {calls["menu"][i]} \subseteq Of(cs, "menu")
      /\ \A x \in Of(cs, "menu") : \E j \in DOMAIN calls["menu"] \ {i} : x = calls["menu"][j]
      /\ \A l \in Kinds \ {"menu"} : Of(cs, l) = Of(calls, l)
  BY <1>1, EndedIs DEF SyncInv, TypeInv
<1> HIDE DEF cs
<1>3. \A x \in Of(cs, "menu") : x \in Of(calls, "menu")
  BY <1>2, PlacesAreOf
<1> QED
  BY <1>1, <1>2, <1>3 DEF Applying, cs

LEMMA MenuWritesStep ==
  ASSUME SyncInv, NEW i \in DOMAIN calls["menu"], MenuWrites(i)
  PROVE  SyncInv'
<1> DEFINE c == calls["menu"][i]
           v == c.to
           cs == Ended("menu", i)
           l == [local EXCEPT !["mode"] = v]
           touched == hist.ide \cup {"mode"}
<1>1. /\ store' = store /\ desk' = desk
      /\ \/ Changed(l, "mode", cs, touched)
         \/ local["mode"] = v /\ calls' = cs /\ local' = local /\ ide' = ide /\ hist' = hist
  BY DEF MenuWrites
<1>2. local \in Settings /\ hist \in HistType /\ store \in Envelopes /\ Grows
  BY <1>1 DEF SyncInv, TypeInv, HistType, Grows
<1>3. v \in Values
  BY UnderWayIsOK DEF CallOK, Kinds
<1>4. /\ Shape(cs) /\ Applying(cs) = Applying(calls)
      /\ \A k \in Kinds : Of(cs, k) \subseteq Of(calls, k)
      /\ \A x \in Of(calls, "menu") : x = c \/ x \in Of(cs, "menu")
  BY MenuEnds
<1> HIDE DEF c, cs
<1>5. \A k \in Kinds : \A x \in Of(cs, k) : CallOK(k, x)
  BY <1>4 DEF SyncInv, CallsInv
<1>6. ide.synced # None /\ ~hist.mixed => TouchAt(cs, local, ide.synced, hist.ide)
  BY <1>4 DEF SyncInv, TouchInv, TouchAt
<1>7. CASE Changed(l, "mode", cs, touched)
  <2>1. l \in Settings /\ touched \in SUBSET Range(Fields)
    BY <1>2, <1>3, FieldsAre DEF Settings, HistType
  <2>2. ide.synced # None /\ ~hist.mixed => TouchAt(cs, l, ide.synced, touched)
    BY <1>2, <1>6, TouchOne
  <2>3. ide.applying => Applying(cs) # {}
    BY <1>4 DEF SyncInv, IdeInv
  <2> HIDE DEF l, touched
  <2>4. ide.synced # None /\ ~hist.mixed /\ Applying(calls) = {} => Within(l, ide.synced, touched)
    BY <1>4, <2>2 DEF TouchAt
  <2> QED
    BY <1>1, <1>4, <1>5, <1>7, <2>1, <2>2, <2>3, <2>4, ChangedStep
<1>8. CASE local["mode"] = v /\ calls' = cs /\ local' = local /\ ide' = ide /\ hist' = hist
  <2>1. TypeInv'
    BY <1>1, <1>4, <1>8 DEF SyncInv, TypeInv
  <2>2. CallsInv'
    BY <1>2, <1>5, <1>8, GrowsKeepsCalls DEF CallsInv
  <2>3. DeskInv' /\ IdeInv' /\ TouchInv'
    BY <1>1, <1>4, <1>6, <1>8 DEF SyncInv, DeskInv, IdeInv, TouchInv
  <2>4. MenuInv'
    <3> SUFFICES ASSUME ide.mode # local["mode"], ~hist.refused PROVE MenuAt(cs, ide.mode)
      BY <1>8 DEF MenuInv
    <3>1. MenuAt(calls, ide.mode)
      BY DEF SyncInv, MenuInv
    <3>2. c.to # ide.mode
      BY <1>8
    <3> QED
      BY <1>4, <3>1, <3>2 DEF MenuAt
  <2> QED
    BY <2>1, <2>2, <2>3, <2>4 DEF SyncInv
<1> QED
  BY <1>1, <1>7, <1>8

LEMMA MenuRefusedStep ==
  ASSUME SyncInv, NEW i \in DOMAIN calls["menu"], MenuRefused(i)
  PROVE  SyncInv'
<1> DEFINE cs == Ended("menu", i)
<1>1. /\ store' = store /\ desk' = desk /\ local' = local /\ ide' = ide /\ calls' = cs
      /\ hist' = [hist EXCEPT !.refused = TRUE]
  BY DEF MenuRefused
<1>2. hist \in HistType /\ store \in Envelopes /\ Grows
  BY <1>1 DEF SyncInv, TypeInv, HistType, Grows
<1>3. /\ Shape(cs) /\ Applying(cs) = Applying(calls)
      /\ \A k \in Kinds : Of(cs, k) \subseteq Of(calls, k)
  BY MenuEnds
<1> HIDE DEF cs
<1>4. /\ hist' \in HistType /\ hist'.ide = hist.ide /\ hist'.desk = hist.desk /\ hist'.mixed = hist.mixed
      /\ hist'.refused = TRUE /\ hist'.rolled = hist.rolled
  BY <1>1, <1>2 DEF HistType
<1>5. TypeInv'
  BY <1>1, <1>3, <1>4 DEF SyncInv, TypeInv, HistType
<1>6. CallsInv'
  BY <1>1, <1>2, <1>3, GrowsKeepsCalls DEF SyncInv, CallsInv
<1>7. DeskInv' /\ IdeInv' /\ TouchInv'
  BY <1>1, <1>3, <1>4 DEF SyncInv, DeskInv, IdeInv, TouchInv, TouchAt
<1>8. MenuInv'
  BY <1>4 DEF MenuInv
<1> QED
  BY <1>5, <1>6, <1>7, <1>8 DEF SyncInv

\* A choice in the menu is sent when there is a broker, and written otherwise.
LEMMA ChooseStep ==
  ASSUME SyncInv, NEW v \in Values, Choose(v)
  PROVE  SyncInv'
<1>1. /\ store' = store /\ local' = local /\ desk' = desk /\ hist' = hist
  BY DEF Choose
<1>2. local \in Settings /\ ide \in IdeType /\ Shape(calls) /\ store \in Envelopes /\ Grows
  BY <1>1 DEF SyncInv, TypeInv, IdeType, Grows
<1>3. CASE ide.ready
  <2> DEFINE set == [local EXCEPT !["mode"] = v]
             touched == hist.ide \cup {"mode"}
             known == ~hist.mixed /\ ~Others("ide", 0)
             w == Write(ide.rev, set, FALSE, None, touched, known)
  <2>1. calls' = Started(calls, "ide", w) /\ ide' = ide
    BY <1>3 DEF Choose, Save
  <2>2. set \in Settings
    BY <1>2 DEF Settings
  <2>3. known => Within(set, ide.synced, touched)
    <3> SUFFICES ASSUME known PROVE Within(set, ide.synced, touched)
      OBVIOUS
    <3>1. Applying(calls) = {} /\ ide.synced # None
      BY <1>2, <1>3, OthersIs DEF SyncInv, IdeInv
    <3>2. TouchAt(calls, local, ide.synced, hist.ide)
      BY <3>1 DEF SyncInv, TouchInv
    <3>3. TouchAt(calls, set, ide.synced, touched)
      BY <1>2, <3>2, TouchOne
    <3> HIDE DEF set, touched
    <3> QED
      BY <3>1, <3>3 DEF TouchAt
  <2> HIDE DEF set, known, touched
  <2>4. w.at = "asked" /\ CallOK("ide", w)
    BY <1>3, <2>2, <2>3, SaveIsOK
  <2> HIDE DEF w
  <2>5. Quiet("ide", w)
    BY <1>2, <2>1, <2>4, StartsQuietly DEF Kinds
  <2> QED
    BY <1>1, <2>1, <2>4, <2>5, QuietSame
<1>4. CASE ~ide.ready
  <2> DEFINE w == [at |-> "writing", to |-> v]
  <2>1. calls' = Started(calls, "menu", w) /\ ide' = [ide EXCEPT !.mode = v]
    BY <1>4 DEF Choose
  <2>2. w.at = "writing" /\ w.to = v
    OBVIOUS
  <2> HIDE DEF w
  <2>3. CallOK("menu", w)
    BY <2>2 DEF CallOK
  <2>4. /\ Shape(calls') /\ Of(calls', "menu") = Of(calls, "menu") \cup {w}
        /\ \A l \in Kinds \ {"menu"} : Of(calls', l) = Of(calls, l)
    BY <1>2, <2>1, StartedIs DEF Kinds
  <2>5. Applying(calls') = Applying(calls)
    BY <2>4 DEF Applying, Kinds
  <2>6. /\ ide' \in IdeType /\ ide'.mode = v /\ ide'.rev = ide.rev /\ ide'.ready = ide.ready
        /\ ide'.synced = ide.synced /\ ide'.applying = ide.applying
    BY <1>2, <2>1 DEF IdeType
  <2>7. TypeInv'
    BY <1>1, <2>4, <2>6 DEF SyncInv, TypeInv, IdeType
  <2>8. CallsInv'
    <3> SUFFICES ASSUME NEW k \in Kinds, NEW x \in Of(calls', k) PROVE CallOK(k, x)'
      BY DEF CallsInv
    <3>1. CallOK(k, x)
      BY <2>3, <2>4 DEF SyncInv, CallsInv
    <3> QED
      BY <1>2, <3>1, GrowsKeepsCalls
  <2>9. DeskInv' /\ IdeInv' /\ TouchInv'
    BY <1>1, <2>5, <2>6 DEF SyncInv, DeskInv, IdeInv, TouchInv, TouchAt
  <2>10. MenuInv'
    BY <2>2, <2>4, <2>6 DEF MenuInv, MenuAt
  <2> QED
    BY <2>7, <2>8, <2>9, <2>10 DEF SyncInv
<1> QED
  BY <1>3, <1>4

\* What an apply has written it need not write any more.
LEMMA TailIs ==
  ASSUME NEW S, NEW s \in Seq(S), s # <<>>
  PROVE  /\ Head(s) \in S /\ Tail(s) \in Seq(S)
         /\ Range(s) = {Head(s)} \cup Range(Tail(s))
<1>1. PICK n \in Nat : n = Len(s) /\ DOMAIN s = 1 .. n
  OBVIOUS
<1>2. n > 0
  BY <1>1
<1>3. /\ Head(s) = s[1] /\ 1 \in 1 .. n /\ Tail(s) \in Seq(S) /\ DOMAIN Tail(s) = 1 .. n - 1
      /\ \A j \in 1 .. n - 1 : Tail(s)[j] = s[j + 1]
  BY <1>1, <1>2
<1> DEFINE t == Tail(s)
           h == Head(s)
<1>4. h \in S /\ t \in Seq(S)
  BY <1>1, <1>3
<1>5. /\ h = s[1] /\ 1 \in 1 .. n /\ DOMAIN t = 1 .. n - 1 /\ \A j \in 1 .. n - 1 : t[j] = s[j + 1]
  BY <1>3
<1> HIDE DEF t, h
<1>6. \A j \in 1 .. n - 1 : j + 1 \in 1 .. n
  BY <1>1
<1>7. \A j \in 1 .. n : j = 1 \/ (j - 1 \in 1 .. n - 1 /\ (j - 1) + 1 = j)
  BY <1>1
<1>8. ASSUME NEW x \in Range(s) PROVE x \in {h} \cup Range(t)
  <2>1. PICK j \in 1 .. n : x = s[j]
    BY <1>1 DEF Range
  <2>2. j = 1 => x = h
    BY <1>5, <2>1
  <2>3. ASSUME j # 1 PROVE x \in Range(t)
    <3>1. t[j - 1] = s[j]
      BY <1>5, <1>7, <2>3
    <3> QED
      BY <1>5, <1>7, <2>1, <2>3, <3>1 DEF Range
  <2> QED
    BY <2>2, <2>3
<1>9. ASSUME NEW x \in {h} \cup Range(t) PROVE x \in Range(s)
  BY <1>1, <1>5, <1>6 DEF Range
<1> QED
  BY <1>4, <1>8, <1>9 DEF t, h

\* A write of the configuration is one that the applies under way agree on.
LEMMA UpdateConfigStep ==
  ASSUME SyncInv, NEW k \in {"load", "ide"}, NEW i \in DOMAIN calls[k], UpdateConfig(k, i)
  PROVE  SyncInv'
<1> DEFINE c == calls[k][i]
           f == Head(c.todo)
           next == [c EXCEPT !.todo = Tail(@)]
<1>1. PICK new : new = next
  OBVIOUS
<1> DEFINE cs == Becomes(k, i, new)
           l == [local EXCEPT ![f] = c.set[f]]
           touched == hist.ide \ {f}
<1>2. /\ c.at = "applying" /\ c.todo # <<>> /\ store' = store /\ desk' = desk
      /\ \/ Changed(l, f, cs, touched)
         \/ /\ local[f] = c.set[f] /\ calls' = cs /\ hist' = [hist EXCEPT !.ide = @ \ {f}]
            /\ local' = local /\ ide' = ide
  BY <1>1 DEF UpdateConfig, At
<1>3. /\ local \in Settings /\ hist \in HistType /\ store \in Envelopes /\ Grows /\ Shape(calls)
      /\ k \in Kinds /\ "load" \in Kinds /\ "ide" \in Kinds /\ "menu" \in Kinds
  BY <1>2 DEF SyncInv, TypeInv, HistType, Grows, Kinds
<1>4. c \in Applies
  BY <1>2, <1>3, UnderWayIsOK DEF CallOK
<1>5. /\ c.set \in Settings /\ f \in Range(Fields) /\ Tail(c.todo) \in Seq(Range(Fields))
      /\ Range(c.todo) = {f} \cup Range(Tail(c.todo))
  BY <1>2, <1>4, TailIs DEF Applies
<1>6. /\ new \in Applies /\ new.at = "applying" /\ new.set = c.set /\ new.todo = Tail(c.todo)
  BY <1>1, <1>4, <1>5 DEF Applies
<1>7. /\ Shape(cs) /\ new \in Of(cs, k) /\ Of(calls, k) \ {c} \subseteq Of(cs, k)
      /\ \A x \in Of(cs, k) : x = new \/ \E j \in DOMAIN calls[k] \ {i} : x = calls[k][j]
      /\ \A m \in Kinds \ {k} : Of(cs, m) = Of(calls, m)
  BY <1>3, BecomesIs
<1>8. c \in Of(calls, k)
  BY PlacesAreOf
<1>9. \A x \in Of(cs, k) : x = new \/ x \in Of(calls, k)
  BY <1>7, PlacesAreOf
<1> HIDE DEF c, f, next, cs
<1>10. /\ c \in Applying(calls) /\ new \in Applying(cs)
       /\ Applying(calls) \ {c} \subseteq Applying(cs)
       /\ \A x \in Applying(cs) : x = new \/ x \in Applying(calls)
       /\ Of(cs, "menu") = Of(calls, "menu")
  BY <1>2, <1>3, <1>6, <1>7, <1>8, <1>9 DEF Applying
<1>11. \A m \in Kinds : \A x \in Of(cs, m) : CallOK(m, x)
  <2> SUFFICES ASSUME NEW m \in Kinds, NEW x \in Of(cs, m) PROVE CallOK(m, x)
    OBVIOUS
  <2>1. CASE x \in Of(calls, m)
    BY <2>1 DEF SyncInv, CallsInv
  <2>2. CASE m = k /\ x = new
    <3>1. m # "desk" /\ m # "menu"
      BY <2>2
    <3> QED
      BY <1>6, <2>2, <3>1 DEF CallOK
  <2> QED
    BY <1>7, <1>9, <2>1, <2>2
<1>12. ASSUME NEW m, m[f] = c.set[f], \A g \in Range(Fields) : g # f => m[g] = local[g],
              ide.synced # None, ~hist.mixed
       PROVE  TouchAt(cs, m, ide.synced, touched)
  <2>1. \A x \in Applying(calls) : x.set = ide.synced /\ Within(local, x.set, hist.ide \cup Range(x.todo))
    BY <1>12 DEF SyncInv, TouchInv, TouchAt
  <2>2. c.set = ide.synced
    BY <1>10, <2>1
  <2>3. ASSUME NEW fields, Within(local, ide.synced, fields)
        PROVE  Within(m, ide.synced, fields \ {f})
    BY <1>12, <2>2, <2>3 DEF Within
  <2>4. ASSUME NEW x \in Applying(cs)
        PROVE  x.set = ide.synced /\ Within(m, x.set, touched \cup Range(x.todo))
    <3>1. CASE x = new
      <4>1. Within(m, ide.synced, (hist.ide \cup Range(c.todo)) \ {f})
        BY <1>10, <2>1, <2>2, <2>3
      <4>2. (hist.ide \cup Range(c.todo)) \ {f} \subseteq touched \cup Range(new.todo)
        BY <1>5, <1>6
      <4> QED
        BY <1>6, <2>2, <3>1, <4>1, <4>2 DEF Within
    <3>2. CASE x \in Applying(calls)
      <4>1. Within(m, ide.synced, (hist.ide \cup Range(x.todo)) \ {f})
        BY <2>1, <2>3, <3>2
      <4>2. (hist.ide \cup Range(x.todo)) \ {f} \subseteq touched \cup Range(x.todo)
        OBVIOUS
      <4> QED
        BY <2>1, <3>2, <4>1, <4>2 DEF Within
    <3> QED
      BY <1>10, <3>1, <3>2
  <2> QED
    BY <1>10, <2>4 DEF TouchAt
<1>13. ASSUME NEW mode, MenuAt(calls, mode), f # "mode" \/ mode # c.set["mode"]
       PROVE  MenuAt(cs, mode)
  <2>1. CASE \E x \in Of(calls, "menu") : x.to = mode
    BY <1>10, <2>1 DEF MenuAt
  <2>2. ASSUME NEW x \in Applying(calls), "mode" \in Range(x.todo), x.set["mode"] = mode
        PROVE  MenuAt(cs, mode)
    <3>1. CASE x = c
      <4>1. "mode" \in Range(new.todo) /\ new.set["mode"] = mode
        BY <1>5, <1>6, <1>13, <2>2, <3>1
      <4> QED
        BY <1>10, <4>1 DEF MenuAt
    <3>2. CASE x # c
      BY <1>10, <2>2, <3>2 DEF MenuAt
    <3> QED
      BY <3>1, <3>2
  <2> QED
    BY <1>13, <2>1, <2>2 DEF MenuAt
<1>14. CASE Changed(l, f, cs, touched)
  <2>1. l \in Settings /\ l[f] = c.set[f] /\ \A g \in Range(Fields) : g # f => l[g] = local[g]
    BY <1>3, <1>5 DEF Settings
  <2>2. touched \in SUBSET Range(Fields)
    BY <1>3 DEF HistType
  <2> HIDE DEF l
  <2>3. ide.synced # None /\ ~hist.mixed => TouchAt(cs, l, ide.synced, touched)
    BY <1>12, <2>1
  <2> HIDE DEF touched
  <2>4. f # "mode" => l["mode"] = local["mode"] /\ (MenuAt(calls, ide.mode) => MenuAt(cs, ide.mode))
    BY <1>13, <2>1, FieldsAre
  <2>5. Applying(cs) # {} /\ Applying(calls) # {}
    BY <1>10
  <2> QED
    BY <1>2, <1>7, <1>11, <1>14, <2>1, <2>2, <2>3, <2>4, <2>5, ChangedStep
<1>15. CASE /\ local[f] = c.set[f] /\ calls' = cs /\ hist' = [hist EXCEPT !.ide = @ \ {f}]
            /\ local' = local /\ ide' = ide
  <2>1. /\ hist' \in HistType /\ hist'.ide = touched /\ hist'.mixed = hist.mixed
        /\ hist'.desk = hist.desk /\ hist'.rolled = hist.rolled /\ hist'.refused = hist.refused
    BY <1>3, <1>15 DEF HistType
  <2>2. TypeInv'
    BY <1>2, <1>7, <1>15, <2>1 DEF SyncInv, TypeInv, HistType
  <2>3. CallsInv'
    BY <1>3, <1>11, <1>15, GrowsKeepsCalls DEF CallsInv
  <2>4. DeskInv'
    BY <1>2, <2>1 DEF SyncInv, DeskInv
  <2>5. IdeInv'
    BY <1>2, <1>10, <1>15 DEF SyncInv, IdeInv
  <2>6. TouchInv'
    BY <1>12, <1>15, <2>1 DEF TouchInv
  <2>7. MenuInv'
    <3> SUFFICES ASSUME ide.mode # local["mode"], ~hist.refused PROVE MenuAt(cs, ide.mode)
      BY <1>15, <2>1 DEF MenuInv
    <3>1. MenuAt(calls, ide.mode)
      BY DEF SyncInv, MenuInv
    <3>2. f # "mode" \/ ide.mode # c.set["mode"]
      BY <1>15
    <3> QED
      BY <1>13, <3>1, <3>2
  <2> QED
    BY <2>2, <2>3, <2>4, <2>5, <2>6, <2>7 DEF SyncInv
<1> QED
  BY <1>2, <1>14, <1>15

LEMMA ApplyEndsStep ==
  ASSUME SyncInv, NEW k \in {"load", "ide"}, NEW i \in DOMAIN calls[k], ApplyEnds(k, i)
  PROVE  SyncInv'
<1> DEFINE c == calls[k][i]
           cs == Ended(k, i)
<1>1. /\ c.at = "applying" /\ c.todo = <<>> /\ calls' = cs /\ ide' = [ide EXCEPT !.applying = FALSE]
      /\ store' = store /\ local' = local /\ desk' = desk /\ hist' = hist
  BY DEF ApplyEnds, At
<1>2. /\ ide \in IdeType /\ store \in Envelopes /\ Grows /\ Shape(calls)
      /\ k \in Kinds /\ "load" \in Kinds /\ "ide" \in Kinds /\ "menu" \in Kinds
  BY <1>1 DEF SyncInv, TypeInv, IdeType, Grows, Kinds
<1>3. /\ Shape(cs) /\ Of(calls, k) \ {c} \subseteq Of(cs, k)
      /\ \A x \in Of(cs, k) : \E j \in DOMAIN calls[k] \ {i} : x = calls[k][j]
      /\ \A m \in Kinds \ {k} : Of(cs, m) = Of(calls, m)
  BY <1>2, EndedIs
<1>4. c \in Of(calls, k) /\ \A x \in Of(cs, k) : x \in Of(calls, k)
  BY <1>3, PlacesAreOf
<1>5. Range(c.todo) = {}
  BY <1>1 DEF Range
<1> HIDE DEF c, cs
<1>6. /\ c \in Applying(calls) /\ Applying(calls) \ {c} \subseteq Applying(cs)
      /\ Applying(cs) \subseteq Applying(calls)
      /\ Of(cs, "menu") = Of(calls, "menu")
  BY <1>1, <1>2, <1>3, <1>4 DEF Applying
<1>7. /\ ide' \in IdeType /\ ide'.rev = ide.rev /\ ide'.ready = ide.ready
      /\ ide'.synced = ide.synced /\ ide'.mode = ide.mode /\ ide'.applying = FALSE
  BY <1>1, <1>2 DEF IdeType
<1>8. TypeInv'
  BY <1>1, <1>3, <1>7 DEF SyncInv, TypeInv, IdeType
<1>9. CallsInv'
  <2> SUFFICES ASSUME NEW m \in Kinds, NEW x \in Of(calls', m) PROVE CallOK(m, x)'
    BY DEF CallsInv
  <2>1. CallOK(m, x)
    BY <1>1, <1>3, <1>4 DEF SyncInv, CallsInv
  <2> QED
    BY <1>2, <2>1, GrowsKeepsCalls
<1>10. DeskInv' /\ IdeInv'
  BY <1>1, <1>7 DEF SyncInv, DeskInv, IdeInv
<1>11. TouchInv'
  <2> SUFFICES ASSUME ide.synced # None, ~hist.mixed
               PROVE  TouchAt(cs, local, ide.synced, hist.ide)
    BY <1>1, <1>7 DEF TouchInv
  <2>1. \A x \in Applying(calls) : x.set = ide.synced /\ Within(local, x.set, hist.ide \cup Range(x.todo))
    BY DEF SyncInv, TouchInv, TouchAt
  <2>2. Within(local, ide.synced, hist.ide \cup Range(c.todo))
    BY <1>6, <2>1
  <2>3. Within(local, ide.synced, hist.ide)
    BY <1>5, <2>2 DEF Within
  <2> QED
    BY <1>6, <2>1, <2>3 DEF TouchAt
<1>12. MenuInv'
  <2> SUFFICES ASSUME ide.mode # local["mode"], ~hist.refused PROVE MenuAt(cs, ide.mode)
    BY <1>1, <1>7 DEF MenuInv
  <2>1. MenuAt(calls, ide.mode)
    BY DEF SyncInv, MenuInv
  <2> QED
    BY <1>5, <1>6, <2>1 DEF MenuAt
<1> QED
  BY <1>8, <1>9, <1>10, <1>11, <1>12 DEF SyncInv

\* A refused write ends an apply; the history says what it leaves behind.
LEMMA ConfigRefusedStep ==
  ASSUME SyncInv, NEW k \in {"load", "ide"}, NEW i \in DOMAIN calls[k], ConfigRefused(k, i)
  PROVE  SyncInv'
<1> DEFINE c == calls[k][i]
           cs == IF k = "load" THEN Becomes(k, i, Failing) ELSE Ended(k, i)
<1>1. /\ c.at = "applying" /\ calls' = cs /\ ide' = [ide EXCEPT !.applying = FALSE]
      /\ hist' = [hist EXCEPT !.mixed = TRUE, !.refused = @ \/ "mode" \in Range(c.todo)]
      /\ store' = store /\ local' = local /\ desk' = desk
  BY DEF ConfigRefused, At
<1>2. /\ ide \in IdeType /\ hist \in HistType /\ store \in Envelopes /\ Grows /\ Shape(calls)
      /\ k \in Kinds /\ "load" \in Kinds /\ "ide" \in Kinds /\ "menu" \in Kinds
  BY <1>1 DEF SyncInv, TypeInv, HistType, IdeType, Grows, Kinds
<1>3. /\ Shape(cs) /\ Of(calls, k) \ {c} \subseteq Of(cs, k)
      /\ \A x \in Of(cs, k) : x = Failing \/ \E j \in DOMAIN calls[k] \ {i} : x = calls[k][j]
      /\ \A m \in Kinds \ {k} : Of(cs, m) = Of(calls, m)
  <2>1. CASE k = "load"
    BY <1>2, <2>1, BecomesIs
  <2>2. CASE k # "load"
    BY <1>2, <2>2, EndedIs
  <2> QED
    BY <2>1, <2>2
<1>4. \A x \in Of(cs, k) : x = Failing \/ x \in Of(calls, k)
  BY <1>3, PlacesAreOf
<1> HIDE DEF c, cs
<1>5. /\ Applying(calls) \ {c} \subseteq Applying(cs)
      /\ Of(cs, "menu") = Of(calls, "menu")
  BY <1>2, <1>3 DEF Applying
<1>6. /\ ide' \in IdeType /\ ide'.rev = ide.rev /\ ide'.ready = ide.ready
      /\ ide'.synced = ide.synced /\ ide'.mode = ide.mode /\ ide'.applying = FALSE
  BY <1>1, <1>2 DEF IdeType
<1>7. /\ hist' \in HistType /\ hist'.desk = hist.desk /\ hist'.rolled = hist.rolled
      /\ hist'.mixed = TRUE /\ (hist.refused => hist'.refused)
      /\ "mode" \in Range(c.todo) => hist'.refused
  <2>1. hist.refused \in BOOLEAN /\ ("mode" \in Range(c.todo)) \in BOOLEAN
    BY <1>2 DEF HistType
  <2>2. PICK b \in BOOLEAN : b = (hist.refused \/ "mode" \in Range(c.todo))
    BY <2>1
  <2>3. hist' = [hist EXCEPT !.mixed = TRUE, !.refused = b]
    BY <1>1, <2>2
  <2>4. /\ hist' \in HistType /\ hist'.desk = hist.desk /\ hist'.rolled = hist.rolled
        /\ hist'.mixed = TRUE /\ hist'.refused = b
    BY <1>2, <2>3 DEF HistType
  <2> QED
    BY <2>2, <2>4
<1>8. TypeInv'
  BY <1>1, <1>3, <1>6, <1>7 DEF SyncInv, TypeInv, IdeType, HistType
<1>9. CallsInv'
  <2> SUFFICES ASSUME NEW m \in Kinds, NEW x \in Of(calls', m) PROVE CallOK(m, x)'
    BY DEF CallsInv
  <2>1. CallOK(m, x)
    <3>1. CASE x \in Of(calls, m)
      BY <3>1 DEF SyncInv, CallsInv
    <3>2. CASE m = k /\ x = Failing
      BY <3>2 DEF CallOK, Failing
    <3> QED
      BY <1>1, <1>3, <1>4, <3>1, <3>2
  <2> QED
    BY <1>2, <2>1, GrowsKeepsCalls
<1>10. DeskInv' /\ IdeInv'
  BY <1>1, <1>6, <1>7 DEF SyncInv, DeskInv, IdeInv
<1>11. TouchInv'
  BY <1>7 DEF TouchInv
<1>12. MenuInv'
  <2> SUFFICES ASSUME ide.mode # local["mode"], ~hist'.refused PROVE MenuAt(cs, ide.mode)
    BY <1>1, <1>6 DEF MenuInv
  <2>1. MenuAt(calls, ide.mode) /\ "mode" \notin Range(c.todo)
    BY <1>7 DEF SyncInv, MenuInv
  <2> QED
    BY <1>5, <2>1 DEF MenuAt
<1> QED
  BY <1>8, <1>9, <1>10, <1>11, <1>12 DEF SyncInv

\* The fields in which two settings differ.
LEMMA DifferingIs ==
  ASSUME NEW a, NEW b
  PROVE  /\ Differing(a, b) \in Seq(Range(Fields))
         /\ Range(Differing(a, b)) = {f \in Range(Fields) : a[f] # b[f]}
         /\ Differing(a, b) = <<>> <=> \A f \in Range(Fields) : a[f] = b[f]
<1>1. CASE a["mode"] = b["mode"] /\ a["notify"] = b["notify"]
  <2>1. Differing(a, b) = <<>>
    BY <1>1 DEF Differing
  <2>2. Range(<<>>) = {} /\ <<>> \in Seq(Range(Fields))
    BY DEF Range
  <2> QED
    BY <1>1, <2>1, <2>2, FieldsAre
<1>2. ASSUME NEW d, Differing(a, b) = d, d \in Seq({"mode", "notify"}), d # <<>>,
             Range(d) = {f \in {"mode", "notify"} : a[f] # b[f]},
             a["mode"] # b["mode"] \/ a["notify"] # b["notify"]
      PROVE  /\ Differing(a, b) \in Seq(Range(Fields))
             /\ Range(Differing(a, b)) = {f \in Range(Fields) : a[f] # b[f]}
             /\ Differing(a, b) = <<>> <=> \A f \in Range(Fields) : a[f] = b[f]
  BY <1>2, FieldsAre
<1>3. CASE a["mode"] # b["mode"] /\ a["notify"] = b["notify"]
  <2>1. Differing(a, b) = <<"mode">>
    BY <1>3 DEF Differing
  <2>2. <<"mode">> \in Seq({"mode", "notify"}) /\ <<"mode">> # <<>> /\ Range(<<"mode">>) = {"mode"}
    BY DEF Range
  <2>3. {"mode"} = {f \in {"mode", "notify"} : a[f] # b[f]}
    BY <1>3
  <2> QED
    BY <1>2, <1>3, <2>1, <2>2, <2>3
<1>4. CASE a["mode"] = b["mode"] /\ a["notify"] # b["notify"]
  <2>1. Differing(a, b) = <<"notify">>
    BY <1>4 DEF Differing
  <2>2. /\ <<"notify">> \in Seq({"mode", "notify"}) /\ <<"notify">> # <<>>
        /\ Range(<<"notify">>) = {"notify"}
    BY DEF Range
  <2>3. {"notify"} = {f \in {"mode", "notify"} : a[f] # b[f]}
    BY <1>4
  <2> QED
    BY <1>2, <1>4, <2>1, <2>2, <2>3
<1>5. CASE a["mode"] # b["mode"] /\ a["notify"] # b["notify"]
  <2> DEFINE d == <<"mode">> \o <<"notify">>
  <2>1. Differing(a, b) = d
    BY <1>5 DEF Differing
  <2>2. d \in Seq({"mode", "notify"}) /\ d # <<>> /\ Range(d) = {"mode", "notify"}
    <3>1. PICK p, q : p = <<"mode">> /\ q = <<"notify">>
      OBVIOUS
    <3>2. /\ p \in Seq({"mode", "notify"}) /\ Len(p) = 1 /\ p[1] = "mode"
          /\ q \in Seq({"mode", "notify"}) /\ Len(q) = 1 /\ q[1] = "notify"
      BY <3>1
    <3>3. /\ p \o q \in Seq({"mode", "notify"}) /\ DOMAIN (p \o q) = {1, 2}
          /\ (p \o q)[1] = "mode" /\ (p \o q)[2] = "notify"
      <4>1. /\ p \o q \in Seq({"mode", "notify"}) /\ Len(p \o q) = 2
            /\ \A j \in 1 .. 2 : (p \o q)[j] = IF j <= 1 THEN p[j] ELSE q[j - 1]
        BY <3>2, ConcatProperties
      <4>2. DOMAIN (p \o q) = 1 .. 2
        BY <4>1
      <4>3. 1 .. 2 = {1, 2}
        OBVIOUS
      <4> QED
        BY <3>2, <4>1, <4>2, <4>3
    <3>4. d = p \o q
      BY <3>1
    <3> HIDE DEF d
    <3>5. Range(d) = {"mode", "notify"} /\ d \in Seq({"mode", "notify"})
      BY <3>3, <3>4 DEF Range
    <3>6. Range(<<>>) = {}
      BY DEF Range
    <3> QED
      BY <3>5, <3>6
  <2>3. {"mode", "notify"} = {f \in {"mode", "notify"} : a[f] # b[f]}
    BY <1>5
  <2> HIDE DEF d
  <2> QED
    BY <1>2, <1>5, <2>1, <2>2, <2>3
<1> QED
  BY <1>1, <1>3, <1>4, <1>5

\* An apply makes the settings of an answer the dashboard's own, and has to write what
\* differs.
LEMMA ApplyStep ==
  ASSUME SyncInv, NEW k \in {"load", "ide"}, NEW i \in DOMAIN calls[k],
         calls[k][i].at # "applying", NEW now, Fit(now), now.init, Apply(k, i, now),
         store' = store, local' = local, desk' = desk
  PROVE  SyncInv'
<1>1. PICK differ : differ = Differing(local, now.set)
  OBVIOUS
<1>2. /\ differ \in Seq(Range(Fields)) /\ Range(differ) = {f \in Range(Fields) : local[f] # now.set[f]}
      /\ differ = <<>> <=> \A f \in Range(Fields) : local[f] = now.set[f]
  BY <1>1, DifferingIs
<1>3. /\ ide' = [ide EXCEPT !.rev = now.rev, !.ready = TRUE, !.synced = now.set,
                            !.mode = now.set["mode"], !.applying = @ \/ differ # <<>>]
      /\ calls' = IF differ = <<>> THEN Ended(k, i)
                  ELSE Becomes(k, i, [at |-> "applying", set |-> now.set, todo |-> differ])
      /\ hist' = [hist EXCEPT !.ide = @ \cap Range(differ), !.mixed = Others(k, i),
                            !.refused = FALSE]
  BY <1>1 DEF Apply
<1>4. /\ local \in Settings /\ ide \in IdeType /\ hist \in HistType /\ store \in Envelopes /\ Grows
      /\ Shape(calls) /\ desk \in Envelopes
      /\ k \in Kinds /\ "load" \in Kinds /\ "ide" \in Kinds /\ "menu" \in Kinds
  BY DEF SyncInv, TypeInv, HistType, IdeType, Grows, Kinds
<1>5. now.rev \in Nat /\ now.set \in Settings /\ now.set # None /\ now.set["mode"] \in Values
  BY SettingsAssumption, FieldsAre DEF Fit, Envelopes, Settings
<1>6. /\ ide' \in IdeType /\ ide'.rev = now.rev /\ ide'.ready /\ ide'.synced = now.set
      /\ ide'.mode = now.set["mode"] /\ ide'.applying = (ide.applying \/ differ # <<>>)
  BY <1>3, <1>4, <1>5 DEF IdeType
<1>7. Others(k, i) \in BOOLEAN
  BY DEF Others
<1>8. /\ hist' \in HistType /\ hist'.ide = hist.ide \cap Range(differ)
      /\ hist'.mixed = Others(k, i) /\ hist'.desk = hist.desk /\ hist'.rolled = hist.rolled
  <2>1. hist.ide \cap Range(differ) \in SUBSET Range(Fields)
    BY <1>4 DEF HistType
  <2> QED
    BY <1>3, <1>4, <1>7, <2>1 DEF HistType
<1>9. PICK new : new = [at |-> "applying", set |-> now.set, todo |-> differ]
  OBVIOUS
<1>10. new \in Applies /\ new.at = "applying" /\ new.set = now.set /\ new.todo = differ
  BY <1>2, <1>5, <1>9 DEF Applies
<1>11. CallOK(k, new)
  BY <1>10, <1>4 DEF CallOK
<1>12. calls' = IF differ = <<>> THEN Ended(k, i) ELSE Becomes(k, i, new)
  BY <1>3, <1>9
<1>13. /\ Shape(calls') /\ Of(calls, k) \ {calls[k][i]} \subseteq Of(calls', k)
       /\ differ # <<>> => new \in Of(calls', k)
       /\ \A x \in Of(calls', k) : x = new \/ \E j \in DOMAIN calls[k] \ {i} : x = calls[k][j]
       /\ \A m \in Kinds \ {k} : Of(calls', m) = Of(calls, m)
  <2>1. CASE differ = <<>>
    BY <1>4, <1>12, <2>1, EndedIs
  <2>2. CASE differ # <<>>
    BY <1>4, <1>12, <2>2, BecomesIs
  <2> QED
    BY <2>1, <2>2
<1>14. \A x \in Of(calls', k) : x = new \/ x \in Of(calls, k)
  BY <1>13, PlacesAreOf
<1>15. /\ Applying(calls) \subseteq Applying(calls')
       /\ differ # <<>> => new \in Applying(calls')
       /\ Of(calls', "menu") = Of(calls, "menu")
  BY <1>4, <1>10, <1>13 DEF Applying
<1>16. ~Others(k, i) => Applying(calls') \subseteq {new} /\ (differ = <<>> => Applying(calls') = {})
  <2>1. CASE differ = <<>>
    BY <1>4, <1>12, <2>1, AloneIs
  <2>2. CASE differ # <<>>
    BY <1>4, <1>12, <2>2, AloneIs
  <2> QED
    BY <2>1, <2>2
<1>17. TypeInv'
  BY <1>4, <1>6, <1>8, <1>13 DEF SyncInv, TypeInv, IdeType, HistType
<1>18. CallsInv'
  <2> SUFFICES ASSUME NEW m \in Kinds, NEW x \in Of(calls', m) PROVE CallOK(m, x)'
    BY DEF CallsInv
  <2>1. CallOK(m, x)
    <3>1. CASE x \in Of(calls, m)
      BY <3>1 DEF SyncInv, CallsInv
    <3>2. CASE m = k /\ x = new
      BY <1>11, <3>2
    <3> QED
      BY <1>13, <1>14, <3>1, <3>2
  <2> QED
    BY <1>4, <2>1, GrowsKeepsCalls
<1>19. DeskInv'
  BY <1>8 DEF SyncInv, DeskInv
<1>20. IdeInv'
  <2>1. ide'.applying => Applying(calls') # {}
    BY <1>6, <1>15 DEF SyncInv, IdeInv
  <2> QED
    BY <1>5, <1>6, <2>1 DEF IdeInv, Fit
<1>21. TouchInv'
  <2> SUFFICES ASSUME ~Others(k, i) PROVE TouchAt(calls', local, now.set, hist'.ide)
    BY <1>6, <1>8 DEF TouchInv
  <2>1. Within(local, now.set, hist'.ide \cup Range(differ))
    BY <1>2 DEF Within
  <2>2. differ = <<>> => Within(local, now.set, hist'.ide)
    BY <1>2 DEF Within
  <2>3. Applying(calls') = {} => Within(local, now.set, hist'.ide)
    BY <1>15, <2>2
  <2>4. \A x \in Applying(calls') : x = new
    BY <1>16
  <2> QED
    BY <1>10, <2>1, <2>3, <2>4 DEF TouchAt
<1>22. MenuInv'
  <2> SUFFICES ASSUME now.set["mode"] # local["mode"] PROVE MenuAt(calls', now.set["mode"])
    BY <1>6 DEF MenuInv
  <2>1. "mode" \in Range(differ) /\ differ # <<>>
    BY <1>2, FieldsAre
  <2> QED
    BY <1>10, <1>15, <2>1 DEF MenuAt
<1> QED
  BY <1>17, <1>18, <1>19, <1>20, <1>21, <1>22 DEF SyncInv

LEMMA LoadAppliesStep == SyncInv /\ LoadApplies => SyncInv'
<1> SUFFICES ASSUME SyncInv, LoadApplies PROVE SyncInv'
  OBVIOUS
<1> DEFINE c == calls["load"][1]
<1>1. /\ 1 \in DOMAIN calls["load"] /\ c.at \in {"read", "answered"} /\ c.now.init
      /\ Apply("load", 1, c.now) /\ store' = store /\ local' = local /\ desk' = desk
  BY DEF LoadApplies, At
<1>2. CallOK("load", c)
  BY <1>1, UnderWayIsOK DEF Kinds
<1>3. Fit(c.now)
  BY <1>1, <1>2 DEF CallOK
<1> QED
  BY <1>1, <1>3, ApplyStep

LEMMA SaveAnsweredStep ==
  ASSUME SyncInv, NEW i \in DOMAIN calls["ide"], SaveAnswered(i)
  PROVE  SyncInv'
<1> DEFINE c == calls["ide"][i]
<1>1. /\ c.at = "answered" /\ Apply("ide", i, c.now)
      /\ store' = store /\ local' = local /\ desk' = desk
  BY DEF SaveAnswered, At
<1>2. CallOK("ide", c)
  BY UnderWayIsOK DEF Kinds
<1>3. Fit(c.now) /\ c.now.init
  BY <1>1, <1>2 DEF CallOK
<1> QED
  BY <1>1, <1>3, ApplyStep

-----------------------------------------------------------------------------
(* Every step                                                                *)

LEMMA IdeSteps == SyncInv /\ IdeStep => SyncInv'
<1> SUFFICES ASSUME SyncInv, IdeStep PROVE SyncInv'
  OBVIOUS
<1>1. CASE OfferLocal \/ ReadAgain \/ LoadApplies \/ LoadGivesUp
  BY <1>1, OfferLocalStep, ReadAgainStep, LoadAppliesStep, LoadGivesUpStep
<1>2. CASE \E i \in DOMAIN calls["ide"] : SaveAnswered(i)
  BY <1>2, SaveAnsweredStep
<1>3. CASE \E i \in DOMAIN calls["menu"] : MenuWrites(i)
  BY <1>3, MenuWritesStep
<1>4. ASSUME NEW k \in {"load", "ide"}, NEW i \in DOMAIN calls[k],
             UpdateConfig(k, i) \/ ApplyEnds(k, i)
      PROVE  SyncInv'
  BY <1>4, UpdateConfigStep, ApplyEndsStep
<1> QED
  BY <1>1, <1>2, <1>3, <1>4 DEF IdeStep

LEMMA FailureSteps == SyncInv /\ Failure => SyncInv'
BY LoadFailsStep, SaveFailsStep, EditFailsStep, MenuRefusedStep, ConfigRefusedStep DEF Failure

LEMMA UserSteps == SyncInv /\ Users => SyncInv'
BY ResetOnceStep, ChooseStep, EditConfigStep, EditDeskStep DEF Users

LEMMA SyncStep == SyncInv /\ [Next]_vars => SyncInv'
<1> SUFFICES ASSUME SyncInv, [Next]_vars PROVE SyncInv'
  OBVIOUS
<1>1. CASE DeskStep
  BY <1>1, PollAnsweredStep, EditAnsweredStep DEF DeskStep
<1>2. CASE Broker
  BY <1>2, PutIs DEF Broker
<1>3. CASE UNCHANGED vars
  <2>1. Quiet("poll", Reread) /\ CallOK("poll", Reread)
    BY <1>3 DEF Quiet, CallOK, Reread, SyncInv, TypeInv, vars
  <2> QED
    BY <1>3, <2>1, QuietSame DEF vars
<1> QED
  BY <1>1, <1>2, <1>3, LoadStartsStep, PollStartsStep, IdeSteps, FailureSteps, UserSteps DEF Next

LEMMA SyncAlways == Spec => []SyncInv
<1> QED
  BY SyncInitially, SyncStep, PTL DEF Spec

-----------------------------------------------------------------------------
(* The results                                                               *)

\* Nobody knows a revision that the store has not reached, a dashboard that is ready
\* has settings and a store that somebody initialised, and it says that it applies
\* settings only while an apply is under way (applyQuotaSettings, QuotaSettingsStore).
THEOREM SettingsTypes == Spec => []TypeOK
<1>1. SyncInv => TypeOK
  <2> SUFFICES ASSUME SyncInv PROVE TypeOK
    OBVIOUS
  <2>1. Shape(calls) /\ store \in Envelopes /\ desk \in Envelopes /\ local \in Settings
        /\ ide \in IdeType
    BY DEF SyncInv, TypeInv, IdeType
  <2>2. ide.applying => Others("ide", 0)
    BY <2>1, OthersIs DEF SyncInv, IdeInv
  <2> QED
    BY <2>1, <2>2 DEF TypeOK, SyncInv, IdeInv, DeskInv, Envelopes, IdeType
<1> QED
  BY <1>1, SyncAlways, PTL

\* While no apply and no write of the menu's is under way the menu shows the mode that
\* is configured, whatever was saved, answered late or applied at once before, unless
\* VS Code refused to write a mode and none was edited or applied since.
THEOREM MenuFollows == Spec => []MenuMatchesConfig
<1>1. SyncInv => MenuMatchesConfig
  <2> SUFFICES ASSUME SyncInv, calls["menu"] = <<>>, ~Others("ide", 0), ~hist.refused
               PROVE  ide.mode = local["mode"]
    BY DEF MenuMatchesConfig
  <2>1. Applying(calls) = {}
    BY OthersIs DEF SyncInv, TypeInv
  <2>2. Of(calls, "menu") = {}
    BY DEF Of, Range
  <2> QED
    BY <2>1, <2>2 DEF SyncInv, MenuInv, MenuAt
<1> QED
  BY <1>1, SyncAlways, PTL

\* A write that the broker accepts changes nothing but what its author's user edited,
\* however many operations are under way and however late their answers are: the
\* compare-and-set of QuotaSettingsStore.put is enough.  Not so for what the dashboard
\* sends while it applies settings, or after applies that overlapped or that VS Code
\* cut short, nor for what the desktop sends between a rollback and the next answer.
THEOREM RevertsNeverSilent == Spec => NoSilentRevert
<1> DEFINE Keeps ==
      \A k \in {"load", "ide", "desk"} : \A i \in DOMAIN calls[k] :
        Put(k, i) /\ store' # store /\ calls[k][i].known =>
          \A f \in Range(Fields) : store'.set[f] # store.set[f] => f \in calls[k][i].touched
<1>1. SyncInv => Keeps
  <2> SUFFICES ASSUME SyncInv, NEW k \in {"load", "ide", "desk"}, NEW i \in DOMAIN calls[k],
                      Put(k, i), store' # store, calls[k][i].known,
                      NEW f \in Range(Fields), store'.set[f] # store.set[f]
               PROVE  f \in calls[k][i].touched
    OBVIOUS
  <2>1. /\ AskOK(k, calls[k][i]) /\ calls[k][i].rev = store.rev
        /\ store'.set = calls[k][i].set
    BY PutIs
  <2> QED
    BY <2>1 DEF AskOK, Within
<1>2. NoSilentRevert <=> [][Keeps]_vars
  BY DEF NoSilentRevert
<1> HIDE DEF Keeps
<1> QED
  BY <1>1, <1>2, SyncAlways, PTL
=============================================================================
