--------------------------- MODULE RestartsProofs ---------------------------
(* Theorems about what outlives the app: the overlay's sessions and their file,*)
(* for any sessions, groups, days and starts; and what is read from the       *)
(* transcripts, the order of the sessions, their titles and first sentences,  *)
(* for any files, hours and limits.                                           *)
EXTENDS Restarts, SubsequenceProofs, TLAPS

RowsIn(q) == {q[k] : k \in DOMAIN q}
IdsOf(rows) == {r.id : r \in rows}
Distinct(q) == \A i, j \in DOMAIN q : q[i].id = q[j].id => i = j

Entries == Rows \cup [meta : {TRUE}, groups : SUBSET Groups]
-----------------------------------------------------------------------------
(* The inductive invariant of the store.                                     *)

OnScreen == RowsIn(overlay.sessions)
InFile == RowsIn(Sessions(file.entries))
InSave == RowsIn(Sessions(writing.entries))
Answered == RowsIn(answer)

StoreTypes ==
    /\ overlay \in [sessions : Seq(Rows), groups : SUBSET Groups]
    /\ file \in [state : {"missing", "torn", "whole"}, entries : Seq(Entries)]
    /\ writing \in [on : BOOLEAN, entries : Seq(Entries)]
    /\ answer \in Seq(Rows)
    /\ app \in {"down", "loading", "restoring", "up"}
    /\ active \in [Ids -> SUBSET (0..day)] /\ ended \in SUBSET Ids
    /\ day \in 0..MaxDay /\ starts \in 0..MaxStarts

\* What there is of a session, save and answer in which phase of the app.
Phases ==
    /\ file.state # "whole" => file.entries = <<>>
    /\ app = "down" => overlay = Empty
    /\ app \in {"down", "loading"} => writing = NoSave
    /\ ~writing.on => writing.entries = <<>>
    /\ app # "restoring" => answer = <<>>

OneRowEach ==
    /\ Distinct(overlay.sessions) /\ Distinct(Sessions(file.entries))
    /\ Distinct(Sessions(writing.entries)) /\ Distinct(answer)

\* A row's day is one on which its session had an event, and a row on the screen, or
\* in the answer and not on the screen, is not older than the one in the file.
Truthful ==
    /\ \A r \in OnScreen \cup InFile \cup InSave \cup Answered : r.at \in active[r.id]
    /\ \A s \in OnScreen, e \in InFile \cup InSave : s.id = e.id /\ s.id \notin ended => e.at <= s.at
    /\ \A a \in Answered, e \in InFile :
          a.id = e.id /\ a.id \notin IdsOf(OnScreen) \cup ended => e.at <= a.at

\* What is saved is on the screen, or was removed; and so is what is in the file and
\* recent, as soon as it was restored.
Known ==
    /\ IdsOf(InSave) \subseteq IdsOf(OnScreen) \cup ended
    /\ app \in {"restoring", "up"} =>
          \A e \in InFile : e.at + Expiry >= day => e.id \in IdsOf(OnScreen) \cup ended \cup IdsOf(Answered)

StoreInv == StoreTypes /\ Phases /\ OneRowEach /\ Truthful /\ Known
-----------------------------------------------------------------------------
(* Sequences of rows.                                                        *)

LEMMA RowsOfSeq ==
    ASSUME NEW S, NEW q \in Seq(S)
    PROVE  RowsIn(q) \subseteq S /\ DOMAIN q = 1..Len(q) /\ Len(q) \in Nat
BY LenProperties, ElementOfSeq DEF RowsIn

LEMMA NoRows == RowsIn(<<>>) = {} /\ Distinct(<<>>) /\ Sessions(<<>>) = <<>> /\ IdsIn(<<>>) = {}
<1>1. DOMAIN <<>> = {}
  OBVIOUS
<1>2. {k \in DOMAIN <<>> : ~<<>>[k].meta} = {}
  BY <1>1
<1>3. Sessions(<<>>) = Keep(<<>>, {})
  BY <1>2, Zenon DEF Sessions
<1> QED
  BY <1>1, <1>3, KeepNone DEF RowsIn, Distinct, IdsIn

\* Of distinct rows each is there once, and some of them still are distinct.
LEMMA KeptRows ==
    ASSUME NEW S, NEW q \in Seq(S), NEW I \in SUBSET DOMAIN q
    PROVE  /\ Keep(q, I) \in Seq(S) /\ RowsIn(Keep(q, I)) = {q[i] : i \in I}
           /\ (\A i, j \in I : q[i].id = q[j].id => i = j) => Distinct(Keep(q, I))
<1> DEFINE n == Cardinality(I)
           t == Keep(q, I)
<1>1. /\ t \in Seq(S) /\ DOMAIN t = 1..n
      /\ \A j \in 1..n : Origin(I)[j] \in I /\ t[j] = q[Origin(I)[j]]
      /\ \A j, k \in 1..n : Origin(I)[j] = Origin(I)[k] => j = k
      /\ \A i \in I : \E j \in 1..n : Origin(I)[j] = i
  BY KeepKeeps
<1> HIDE DEF n, t
<1>2. RowsIn(t) = {q[i] : i \in I}
  BY <1>1 DEF RowsIn
<1>3. (\A i, j \in I : q[i].id = q[j].id => i = j) => Distinct(t)
  <2> SUFFICES ASSUME \A i, j \in I : q[i].id = q[j].id => i = j,
                      NEW j \in 1..n, NEW k \in 1..n, t[j].id = t[k].id
               PROVE  j = k
    BY <1>1 DEF Distinct
  <2>1. /\ Origin(I)[j] \in I /\ t[j] = q[Origin(I)[j]]
        /\ Origin(I)[k] \in I /\ t[k] = q[Origin(I)[k]]
    BY <1>1
  <2>2. Origin(I)[j] = Origin(I)[k]
    BY <2>1
  <2> QED
    BY <1>1, <2>2
<1> QED
  BY <1>1, <1>2, <1>3 DEF t

LEMMA OneRowForAnId ==
    ASSUME NEW q, Distinct(q), NEW r \in RowsIn(q), NEW s \in RowsIn(q), r.id = s.id
    PROVE  r = s
BY DEF RowsIn, Distinct

LEMMA IdsAre ==
    ASSUME NEW q
    PROVE  IdsIn(q) = IdsOf(RowsIn(q))
BY DEF IdsIn, IdsOf, RowsIn

LEMMA SessionsOfRows ==
    ASSUME NEW q \in Seq(Rows)
    PROVE  Sessions(q) = q
<1>1. \A k \in DOMAIN q : ~q[k].meta
  <2>1. \A k \in DOMAIN q : q[k] \in Rows
    BY RowsOfSeq DEF RowsIn
  <2> QED
    BY <2>1 DEF Rows
<1>2. {k \in DOMAIN q : ~q[k].meta} = DOMAIN q
  BY <1>1
<1>3. Sessions(q) = Keep(q, DOMAIN q)
  BY <1>2, Zenon DEF Sessions
<1> QED
  BY <1>3, KeepAll

LEMMA SessionsAreRows ==
    ASSUME NEW q \in Seq(Entries)
    PROVE  Sessions(q) \in Seq(Rows)
<1> DEFINE I == {k \in DOMAIN q : ~q[k].meta}
           n == Cardinality(I)
           t == Keep(q, I)
<1>1. I \in SUBSET DOMAIN q
  OBVIOUS
<1>2. \A i \in I : q[i] \in Rows
  <2>1. \A k \in DOMAIN q : q[k] \in Entries
    BY RowsOfSeq DEF RowsIn
  <2> QED
    BY <2>1 DEF Entries
<1> HIDE DEF I
<1>3. /\ t \in Seq(Entries) /\ Len(t) = n /\ n \in Nat /\ DOMAIN t = 1..n
      /\ \A j \in 1..n : Origin(I)[j] \in I /\ t[j] = q[Origin(I)[j]]
  BY <1>1, KeepKeeps
<1> HIDE DEF n, t
<1>4. \A j \in 1..n : t[j] \in Rows
  BY <1>2, <1>3
<1>5. t \in [1..n -> Rows]
  <2>1. t \in [1..n -> Entries]
    BY <1>3, LenProperties
  <2> QED
    BY <1>4, <2>1
<1>6. t \in Seq(Rows)
  BY <1>3, <1>5
<1> QED
  BY <1>6 DEF Sessions, t, I

\* Behind the sessions the groups are no session.
LEMMA SessionsBeforeGroups ==
    ASSUME NEW q \in Seq(Rows), NEW groups \in SUBSET Groups
    PROVE  /\ q \o <<MetaEntry(groups)>> \in Seq(Entries)
           /\ Sessions(q \o <<MetaEntry(groups)>>) = q
<1> DEFINE e == MetaEntry(groups)
           u == q \o <<e>>
           n == Len(q)
<1>1. e \in Entries /\ e.meta
  BY DEF MetaEntry, Entries
<1> HIDE DEF e
<1>2. q \in Seq(Entries) /\ <<e>> \in Seq(Entries) /\ Len(<<e>>) = 1 /\ <<e>>[1] = e
  <2>1. n \in Nat /\ q \in [1..n -> Rows]
    BY LenProperties
  <2>2. q \in [1..n -> Entries]
    BY <2>1 DEF Entries
  <2>3. q \in Seq(Entries)
    BY <2>1, <2>2
  <2> QED
    BY <1>1, <2>3
<1>3. n \in Nat /\ DOMAIN q = 1..n /\ \A k \in 1..n : q[k] \in Rows
  BY RowsOfSeq DEF RowsIn
<1>4. /\ u \in Seq(Entries) /\ Len(u) = n + 1
      /\ \A k \in 1..(n + 1) : u[k] = IF k <= n THEN q[k] ELSE <<e>>[k - n]
  BY <1>2, ConcatProperties
<1> HIDE DEF u
<1>5. DOMAIN u = 1..(n + 1) /\ (\A k \in 1..n : u[k] = q[k]) /\ u[n + 1] = e
  <2>1. DOMAIN u = 1..(n + 1)
    BY <1>4, LenProperties
  <2>2. \A k \in 1..n : k \in 1..(n + 1) /\ k <= n
    BY <1>3
  <2>3. n + 1 \in 1..(n + 1) /\ ~(n + 1 <= n) /\ n + 1 - n = 1
    BY <1>3
  <2>4. u[n + 1] = e
    BY <1>2, <1>4, <2>3
  <2> QED
    BY <1>4, <2>1, <2>2, <2>4
<1>6. {k \in DOMAIN u : ~u[k].meta} = DOMAIN q
  <2>1. ASSUME NEW k \in DOMAIN u PROVE ~u[k].meta <=> k \in DOMAIN q
    <3>1. CASE k \in 1..n
      BY <1>3, <1>5, <3>1 DEF Rows
    <3>2. CASE k = n + 1
      BY <1>1, <1>3, <1>5, <3>2
    <3> QED
      BY <1>3, <1>5, <3>1, <3>2
  <2>2. DOMAIN q \subseteq DOMAIN u
    BY <1>3, <1>5
  <2> QED
    BY <2>1, <2>2
<1>7. Sessions(u) = Keep(u, DOMAIN q)
  BY <1>6, Zenon DEF Sessions
<1>8. Keep(u, DOMAIN q) = Keep(q, DOMAIN q)
  BY <1>2, <1>3, <1>4, <1>5, KeepFront
<1> QED
  BY <1>4, <1>7, <1>8, KeepAll DEF u, e

LEMMA Joined ==
    ASSUME NEW S, NEW p \in Seq(S), NEW q \in Seq(S)
    PROVE  /\ p \o q \in Seq(S) /\ RowsIn(p \o q) = RowsIn(p) \cup RowsIn(q)
           /\ Distinct(p) /\ Distinct(q) /\ (\A r \in RowsIn(p), t \in RowsIn(q) : r.id # t.id)
                 => Distinct(p \o q)
<1> DEFINE u == p \o q
           m == Len(p)
           n == Len(q)
<1>1. m \in Nat /\ DOMAIN p = 1..m /\ n \in Nat /\ DOMAIN q = 1..n
  BY LenProperties
<1>2. /\ u \in Seq(S) /\ Len(u) = m + n
      /\ \A k \in 1..(m + n) : u[k] = IF k <= m THEN p[k] ELSE q[k - m]
  BY ConcatProperties
<1> HIDE DEF u, m, n
<1>3. DOMAIN u = 1..(m + n)
  BY <1>2, LenProperties
<1>4. ASSUME NEW k \in 1..m PROVE k \in DOMAIN u /\ u[k] = p[k]
  BY <1>1, <1>2, <1>3
<1>5. ASSUME NEW k \in 1..n PROVE m + k \in DOMAIN u /\ u[m + k] = q[k]
  <2>1. m + k \in 1..(m + n) /\ ~(m + k <= m) /\ m + k - m = k
    BY <1>1
  <2>2. u[m + k] = q[m + k - m]
    BY <1>1, <1>2, <2>1
  <2>3. q[m + k - m] = q[k]
    BY <2>1
  <2> QED
    BY <1>3, <2>1, <2>2, <2>3
<1>6. ASSUME NEW k \in DOMAIN u
      PROVE  \/ k \in DOMAIN p /\ u[k] = p[k]
             \/ k - m \in DOMAIN q /\ u[k] = q[k - m] /\ k = m + (k - m)
  BY <1>1, <1>2, <1>3
<1>7. RowsIn(u) = RowsIn(p) \cup RowsIn(q)
  <2>1. RowsIn(u) \subseteq RowsIn(p) \cup RowsIn(q)
    BY <1>6 DEF RowsIn
  <2>2. RowsIn(p) \subseteq RowsIn(u) /\ RowsIn(q) \subseteq RowsIn(u)
    BY <1>1, <1>4, <1>5 DEF RowsIn
  <2> QED
    BY <2>1, <2>2
<1>8. Distinct(p) /\ Distinct(q) /\ (\A r \in RowsIn(p), t \in RowsIn(q) : r.id # t.id) => Distinct(u)
  <2> SUFFICES ASSUME Distinct(p), Distinct(q), \A r \in RowsIn(p), t \in RowsIn(q) : r.id # t.id,
                      NEW j \in DOMAIN u, NEW k \in DOMAIN u, u[j].id = u[k].id
               PROVE  j = k
    BY DEF Distinct
  <2>1. \A a \in DOMAIN p, b \in DOMAIN q : p[a].id # q[b].id
    BY DEF RowsIn
  <2>2. \/ j \in DOMAIN p /\ u[j] = p[j]
        \/ j - m \in DOMAIN q /\ u[j] = q[j - m] /\ j = m + (j - m)
    BY <1>6
  <2>3. \/ k \in DOMAIN p /\ u[k] = p[k]
        \/ k - m \in DOMAIN q /\ u[k] = q[k - m] /\ k = m + (k - m)
    BY <1>6
  <2> QED
    BY <2>1, <2>2, <2>3 DEF Distinct
<1> QED
  BY <1>2, <1>7, <1>8 DEF u

\* An event leaves one row for its session, with the day in it.
LEMMA Touched ==
    ASSUME NEW q \in Seq(Rows), Distinct(q), NEW i \in Ids, day \in 0..MaxDay
    PROVE  /\ Touch(q, i) \in Seq(Rows) /\ Distinct(Touch(q, i))
           /\ IdsOf(RowsIn(Touch(q, i))) = IdsOf(RowsIn(q)) \cup {i}
           /\ \A r \in RowsIn(Touch(q, i)) : (r.id = i /\ r.at = day) \/ (r.id # i /\ r \in RowsIn(q))
<1> DEFINE n == Len(q)
           u == Touch(q, i)
<1>1. n \in Nat /\ DOMAIN q = 1..n /\ \A k \in 1..n : q[k] \in Rows
  BY RowsOfSeq DEF RowsIn
<1>2. CASE i \in IdsIn(q)
  <2> DEFINE new(k) == IF q[k].id = i THEN [q[k] EXCEPT !.at = day, !.state = "live"] ELSE q[k]
  <2>1. ASSUME NEW k \in 1..n
        PROVE  /\ new(k) \in Rows /\ new(k).id = q[k].id
               /\ (q[k].id = i => new(k).at = day) /\ (q[k].id # i => new(k) = q[k])
    <3>1. q[k] \in Rows
      BY <1>1
    <3> QED
      BY <3>1 DEF Rows
  <2> HIDE DEF new
  <2>2. u = [k \in 1..n |-> new(k)]
    BY <1>1, <1>2 DEF Touch, new
  <2> HIDE DEF u
  <2>3. u \in [1..n -> Rows] /\ DOMAIN u = 1..n /\ \A k \in 1..n : u[k] = new(k)
    BY <2>1, <2>2
  <2>4. u \in Seq(Rows)
    BY <1>1, <2>3
  <2>5. Distinct(u)
    BY <1>1, <2>1, <2>3 DEF Distinct
  <2>6. IdsOf(RowsIn(u)) = IdsOf(RowsIn(q)) /\ i \in IdsOf(RowsIn(q))
    BY <1>1, <1>2, <2>1, <2>3, IdsAre DEF IdsOf, RowsIn
  <2>7. \A r \in RowsIn(u) : (r.id = i /\ r.at = day) \/ (r.id # i /\ r \in RowsIn(q))
    BY <1>1, <2>1, <2>3 DEF RowsIn
  <2> QED
    BY <2>4, <2>5, <2>6, <2>7 DEF u
<1>3. CASE i \notin IdsIn(q)
  <2> DEFINE e == [meta |-> FALSE, id |-> i, at |-> day, state |-> "live"]
  <2>1. e \in Rows /\ e.id = i /\ e.at = day
    BY DEF Rows
  <2>2. u = Append(q, e)
    BY <1>3 DEF Touch
  <2> HIDE DEF e, u
  <2>3. /\ u \in Seq(Rows) /\ Len(u) = n + 1 /\ (\A k \in 1..n : u[k] = q[k]) /\ u[n + 1] = e
    BY <2>1, <2>2, AppendProperties
  <2>4. DOMAIN u = 1..(n + 1)
    BY <2>3, LenProperties
  <2>5. \A k \in DOMAIN u : (k \in DOMAIN q /\ u[k] = q[k]) \/ (k = n + 1 /\ u[k] = e)
    BY <1>1, <2>3, <2>4
  <2>6. RowsIn(u) = RowsIn(q) \cup {e}
    <3>1. RowsIn(u) \subseteq RowsIn(q) \cup {e}
      BY <2>5 DEF RowsIn
    <3>2. n + 1 \in DOMAIN u /\ DOMAIN q \subseteq DOMAIN u
      BY <1>1, <2>4
    <3>3. RowsIn(q) \cup {e} \subseteq RowsIn(u)
      BY <1>1, <2>3, <3>2 DEF RowsIn
    <3> QED
      BY <3>1, <3>3
  <2>7. \A r \in RowsIn(q) : r.id # i
    BY <1>3, IdsAre DEF IdsOf
  <2>8. Distinct(u)
    <3>1. \A k \in DOMAIN q : q[k].id # i
      BY <2>7 DEF RowsIn
    <3> QED
      BY <2>1, <2>5, <3>1 DEF Distinct
  <2>9. IdsOf(RowsIn(u)) = IdsOf(RowsIn(q)) \cup {i}
    BY <2>1, <2>6 DEF IdsOf
  <2> QED
    BY <2>1, <2>3, <2>6, <2>7, <2>8, <2>9 DEF u
<1> QED
  BY <1>2, <1>3

\* What is loaded are rows of the file, of the same days, and all the recent ones.
LEMMA CleanedRows ==
    ASSUME NEW q \in Seq(Entries), Distinct(Sessions(q)), day \in Nat
    PROVE  /\ Cleaned(q) \in Seq(Rows) /\ Distinct(Cleaned(q))
           /\ \A r \in RowsIn(Cleaned(q)) : \E e \in RowsIn(Sessions(q)) : e.id = r.id /\ e.at = r.at
           /\ \A e \in RowsIn(Sessions(q)) :
                 e.at + Expiry >= day => e.id \in IdsOf(RowsIn(Cleaned(q)))
<1> DEFINE s == Sessions(q)
           I == {k \in DOMAIN s : s[k].at + Expiry >= day}
           t == Keep(s, I)
           n == Len(t)
           u == [k \in DOMAIN t |-> [t[k] EXCEPT !.state = "completed"]]
<1>1. s \in Seq(Rows) /\ I \in SUBSET DOMAIN s
  BY SessionsAreRows
<1>2. Cleaned(q) = u
  BY DEF Cleaned
<1>3. \A i, j \in I : s[i].id = s[j].id => i = j
  BY DEF Distinct
<1>4. \A e \in RowsIn(s) : e.at + Expiry >= day => \E i \in I : s[i] = e
  BY DEF RowsIn
<1>5. {s[i] : i \in I} \subseteq RowsIn(s)
  BY DEF RowsIn
<1> HIDE DEF s, I
<1>6. t \in Seq(Rows) /\ RowsIn(t) = {s[i] : i \in I} /\ Distinct(t)
  BY <1>1, <1>3, KeptRows
<1> HIDE DEF t
<1>7. n \in Nat /\ DOMAIN t = 1..n /\ \A k \in 1..n : t[k] \in Rows
  BY <1>6, RowsOfSeq DEF RowsIn
<1>8. \A k \in DOMAIN t : u[k] \in Rows /\ u[k].id = t[k].id /\ u[k].at = t[k].at
  <2>1. ASSUME NEW k \in DOMAIN t
        PROVE  u[k] \in Rows /\ u[k].id = t[k].id /\ u[k].at = t[k].at
    <3>1. t[k] \in Rows /\ u[k] = [t[k] EXCEPT !.state = "completed"]
      BY <1>7
    <3> QED
      BY <3>1 DEF Rows
  <2> QED
    BY <2>1
<1>9. u \in [1..n -> Rows] /\ DOMAIN u = DOMAIN t
  <2>1. DOMAIN u = DOMAIN t /\ u = [k \in 1..n |-> u[k]]
    BY <1>7
  <2> QED
    BY <1>7, <1>8, <2>1
<1> HIDE DEF u
<1>10. u \in Seq(Rows)
  BY <1>7, <1>9
<1>11. Distinct(u)
  BY <1>6, <1>8, <1>9 DEF Distinct
<1>12. \A r \in RowsIn(u) : \E e \in RowsIn(s) : e.id = r.id /\ e.at = r.at
  <2>1. \A k \in DOMAIN t : t[k] \in RowsIn(s)
    BY <1>5, <1>6 DEF RowsIn
  <2> QED
    BY <1>8, <1>9, <2>1 DEF RowsIn
<1>13. \A e \in RowsIn(s) : e.at + Expiry >= day => e.id \in IdsOf(RowsIn(u))
  <2> SUFFICES ASSUME NEW e \in RowsIn(s), e.at + Expiry >= day
               PROVE  e.id \in IdsOf(RowsIn(u))
    OBVIOUS
  <2>1. e \in RowsIn(t)
    BY <1>4, <1>6
  <2>2. PICK k \in DOMAIN t : t[k] = e
    BY <2>1 DEF RowsIn
  <2>3. u[k] \in RowsIn(u) /\ u[k].id = e.id
    BY <1>8, <1>9, <2>2 DEF RowsIn
  <2> QED
    BY <2>3 DEF IdsOf
<1> QED
  BY <1>2, <1>10, <1>11, <1>12, <1>13 DEF s
-----------------------------------------------------------------------------
(* The store's steps preserve its invariant.                                 *)

LEMMA RowFacts ==
    ASSUME StoreInv
    PROVE  /\ OnScreen \cup InFile \cup InSave \cup Answered \subseteq Rows
           /\ \A r \in OnScreen \cup InFile \cup InSave \cup Answered :
                 r.id \in Ids /\ r.at \in Nat /\ r.at <= day
           /\ day \in Nat /\ MaxDay \in Nat /\ Expiry \in Nat
           /\ Sessions(file.entries) \in Seq(Rows) /\ Sessions(writing.entries) \in Seq(Rows)
           /\ overlay.sessions \in Seq(Rows) /\ answer \in Seq(Rows)
           /\ IdsOf(OnScreen) = IdsIn(overlay.sessions)
<1>1. /\ overlay.sessions \in Seq(Rows) /\ answer \in Seq(Rows)
      /\ file.entries \in Seq(Entries) /\ writing.entries \in Seq(Entries)
      /\ active \in [Ids -> SUBSET (0..day)] /\ day \in 0..MaxDay
  BY DEF StoreInv, StoreTypes
<1>2. Sessions(file.entries) \in Seq(Rows) /\ Sessions(writing.entries) \in Seq(Rows)
  BY <1>1, SessionsAreRows
<1>3. OnScreen \cup InFile \cup InSave \cup Answered \subseteq Rows
  BY <1>1, <1>2, RowsOfSeq DEF OnScreen, InFile, InSave, Answered
<1>4. day \in Nat /\ MaxDay \in Nat /\ Expiry \in Nat
  BY <1>1, StoreAssumption
<1>5. ASSUME NEW r \in OnScreen \cup InFile \cup InSave \cup Answered
      PROVE  r.id \in Ids /\ r.at \in Nat /\ r.at <= day
  <2>1. r.id \in Ids
    BY <1>3 DEF Rows
  <2>2. r.at \in 0..day
    BY <1>1, <2>1 DEF StoreInv, Truthful
  <2> QED
    BY <1>4, <2>1, <2>2
<1> QED
  BY <1>1, <1>2, <1>3, <1>4, <1>5, IdsAre DEF OnScreen

LEMMA HookEventStep == ASSUME StoreInv, NEW i \in Ids, HookEvent(i) PROVE StoreInv'
<1>1. /\ app # "down"
      /\ overlay' = [overlay EXCEPT !.sessions = Touch(overlay.sessions, i)]
      /\ active' = [active EXCEPT ![i] = active[i] \cup {day}]
      /\ ended' = ended \ {i}
      /\ UNCHANGED <<file, app, answer, writing, day, starts>>
  BY DEF HookEvent, Running
<1>2. /\ Touch(overlay.sessions, i) \in Seq(Rows) /\ Distinct(Touch(overlay.sessions, i))
      /\ IdsOf(RowsIn(Touch(overlay.sessions, i))) = IdsOf(OnScreen) \cup {i}
      /\ \A r \in RowsIn(Touch(overlay.sessions, i)) :
            (r.id = i /\ r.at = day) \/ (r.id # i /\ r \in OnScreen)
  BY RowFacts, Touched DEF StoreInv, StoreTypes, OneRowEach, OnScreen
<1>3. /\ overlay' \in [sessions : Seq(Rows), groups : SUBSET Groups]
      /\ overlay'.sessions = Touch(overlay.sessions, i)
  BY <1>1, <1>2 DEF StoreInv, StoreTypes
<1>4. /\ active \in [Ids -> SUBSET (0..day)] /\ active' \in [Ids -> SUBSET (0..day)]
      /\ day \in active'[i] /\ \A k \in Ids : active[k] \subseteq active'[k]
  <2>1. active \in [Ids -> SUBSET (0..day)]
    BY DEF StoreInv, StoreTypes
  <2>2. day \in 0..day
    BY RowFacts
  <2> QED
    BY <1>1, <2>1, <2>2
<1>5. /\ InFile' = InFile /\ InSave' = InSave /\ Answered' = Answered
      /\ OnScreen' = RowsIn(Touch(overlay.sessions, i))
  BY <1>1, <1>3 DEF InFile, InSave, Answered, OnScreen
<1>6. StoreTypes' /\ Phases' /\ OneRowEach'
  BY <1>1, <1>2, <1>3, <1>4 DEF StoreInv, StoreTypes, Phases, OneRowEach
<1>7. Truthful'
  <2>1. \A r \in OnScreen' \cup InFile \cup InSave \cup Answered : r.at \in active'[r.id]
    <3>1. ASSUME NEW r \in OnScreen' PROVE r.at \in active'[r.id]
      BY <1>2, <1>4, <1>5, <3>1, RowFacts DEF StoreInv, Truthful
    <3>2. ASSUME NEW r \in InFile \cup InSave \cup Answered PROVE r.at \in active'[r.id]
      BY <1>4, <3>2, RowFacts DEF StoreInv, Truthful
    <3> QED
      BY <3>1, <3>2
  <2>2. ASSUME NEW s \in OnScreen', NEW e \in InFile \cup InSave, s.id = e.id, s.id \notin ended'
        PROVE  e.at <= s.at
    <3>1. CASE s.id = i
      BY <1>2, <1>5, <3>1, RowFacts
    <3>2. CASE s.id # i
      BY <1>1, <1>2, <1>5, <2>2, <3>2 DEF StoreInv, Truthful
    <3> QED
      BY <3>1, <3>2
  <2>3. ASSUME NEW a \in Answered, NEW e \in InFile, a.id = e.id, a.id \notin IdsOf(OnScreen') \cup ended'
        PROVE  e.at <= a.at
    BY <1>1, <1>2, <1>5, <2>3 DEF StoreInv, Truthful
  <2> QED
    BY <1>5, <2>1, <2>2, <2>3 DEF Truthful
<1>8. Known'
  <2>1. IdsOf(OnScreen) \cup ended \subseteq IdsOf(OnScreen') \cup ended'
    BY <1>1, <1>2, <1>5
  <2> QED
    BY <1>1, <1>5, <2>1 DEF StoreInv, Known
<1> QED
  BY <1>6, <1>7, <1>8 DEF StoreInv

LEMMA RemoveSessionStep == ASSUME StoreInv, NEW i \in Ids, RemoveSession(i) PROVE StoreInv'
<1> DEFINE q == overlay.sessions
           I == {k \in DOMAIN q : q[k].id # i}
<1>1. /\ overlay' = [overlay EXCEPT !.sessions = Keep(q, I)]
      /\ ended' = ended \cup {i}
      /\ UNCHANGED <<file, app, answer, writing, day, starts, active>>
      /\ i \in IdsIn(q)
  BY DEF RemoveSession
<1>2. q \in Seq(Rows) /\ I \in SUBSET DOMAIN q /\ Distinct(q)
  BY RowFacts DEF StoreInv, OneRowEach
<1>3. (\A j, k \in I : q[j].id = q[k].id => j = k) /\ {q[k] : k \in I} = {r \in OnScreen : r.id # i}
  BY <1>2 DEF Distinct, OnScreen, RowsIn
<1>a. app # "down"
  <2>1. app = "down" => q = <<>>
    BY DEF StoreInv, Phases, Empty
  <2> QED
    BY <1>1, <2>1, NoRows
<1> HIDE DEF I
<1>4. /\ Keep(q, I) \in Seq(Rows) /\ RowsIn(Keep(q, I)) = {r \in OnScreen : r.id # i}
      /\ Distinct(Keep(q, I))
  BY <1>2, <1>3, KeptRows
<1>5. /\ overlay' \in [sessions : Seq(Rows), groups : SUBSET Groups]
      /\ overlay'.sessions = Keep(q, I)
  BY <1>1, <1>4 DEF StoreInv, StoreTypes
<1>6. /\ InFile' = InFile /\ InSave' = InSave /\ Answered' = Answered
      /\ OnScreen' = {r \in OnScreen : r.id # i}
  BY <1>1, <1>4, <1>5 DEF InFile, InSave, Answered, OnScreen
<1>7. StoreTypes' /\ Phases' /\ OneRowEach'
  BY <1>1, <1>4, <1>5, <1>a DEF StoreInv, StoreTypes, Phases, OneRowEach
<1>8. IdsOf(OnScreen) \cup ended \subseteq IdsOf(OnScreen') \cup ended'
  BY <1>1, <1>6 DEF IdsOf
<1>9. Truthful'
  BY <1>1, <1>6, <1>8 DEF StoreInv, Truthful
<1>10. Known'
  BY <1>1, <1>6, <1>8 DEF StoreInv, Known
<1> QED
  BY <1>7, <1>9, <1>10 DEF StoreInv

LEMMA GroupsStep == ASSUME StoreInv, NEW g \in Groups, CreateGroup(g) \/ DeleteGroup(g) PROVE StoreInv'
<1>1. /\ UNCHANGED <<file, app, answer, writing, day, starts, active, ended>>
      /\ \/ overlay' = [overlay EXCEPT !.groups = overlay.groups \cup {g}] /\ app # "down"
         \/ overlay' = [overlay EXCEPT !.groups = overlay.groups \ {g}] /\ g \in overlay.groups
  BY DEF CreateGroup, DeleteGroup, Running
<1>2. app # "down"
  BY <1>1 DEF StoreInv, Phases, Empty
<1>3. /\ overlay' \in [sessions : Seq(Rows), groups : SUBSET Groups]
      /\ overlay'.sessions = overlay.sessions
  BY <1>1 DEF StoreInv, StoreTypes
<1>4. InFile' = InFile /\ InSave' = InSave /\ Answered' = Answered /\ OnScreen' = OnScreen
  BY <1>1, <1>3 DEF InFile, InSave, Answered, OnScreen
<1>5. StoreTypes' /\ Phases' /\ OneRowEach'
  BY <1>1, <1>2, <1>3 DEF StoreInv, StoreTypes, Phases, OneRowEach
<1> QED
  BY <1>1, <1>4, <1>5 DEF StoreInv, Truthful, Known

LEMMA DayPassesStep == ASSUME StoreInv, DayPasses PROVE StoreInv'
<1>1. day < MaxDay /\ day' = day + 1
      /\ UNCHANGED <<file, overlay, app, answer, writing, starts, active, ended>>
  BY DEF DayPasses
<1>2. InFile' = InFile /\ InSave' = InSave /\ Answered' = Answered /\ OnScreen' = OnScreen
  BY <1>1 DEF InFile, InSave, Answered, OnScreen
<1>3. day' \in 0..MaxDay /\ active' \in [Ids -> SUBSET (0..day')]
  <2>1. 0..day \subseteq 0..day' /\ day' \in 0..MaxDay
    BY <1>1, RowFacts
  <2> QED
    BY <1>1, <2>1 DEF StoreInv, StoreTypes
<1>4. StoreTypes' /\ Phases' /\ OneRowEach'
  BY <1>1, <1>3 DEF StoreInv, StoreTypes, Phases, OneRowEach
<1>5. \A e \in InFile : e.at + Expiry >= day' => e.at + Expiry >= day
  BY <1>1, RowFacts
<1> QED
  BY <1>1, <1>2, <1>4, <1>5 DEF StoreInv, Truthful, Known

LEMMA BeginSaveStep == ASSUME StoreInv, BeginSave PROVE StoreInv'
<1>1. /\ app \in {"restoring", "up"} /\ ~writing.on
      /\ writing' = [on |-> TRUE, entries |-> Serialized]
      /\ file' = [state |-> "torn", entries |-> <<>>]
      /\ UNCHANGED <<overlay, app, answer, day, starts, active, ended>>
  BY DEF BeginSave
<1>2. Serialized \in Seq(Entries) /\ Sessions(Serialized) = overlay.sessions
  <2> DEFINE q == overlay.sessions
  <2>1. q \in Seq(Rows) /\ overlay.groups \in SUBSET Groups
    BY DEF StoreInv, StoreTypes
  <2> HIDE DEF q
  <2>2. q \in Seq(Entries)
    <3>1. Len(q) \in Nat /\ q \in [1..Len(q) -> Rows]
      BY <2>1, LenProperties
    <3>2. q \in [1..Len(q) -> Entries]
      BY <3>1 DEF Entries
    <3> QED
      BY <3>1, <3>2
  <2>3. CASE overlay.groups = {}
    <3>1. Serialized = q \o <<>>
      BY <2>3 DEF Serialized, q
    <3>2. q \o <<>> = q
      BY <2>1, ConcatEmptySeq
    <3> QED
      BY <2>1, <2>2, <3>1, <3>2, SessionsOfRows DEF q
  <2>4. CASE overlay.groups # {}
    <3>1. Serialized = q \o <<MetaEntry(overlay.groups)>>
      BY <2>4 DEF Serialized, q
    <3> QED
      BY <2>1, <3>1, SessionsBeforeGroups DEF q
  <2> QED
    BY <2>3, <2>4
<1>3. /\ writing' \in [on : BOOLEAN, entries : Seq(Entries)] /\ writing'.on /\ writing'.entries = Serialized
      /\ file' \in [state : {"missing", "torn", "whole"}, entries : Seq(Entries)]
      /\ file'.state = "torn" /\ file'.entries = <<>>
  BY <1>1, <1>2
<1>4. InFile' = {} /\ InSave' = OnScreen /\ Answered' = Answered /\ OnScreen' = OnScreen
  BY <1>1, <1>2, <1>3, NoRows DEF InFile, InSave, Answered, OnScreen
<1>5. StoreTypes' /\ Phases'
  BY <1>1, <1>3 DEF StoreInv, StoreTypes, Phases
<1>6. OneRowEach'
  BY <1>1, <1>2, <1>3, NoRows DEF StoreInv, OneRowEach
<1>7. Truthful'
  <2>1. \A r, s \in OnScreen : r.id = s.id => r.at <= s.at
    <3>1. \A r, s \in OnScreen : r.id = s.id => r = s
      BY OneRowForAnId DEF OnScreen, StoreInv, OneRowEach
    <3>2. \A r \in OnScreen : r.at <= r.at
      BY RowFacts
    <3> QED
      BY <3>1, <3>2
  <2> QED
    BY <1>1, <1>4, <2>1 DEF StoreInv, Truthful
<1>8. Known'
  BY <1>1, <1>4 DEF StoreInv, Known
<1> QED
  BY <1>5, <1>6, <1>7, <1>8 DEF StoreInv

LEMMA EndSaveStep == ASSUME StoreInv, EndSave PROVE StoreInv'
<1>1. /\ writing.on /\ file' = [state |-> "whole", entries |-> writing.entries]
      /\ writing' = [on |-> FALSE, entries |-> <<>>]
      /\ UNCHANGED <<overlay, app, answer, day, starts, active, ended>>
  BY DEF EndSave, NoSave
<1>2. /\ writing' \in [on : BOOLEAN, entries : Seq(Entries)] /\ ~writing'.on /\ writing'.entries = <<>>
      /\ file' \in [state : {"missing", "torn", "whole"}, entries : Seq(Entries)]
      /\ file'.state = "whole" /\ file'.entries = writing.entries
  BY <1>1 DEF StoreInv, StoreTypes
<1>3. InFile' = InSave /\ InSave' = {} /\ Answered' = Answered /\ OnScreen' = OnScreen
  BY <1>1, <1>2, NoRows DEF InFile, InSave, Answered, OnScreen
<1>4. StoreTypes' /\ Phases'
  BY <1>1, <1>2 DEF StoreInv, StoreTypes, Phases, NoSave
<1>5. OneRowEach'
  BY <1>1, <1>2, NoRows DEF StoreInv, OneRowEach
<1>6. \A e \in InSave : e.id \in IdsOf(OnScreen) \cup ended
  BY DEF StoreInv, Known, IdsOf
<1>7. Truthful'
  <2>1. \A r \in OnScreen \cup InSave \cup Answered : r.at \in active[r.id]
    BY DEF StoreInv, Truthful
  <2>2. \A s \in OnScreen, e \in InSave : s.id = e.id /\ s.id \notin ended => e.at <= s.at
    BY DEF StoreInv, Truthful
  <2> QED
    BY <1>1, <1>3, <1>6, <2>1, <2>2 DEF Truthful
<1>8. Known'
  BY <1>1, <1>3, <1>6 DEF Known, IdsOf
<1> QED
  BY <1>4, <1>5, <1>7, <1>8 DEF StoreInv

LEMMA StartStep == ASSUME StoreInv, Start PROVE StoreInv'
<1>1. /\ app = "down" /\ starts < MaxStarts /\ app' = "loading" /\ starts' = starts + 1
      /\ UNCHANGED <<file, overlay, answer, writing, day, active, ended>>
  BY DEF Start
<1>2. InFile' = InFile /\ InSave' = InSave /\ Answered' = Answered /\ OnScreen' = OnScreen
  BY <1>1 DEF InFile, InSave, Answered, OnScreen
<1>3. starts' \in 0..MaxStarts
  BY <1>1, StoreAssumption DEF StoreInv, StoreTypes
<1>4. StoreTypes' /\ Phases' /\ OneRowEach'
  BY <1>1, <1>3 DEF StoreInv, StoreTypes, Phases, OneRowEach
<1> QED
  BY <1>1, <1>2, <1>4 DEF StoreInv, Truthful, Known

LEMMA LoadStep == ASSUME StoreInv, Load PROVE StoreInv'
<1>1. /\ app = "loading" /\ ~writing.on /\ answer' = Cleaned(file.entries) /\ app' = "restoring"
      /\ UNCHANGED <<file, overlay, writing, day, starts, active, ended>>
  BY DEF Load
<1>2. /\ answer' \in Seq(Rows) /\ Distinct(answer')
      /\ \A r \in Answered' : \E e \in InFile : e.id = r.id /\ e.at = r.at
      /\ \A e \in InFile : e.at + Expiry >= day => e.id \in IdsOf(Answered')
  <2>1. file.entries \in Seq(Entries) /\ Distinct(Sessions(file.entries))
    BY DEF StoreInv, StoreTypes, OneRowEach
  <2>2. Answered' = RowsIn(Cleaned(file.entries))
    BY <1>1 DEF Answered
  <2> QED
    BY <1>1, <2>1, <2>2, CleanedRows, RowFacts DEF InFile
<1>3. InFile' = InFile /\ InSave' = InSave /\ OnScreen' = OnScreen
  BY <1>1 DEF InFile, InSave, OnScreen
<1>4. StoreTypes' /\ Phases' /\ OneRowEach'
  BY <1>1, <1>2 DEF StoreInv, StoreTypes, Phases, OneRowEach, NoSave
<1>5. Truthful'
  <2>1. ASSUME NEW a \in Answered' PROVE a.at \in active[a.id]
    BY <1>2 DEF StoreInv, Truthful
  <2>2. ASSUME NEW a \in Answered', NEW e \in InFile, a.id = e.id PROVE e.at <= a.at
    <3>1. PICK r \in InFile : r.id = a.id /\ r.at = a.at
      BY <1>2
    <3>2. r = e
      BY <2>2, <3>1, OneRowForAnId DEF InFile, StoreInv, OneRowEach
    <3> QED
      BY <3>1, <3>2, RowFacts
  <2> QED
    BY <1>1, <1>3, <2>1, <2>2 DEF StoreInv, Truthful
<1>6. Known'
  BY <1>1, <1>2, <1>3 DEF StoreInv, Known
<1> QED
  BY <1>4, <1>5, <1>6 DEF StoreInv

LEMMA RestoreStep == ASSUME StoreInv, Restore PROVE StoreInv'
<1> DEFINE p == overlay.sessions
           I == {k \in DOMAIN answer : answer[k].id \notin IdsIn(p)}
           t == Keep(answer, I)
<1>1. /\ app = "restoring" /\ overlay' = [overlay EXCEPT !.sessions = p \o t]
      /\ app' = "up" /\ answer' = <<>>
      /\ UNCHANGED <<file, writing, day, starts, active, ended>>
  BY DEF Restore
<1>2. p \in Seq(Rows) /\ answer \in Seq(Rows) /\ IdsIn(p) = IdsOf(OnScreen) /\ Distinct(p)
      /\ Distinct(answer) /\ I \in SUBSET DOMAIN answer
  BY RowFacts DEF StoreInv, OneRowEach
<1>3. (\A j, k \in I : answer[j].id = answer[k].id => j = k)
      /\ {answer[k] : k \in I} = {a \in Answered : a.id \notin IdsOf(OnScreen)}
  BY <1>2 DEF Distinct, Answered, RowsIn
<1> HIDE DEF I
<1>4. t \in Seq(Rows) /\ Distinct(t) /\ RowsIn(t) = {a \in Answered : a.id \notin IdsOf(OnScreen)}
  BY <1>2, <1>3, KeptRows
<1> HIDE DEF t
<1>5. \A r \in RowsIn(p), a \in RowsIn(t) : r.id # a.id
  BY <1>4 DEF IdsOf, OnScreen
<1>6. p \o t \in Seq(Rows) /\ Distinct(p \o t) /\ RowsIn(p \o t) = RowsIn(p) \cup RowsIn(t)
  BY <1>2, <1>4, <1>5, Joined
<1>7. overlay' \in [sessions : Seq(Rows), groups : SUBSET Groups] /\ overlay'.sessions = p \o t
  BY <1>1, <1>6 DEF StoreInv, StoreTypes
<1>8. /\ InFile' = InFile /\ InSave' = InSave /\ Answered' = {}
      /\ OnScreen' = OnScreen \cup {a \in Answered : a.id \notin IdsOf(OnScreen)}
  BY <1>1, <1>4, <1>6, <1>7, NoRows DEF InFile, InSave, Answered, OnScreen
<1>9. IdsOf(OnScreen') = IdsOf(OnScreen) \cup IdsOf(Answered)
  BY <1>8 DEF IdsOf
<1>10. StoreTypes'
  <2>1. answer' \in Seq(Rows)
    BY <1>1
  <2> QED
    BY <1>1, <1>7, <2>1 DEF StoreInv, StoreTypes
<1>11. Phases' /\ OneRowEach'
  BY <1>1, <1>6, <1>7, NoRows DEF StoreInv, Phases, OneRowEach
<1>12. Truthful'
  <2>1. \A r \in OnScreen \cup InFile \cup InSave \cup Answered : r.at \in active[r.id]
    BY DEF StoreInv, Truthful
  <2>2. ASSUME NEW a \in Answered, a.id \notin IdsOf(OnScreen), NEW e \in InFile \cup InSave,
               a.id = e.id, a.id \notin ended
        PROVE  e.at <= a.at
    <3>1. e \notin InSave
      BY <2>2 DEF StoreInv, Known, IdsOf
    <3> QED
      BY <2>2, <3>1 DEF StoreInv, Truthful
  <2>3. \A s \in OnScreen, e \in InFile \cup InSave : s.id = e.id /\ s.id \notin ended => e.at <= s.at
    BY DEF StoreInv, Truthful
  <2> QED
    BY <1>1, <1>8, <2>1, <2>2, <2>3 DEF Truthful
<1>13. Known'
  BY <1>1, <1>8, <1>9 DEF StoreInv, Known
<1> QED
  BY <1>10, <1>11, <1>12, <1>13 DEF StoreInv

LEMMA DownStep == ASSUME StoreInv, Quit \/ Kill PROVE StoreInv'
<1>1. /\ file' = file \/ file' = [state |-> "whole", entries |-> overlay.sessions]
      /\ app' = "down" /\ overlay' = [sessions |-> <<>>, groups |-> {}] /\ answer' = <<>>
      /\ writing' = [on |-> FALSE, entries |-> <<>>] /\ ended' = {}
      /\ UNCHANGED <<day, starts, active>>
  BY DEF Quit, Kill, Down, Empty, NoSave
<1>2. overlay.sessions \in Seq(Entries) /\ Sessions(overlay.sessions) = overlay.sessions
  <2>1. overlay.sessions \in Seq(Rows)
    BY RowFacts
  <2>2. Len(overlay.sessions) \in Nat /\ overlay.sessions \in [1..Len(overlay.sessions) -> Rows]
    BY <2>1, LenProperties
  <2>3. overlay.sessions \in [1..Len(overlay.sessions) -> Entries]
    BY <2>2 DEF Entries
  <2> QED
    BY <2>1, <2>2, <2>3, SessionsOfRows
<1>3. /\ file' \in [state : {"missing", "torn", "whole"}, entries : Seq(Entries)]
      /\ file'.state # "whole" => file'.entries = <<>>
      /\ file'.entries = file.entries \/ file'.entries = overlay.sessions
  BY <1>1, <1>2 DEF StoreInv, StoreTypes, Phases
<1>4. overlay' \in [sessions : Seq(Rows), groups : SUBSET Groups] /\ overlay'.sessions = <<>>
  BY <1>1
<1>5. writing' \in [on : BOOLEAN, entries : Seq(Entries)] /\ writing'.entries = <<>> /\ answer' \in Seq(Rows)
  BY <1>1
<1>6. /\ InFile' \in {InFile, OnScreen} /\ InSave' = {} /\ Answered' = {} /\ OnScreen' = {}
  BY <1>1, <1>2, <1>3, <1>4, <1>5, NoRows DEF InFile, InSave, Answered, OnScreen
<1>7. StoreTypes'
  <2>1. ended' \in SUBSET Ids /\ app' \in {"down", "loading", "restoring", "up"}
    BY <1>1
  <2> QED
    BY <1>1, <1>3, <1>4, <1>5, <2>1 DEF StoreInv, StoreTypes
<1>8. Phases'
  BY <1>1, <1>3 DEF Phases, Empty, NoSave
<1>9. OneRowEach'
  BY <1>1, <1>2, <1>3, <1>4, <1>5, NoRows DEF StoreInv, OneRowEach
<1>10. Truthful'
  BY <1>1, <1>6 DEF StoreInv, Truthful
<1>11. Known'
  BY <1>1, <1>6 DEF Known, IdsOf
<1> QED
  BY <1>7, <1>8, <1>9, <1>10, <1>11 DEF StoreInv

LEMMA StoreStep == ASSUME StoreInv, StoreNext \/ UNCHANGED storeVars PROVE StoreInv'
<1>1. CASE UNCHANGED storeVars
  BY <1>1 DEF storeVars, StoreInv, StoreTypes, Phases, OneRowEach, Truthful, Known, OnScreen, InFile,
              InSave, Answered
<1>2. CASE StoreNext
  BY <1>2, HookEventStep, RemoveSessionStep, GroupsStep, DayPassesStep, BeginSaveStep, EndSaveStep,
     StartStep, LoadStep, RestoreStep, DownStep DEF StoreNext
<1> QED
  BY <1>1, <1>2

LEMMA StoreStarts == StoreInit => StoreInv
<1> SUFFICES ASSUME StoreInit PROVE StoreInv
  OBVIOUS
<1>1. /\ file = [state |-> "missing", entries |-> <<>>] /\ overlay = [sessions |-> <<>>, groups |-> {}]
      /\ app = "down" /\ answer = <<>> /\ writing = [on |-> FALSE, entries |-> <<>>]
      /\ day = 0 /\ starts = 0 /\ active = [i \in Ids |-> {}] /\ ended = {}
  BY DEF StoreInit, Empty, NoSave
<1>2. overlay \in [sessions : Seq(Rows), groups : SUBSET Groups] /\ overlay.sessions = <<>>
  BY <1>1
<1>3. /\ file \in [state : {"missing", "torn", "whole"}, entries : Seq(Entries)]
      /\ file.entries = <<>> /\ answer \in Seq(Rows)
      /\ writing \in [on : BOOLEAN, entries : Seq(Entries)] /\ writing.entries = <<>>
  BY <1>1
<1>4. OnScreen = {} /\ InFile = {} /\ InSave = {} /\ Answered = {}
  BY <1>1, <1>2, <1>3, NoRows DEF OnScreen, InFile, InSave, Answered
<1>5. StoreTypes
  <2>1. active \in [Ids -> SUBSET (0..day)] /\ ended \in SUBSET Ids
    BY <1>1
  <2>2. day \in 0..MaxDay /\ starts \in 0..MaxStarts
    BY <1>1, StoreAssumption
  <2> QED
    BY <1>1, <1>2, <1>3, <2>1, <2>2 DEF StoreTypes
<1>6. Phases
  BY <1>1, <1>3 DEF Phases, Empty, NoSave
<1>7. OneRowEach
  BY <1>1, <1>2, <1>3, NoRows DEF OneRowEach
<1>8. Truthful /\ Known
  BY <1>4 DEF Truthful, Known, IdsOf
<1> QED
  BY <1>5, <1>6, <1>7, <1>8 DEF StoreInv

LEMMA StoreIsInvariant == Spec => []StoreInv
<1>1. Init => StoreInv
  BY StoreStarts DEF Init
<1>2. StoreInv /\ [Next]_vars => StoreInv'
  <2>1. [Next]_vars => StoreNext \/ UNCHANGED storeVars
    BY DEF Next, vars
  <2> QED
    BY <2>1, StoreStep
<1> QED
  BY <1>1, <1>2, PTL DEF Spec
-----------------------------------------------------------------------------
(* What the store promises.                                                  *)

\* A session has one row in the overlay and one in sessions.json, whatever hooks do
\* while load_sessions is answered: restoreSessions leaves out what is there.
THEOREM SessionsAreThereOnce == Spec => []OneRowPerSession
<1>1. StoreInv => OneRowPerSession
  BY DEF StoreInv, OneRowEach, Distinct, OneRowPerSession
<1> QED
  BY <1>1, StoreIsInvariant, PTL

\* As soon as the app is up, every recent session of a whole sessions.json is in the
\* overlay or was removed by the user: the next save of the overlay loses none.
THEOREM SavesLoseNothing == Spec => []FileIsOnScreen
<1>1. StoreInv => FileIsOnScreen
  <2> SUFFICES ASSUME StoreInv, app = "up", NEW i \in DOMAIN Sessions(file.entries),
                      Sessions(file.entries)[i].at + Expiry >= day
               PROVE  Sessions(file.entries)[i].id \in IdsIn(overlay.sessions) \cup ended
    BY DEF FileIsOnScreen
  <2>1. Sessions(file.entries)[i] \in InFile
    BY DEF InFile, RowsIn
  <2>2. IdsOf(Answered) = {}
    BY NoRows DEF StoreInv, Phases, Answered, IdsOf
  <2> QED
    BY <2>1, <2>2, RowFacts DEF StoreInv, Known
<1> QED
  BY <1>1, StoreIsInvariant, PTL

\* No save and no restore renews a session or ages it: the day of its row is one on
\* which it had an event, and not before the one sessions.json has.
THEOREM DaysAreTrue == Spec => []ActivityIsTrue
<1>1. StoreInv => ActivityIsTrue
  <2> SUFFICES ASSUME StoreInv, NEW i \in DOMAIN overlay.sessions
               PROVE  /\ overlay.sessions[i].at \in active[overlay.sessions[i].id]
                      /\ app = "up" /\ overlay.sessions[i].id \notin ended =>
                            \A j \in DOMAIN Sessions(file.entries) :
                               Sessions(file.entries)[j].id = overlay.sessions[i].id
                                  => Sessions(file.entries)[j].at <= overlay.sessions[i].at
    BY DEF ActivityIsTrue
  <2>1. overlay.sessions[i] \in OnScreen
    BY DEF OnScreen, RowsIn
  <2>2. \A j \in DOMAIN Sessions(file.entries) : Sessions(file.entries)[j] \in InFile
    BY DEF InFile, RowsIn
  <2> QED
    BY <2>1, <2>2 DEF StoreInv, Truthful
<1> QED
  BY <1>1, StoreIsInvariant, PTL
-----------------------------------------------------------------------------
(* The files of the transcripts.                                             *)

Lines == [kind : LineKinds, id : SessionIds \cup {NoId}]

TranscriptTypes ==
    /\ files \in [Files -> [lines : Seq(Lines), modified : 0..hour]] /\ hour \in Nat
    /\ merged \in [SessionIds -> Files \cup {NoId}]
    /\ text \in Seq(Chars)

\* A sort by time drops no file.
LEMMA SortIsComplete ==
    ASSUME NEW q \in NewestFirst
    PROVE  /\ Cardinality(Recent) \in Nat /\ q \in [1..Cardinality(Recent) -> Recent]
           /\ \A f \in Recent : \E j \in 1..Cardinality(Recent) : q[j] = f
<1> DEFINE n == Cardinality(Recent)
<1>1. IsFiniteSet(Recent)
  BY TranscriptAssumption, FS_Subset DEF Recent
<1>2. n \in Nat /\ IsFiniteSet(1..n) /\ Cardinality(1..n) = n
  BY <1>1, FS_CardinalityType, FS_Interval
<1>3. q \in [1..n -> Recent] /\ \A i, j \in 1..n : i < j => q[i] # q[j]
  BY DEF NewestFirst
<1> HIDE DEF n
<1>4. \A i, j \in 1..n : q[i] = q[j] => i = j
  <2> SUFFICES ASSUME NEW i \in 1..n, NEW j \in 1..n, q[i] = q[j] PROVE i = j
    OBVIOUS
  <2>1. ~(i < j) /\ ~(j < i)
    BY <1>3
  <2> QED
    BY <1>2, <2>1
<1>5. q \in Injection(1..n, Recent)
  BY <1>3, <1>4, Zenon DEF Injection, IsInjective
<1>6. q \in Surjection(1..n, Recent)
  BY <1>1, <1>2, <1>5, FS_Injection DEF n
<1> QED
  BY <1>2, <1>3, <1>6 DEF Surjection, n

\* Of the files the discovery collects each is a recent one, and one it leaves out,
\* or collects later, is not newer.
LEMMA CollectedFiles ==
    ASSUME TranscriptTypes, NEW found \in CollectRecentFiles
    PROVE  /\ found \in Seq(Recent) /\ Len(found) \in Nat
           /\ \A f \in Recent, k \in 1..Len(found) :
                 \/ files[f].modified <= files[found[k]].modified
                 \/ \E j \in 1..Len(found) : j < k /\ found[j] = f
<1> DEFINE n == Cardinality(Recent)
           m == IF n < MaxFiles THEN n ELSE MaxFiles
<1>1. PICK q \in NewestFirst : found = SubSeq(q, 1, IF Len(q) < MaxFiles THEN Len(q) ELSE MaxFiles)
  BY DEF CollectRecentFiles
<1>2. /\ n \in Nat /\ q \in [1..n -> Recent] /\ (\A f \in Recent : \E j \in 1..n : q[j] = f)
      /\ \A i, j \in 1..n : i < j => files[q[i]].modified >= files[q[j]].modified
  BY SortIsComplete DEF NewestFirst
<1> HIDE DEF n
<1>3. q \in Seq(Recent) /\ Len(q) = n
  BY <1>2
<1>4. m \in 0..n
  BY <1>2, TranscriptAssumption
<1>5. found = SubSeq(q, 1, m)
  BY <1>1, <1>3
<1> HIDE DEF m
<1>6. found \in Seq(Recent) /\ Len(found) = m /\ \A k \in 1..m : found[k] = q[k]
  <2>1. \A k \in 1..m : q[k] \in Recent
    BY <1>2, <1>4
  <2>2. SubSeq(q, 1, m) = [k \in 1..m |-> q[k]]
    BY <1>2, <1>3, <1>4
  <2> QED
    BY <1>2, <1>4, <1>5, <2>1, <2>2
<1>7. ASSUME NEW f \in Recent, NEW k \in 1..m
      PROVE  files[f].modified <= files[found[k]].modified \/ \E j \in 1..m : j < k /\ found[j] = f
  <2>1. PICK j \in 1..n : q[j] = f
    BY <1>2
  <2>2. k \in 1..n /\ found[k] = q[k]
    <3>1. m \in Nat /\ m <= n
      BY <1>2, <1>4
    <3>2. k \in 1..n
      BY <1>2, <3>1
    <3> QED
      BY <1>6, <3>2
  <2>3. files[f].modified \in Nat /\ files[q[k]].modified \in Nat
    <3>1. q[k] \in Files /\ f \in Files
      BY <1>2, <2>2 DEF Recent
    <3>2. \A g \in Files : files[g].modified \in 0..hour
      BY DEF TranscriptTypes
    <3> QED
      BY <3>1, <3>2 DEF TranscriptTypes
  <2>4. CASE j < k
    <3>1. j \in 1..m
      BY <1>2, <1>4, <2>4
    <3> QED
      BY <1>6, <2>1, <2>4, <3>1
  <2>5. CASE j = k
    BY <2>1, <2>2, <2>3, <2>5
  <2>6. CASE k < j
    <3>1. files[q[k]].modified >= files[f].modified
      BY <1>2, <2>1, <2>2, <2>6
    <3> QED
      BY <2>2, <2>3, <3>1
  <2> QED
    BY <1>2, <1>4, <2>4, <2>5, <2>6
<1> QED
  BY <1>2, <1>4, <1>6, <1>7

\* A session the backend did not have is from the first file of it that was collected.
LEMMA MergedFrom ==
    ASSUME TranscriptTypes, NEW found \in CollectRecentFiles, NEW s \in SessionIds
    PROVE  \/ Merge(found)[s] = merged[s]
           \/ \E k \in 1..Len(found) :
                 /\ Merge(found)[s] = found[k]
                 /\ \A j \in 1..Len(found) : SessionIn(found[j]) = s => k <= j
<1> DEFINE of == {i \in DOMAIN found : SessionIn(found[i]) = s}
           least == CHOOSE i \in of : \A j \in of : i <= j
<1>1. DOMAIN found = 1..Len(found) /\ Len(found) \in Nat
  BY CollectedFiles, LenProperties
<1>2. Merge(found)[s] = IF merged[s] # NoId \/ of = {} THEN merged[s] ELSE found[least]
  BY DEF Merge
<1>3. CASE merged[s] # NoId \/ of = {}
  BY <1>2, <1>3
<1>4. CASE merged[s] = NoId /\ of # {}
  <2>1. of \subseteq 1..Len(found)
    BY <1>1
  <2> HIDE DEF of
  <2>2. \E i \in of : \A j \in of : i <= j
    BY <1>1, <1>4, <2>1, LeastIndex
  <2>3. least \in of /\ \A j \in of : least <= j
    BY <2>2
  <2> HIDE DEF least
  <2>4. \A j \in 1..Len(found) : SessionIn(found[j]) = s => j \in of
    BY <1>1 DEF of
  <2> QED
    BY <1>2, <1>4, <2>1, <2>3, <2>4
<1> QED
  BY <1>3, <1>4

LEMMA DiscoverStep ==
    ASSUME TranscriptTypes, Discover
    PROVE  /\ merged' \in [SessionIds -> Files \cup {NoId}]
           /\ \A s \in SessionIds : merged[s] = NoId /\ merged'[s] # NoId =>
                 \A f \in Recent : SessionIn(f) = s => files[f].modified <= files[merged'[s]].modified
<1>1. PICK found \in CollectRecentFiles : merged' = Merge(found)
  BY DEF Discover
<1>2. /\ found \in Seq(Recent) /\ Len(found) \in Nat
      /\ \A f \in Recent, k \in 1..Len(found) :
            \/ files[f].modified <= files[found[k]].modified
            \/ \E j \in 1..Len(found) : j < k /\ found[j] = f
  BY CollectedFiles
<1>3. \A s \in SessionIds :
         \/ merged'[s] = merged[s]
         \/ \E k \in 1..Len(found) :
               merged'[s] = found[k] /\ \A j \in 1..Len(found) : SessionIn(found[j]) = s => k <= j
  BY <1>1, MergedFrom
<1>4. merged' \in [SessionIds -> Files \cup {NoId}]
  <2>1. \A k \in 1..Len(found) : found[k] \in Files
    BY <1>2, ElementOfSeq DEF Recent
  <2>2. merged' = [s \in SessionIds |-> merged'[s]]
    BY <1>1 DEF Merge
  <2>3. \A s \in SessionIds : merged'[s] \in Files \cup {NoId}
    BY <1>3, <2>1 DEF TranscriptTypes
  <2> QED
    BY <2>2, <2>3
<1>5. ASSUME NEW s \in SessionIds, merged[s] = NoId, merged'[s] # NoId,
             NEW f \in Recent, SessionIn(f) = s
      PROVE  files[f].modified <= files[merged'[s]].modified
  <2>1. PICK k \in 1..Len(found) :
           merged'[s] = found[k] /\ \A j \in 1..Len(found) : SessionIn(found[j]) = s => k <= j
    BY <1>3, <1>5
  <2>2. \A j \in 1..Len(found) : j < k => found[j] # f
    BY <1>2, <1>5, <2>1
  <2> QED
    BY <1>2, <2>1, <2>2
<1> QED
  BY <1>4, <1>5

LEMMA TranscriptStep ==
    ASSUME TranscriptTypes, TranscriptNext \/ AddChar \/ UNCHANGED transcriptVars
    PROVE  TranscriptTypes'
<1>1. CASE AddLine
  <2>1. PICK f \in Files, kind \in LineKinds, id \in SessionIds \cup {NoId} :
           files' = [files EXCEPT ![f] = [lines |-> Append(files[f].lines, [kind |-> kind, id |-> id]),
                                          modified |-> hour]]
    BY <1>1 DEF AddLine
  <2>2. UNCHANGED <<hour, merged, text>>
    BY <1>1 DEF AddLine
  <2>3. [kind |-> kind, id |-> id] \in Lines /\ files[f].lines \in Seq(Lines)
    BY DEF TranscriptTypes, Lines
  <2>4. Append(files[f].lines, [kind |-> kind, id |-> id]) \in Seq(Lines)
    BY <2>3, AppendProperties
  <2>5. hour \in 0..hour
    BY DEF TranscriptTypes
  <2> QED
    BY <2>1, <2>2, <2>4, <2>5 DEF TranscriptTypes
<1>2. CASE HourPasses
  <2>1. hour' = hour + 1 /\ UNCHANGED <<files, merged, text>>
    BY <1>2 DEF HourPasses
  <2>2. hour' \in Nat /\ 0..hour \subseteq 0..hour'
    BY <2>1 DEF TranscriptTypes
  <2> QED
    BY <2>1, <2>2 DEF TranscriptTypes
<1>3. CASE Discover
  BY <1>3, DiscoverStep DEF Discover, TranscriptTypes
<1>4. CASE RestartApp
  BY <1>4 DEF RestartApp, TranscriptTypes
<1>5. CASE AddChar
  <2>1. PICK c \in Chars : text' = Append(text, c)
    BY <1>5 DEF AddChar
  <2>2. text' \in Seq(Chars)
    BY <2>1, AppendProperties DEF TranscriptTypes
  <2> QED
    BY <1>5, <2>2 DEF AddChar, TranscriptTypes
<1>6. CASE UNCHANGED transcriptVars
  BY <1>6 DEF transcriptVars, TranscriptTypes
<1> QED
  BY <1>1, <1>2, <1>3, <1>4, <1>5, <1>6 DEF TranscriptNext

LEMMA TranscriptStarts == TranscriptInit => TranscriptTypes
<1> SUFFICES ASSUME TranscriptInit PROVE TranscriptTypes
  OBVIOUS
<1>1. 0 \in 0..hour /\ hour \in Nat
  BY DEF TranscriptInit
<1>2. <<>> \in Seq(Lines) /\ <<>> \in Seq(Chars)
  OBVIOUS
<1> QED
  BY <1>1, <1>2 DEF TranscriptInit, TranscriptTypes

LEMMA TranscriptsAreTyped == Spec => []TranscriptTypes
<1>1. Init => TranscriptTypes
  BY TranscriptStarts DEF Init
<1>2. TranscriptTypes /\ [Next]_vars => TranscriptTypes'
  <2>1. [Next]_vars => TranscriptNext \/ AddChar \/ UNCHANGED transcriptVars
    BY DEF Next, vars
  <2> QED
    BY <2>1, TranscriptStep
<1> QED
  BY <1>1, <1>2, PTL DEF Spec
-----------------------------------------------------------------------------
(* The first sentence of a text.                                              *)

\* The offset of a character is where the one before it ends.
LEMMA Offsets ==
    ASSUME NEW t \in Seq(Chars)
    PROVE  /\ Offset(t, 1) = 0
           /\ \A k \in 1..Len(t) + 1 : Offset(t, k) \in Nat
           /\ \A k \in 1..Len(t) : Offset(t, k + 1) = Offset(t, k) + t[k].width
<1> DEFINE n == Len(t)
           F == [i \in 1..n |-> [b \in Nat |-> b + t[i].width]]
           at == CHOOSE g : g = [i \in 0..n |-> IF i = 0 THEN 0 ELSE g[i - 1] + t[i].width]
<1>1. n \in Nat /\ \A i \in 1..n : t[i] \in Chars
  BY LenProperties, ElementOfSeq
<1>2. \A i \in 1..n : t[i].width \in Nat
  BY <1>1, TranscriptAssumption DEF Chars
<1>3. \A i \in 1..n, b \in Nat : F[i][b] = b + t[i].width /\ F[i][b] \in Nat
  BY <1>2
<1>4. PICK g : Iterates(g, n, Nat, 0, F)
  <2> HIDE DEF F
  <2> QED
    BY <1>1, <1>3, Iterated
<1>5. g \in [0..n -> Nat] /\ g[0] = 0 /\ \A i \in 1..n : g[i] = g[i - 1] + t[i].width
  <2>1. g \in [0..n -> Nat] /\ g[0] = 0 /\ \A i \in 1..n : g[i] = F[i][g[i - 1]]
    BY <1>4 DEF Iterates
  <2>2. \A i \in 1..n : i - 1 \in 0..n
    BY <1>1
  <2> HIDE DEF F
  <2> QED
    BY <1>3, <2>1, <2>2
<1>6. g = [i \in 0..n |-> IF i = 0 THEN 0 ELSE g[i - 1] + t[i].width]
  <2>1. \A i \in 0..n : g[i] = IF i = 0 THEN 0 ELSE g[i - 1] + t[i].width
    BY <1>1, <1>5
  <2> QED
    BY <1>5, <2>1
<1> HIDE DEF F, n
<1>7. at = [i \in 0..n |-> IF i = 0 THEN 0 ELSE at[i - 1] + t[i].width]
  BY <1>6, Zenon
<1>8. \A k : Offset(t, k) = at[k - 1]
  BY Zenon DEF Offset, n
<1> HIDE DEF at
<1>9. at[0] = 0 /\ \A i \in 1..n : at[i] = at[i - 1] + t[i].width
  BY <1>1, <1>7
<1> DEFINE S == {i \in Nat : i <= n => at[i] \in Nat}
<1>10. \A i \in Nat : i \in S
  <2>1. 0 \in S
    BY <1>9
  <2>2. ASSUME NEW i \in Nat, i \in S PROVE i + 1 \in S
    <3> SUFFICES ASSUME i + 1 <= n PROVE at[i + 1] \in Nat
      OBVIOUS
    <3>1. i + 1 \in 1..n /\ (i + 1) - 1 = i /\ at[i] \in Nat
      BY <1>1, <2>2
    <3>2. at[i + 1] = at[(i + 1) - 1] + t[i + 1].width /\ t[i + 1].width \in Nat
      BY <1>2, <1>9, <3>1
    <3>3. at[i + 1] = at[i] + t[i + 1].width
      BY <3>1, <3>2
    <3> QED
      BY <3>1, <3>2, <3>3
  <2> HIDE DEF S
  <2> QED
    BY <2>1, <2>2, EveryNumber
<1>11. \A k \in 1..n + 1 : Offset(t, k) \in Nat
  <2> SUFFICES ASSUME NEW k \in 1..n + 1 PROVE Offset(t, k) \in Nat
    OBVIOUS
  <2>1. k - 1 \in Nat /\ k - 1 <= n
    BY <1>1
  <2>2. at[k - 1] \in Nat
    BY <1>10, <2>1
  <2> QED
    BY <1>8, <2>2
<1>12. \A k \in 1..n : Offset(t, k + 1) = Offset(t, k) + t[k].width
  <2> SUFFICES ASSUME NEW k \in 1..n PROVE Offset(t, k + 1) = Offset(t, k) + t[k].width
    OBVIOUS
  <2>1. (k + 1) - 1 = k
    BY <1>1
  <2> QED
    BY <1>8, <1>9, <2>1
<1>13. Offset(t, 1) = 0
  BY <1>8, <1>9
<1> QED
  BY <1>11, <1>12, <1>13 DEF n

\* Where first_sentence cuts is where a character begins or the text ends; but when
\* nothing stops the loop and the text is longer than the limit, it is the limit.
LEMMA CutPlace ==
    ASSUME NEW t \in Seq(Chars)
    PROVE  \/ IsBoundary(t, Cut(t))
           \/ /\ \A k \in DOMAIN t : ~t[k].ends
              /\ Bytes(t) > MaxLen /\ Offset(t, Len(t)) < MaxLen
<1> DEFINE n == Len(t)
           stops == Stops(t)
           k == CHOOSE i \in stops : \A j \in stops : i <= j
<1>1. n \in Nat /\ DOMAIN t = 1..n /\ MaxLen \in Nat
  BY LenProperties, TranscriptAssumption
<1>2. /\ Offset(t, 1) = 0
      /\ \A i \in 1..n + 1 : Offset(t, i) \in Nat
      /\ \A i \in 1..n : Offset(t, i + 1) = Offset(t, i) + t[i].width
  BY Offsets
<1>3. stops \in SUBSET (1..n)
  BY <1>1 DEF Stops
<1>4. CASE stops # {}
  <2>1. k \in stops
    <3> HIDE DEF stops
    <3>1. \E i \in stops : \A j \in stops : i <= j
      BY <1>1, <1>3, <1>4, LeastIndex
    <3> QED
      BY <3>1
  <2>2. Cut(t) = IF t[k].ends THEN Offset(t, k) + t[k].width ELSE Offset(t, k)
    BY <1>4, Zenon DEF Cut
  <2>3. k \in 1..n
    BY <1>3, <2>1
  <2> HIDE DEF k, stops
  <2>4. k \in 1..n + 1 /\ k + 1 \in 1..n + 1
    BY <1>1, <2>3
  <2>5. Cut(t) = Offset(t, k + 1) \/ Cut(t) = Offset(t, k)
    BY <1>2, <2>2, <2>3
  <2> QED
    BY <2>4, <2>5 DEF IsBoundary
<1>5. CASE stops = {}
  <2>1. Cut(t) = IF Bytes(t) < MaxLen THEN Bytes(t) ELSE MaxLen
    BY <1>5 DEF Cut
  <2>2. n + 1 \in 1..n + 1 /\ Bytes(t) = Offset(t, n + 1) /\ Bytes(t) \in Nat
    BY <1>1, <1>2 DEF Bytes
  <2>3. CASE Bytes(t) <= MaxLen
    <3>1. Cut(t) = Offset(t, n + 1)
      BY <1>1, <2>1, <2>2, <2>3
    <3> QED
      BY <2>2, <3>1 DEF IsBoundary
  <2>4. CASE Bytes(t) > MaxLen
    <3>1. n # 0
      BY <1>1, <1>2, <2>2, <2>4
    <3>2. n \in DOMAIN t
      BY <1>1, <3>1
    <3>3. \A i \in DOMAIN t : ~t[i].ends /\ ~(Offset(t, i) >= MaxLen)
      BY <1>5 DEF Stops
    <3>4. n \in 1..n + 1
      BY <1>1, <3>1
    <3> QED
      BY <1>1, <1>2, <2>4, <3>2, <3>3, <3>4
  <2> QED
    BY <1>1, <2>2, <2>3, <2>4
<1> QED
  BY <1>4, <1>5
-----------------------------------------------------------------------------
(* Titles.                                                                    *)

Filled == [custom : Nat, ai : Nat, agent : Nat, assistant : Nat, user : Nat]

\* k is the first line of these kinds among the first m, or there is none.
FirstOf(w, m, kinds, k) ==
    \/ k = Nothing /\ \A i \in 1..m : w[i].kind \notin kinds
    \/ k \in 1..m /\ w[k].kind \in kinds /\ \A i \in 1..(k - 1) : w[i].kind \notin kinds

\* k is one of those lines, or there is none.
SomeOf(w, m, kinds, k) ==
    \/ k = Nothing /\ \A i \in 1..m : w[i].kind \notin kinds
    \/ k \in 1..m /\ w[k].kind \in kinds

SlotsOf(w, m, s) ==
    /\ FirstOf(w, m, {"custom", "summary"}, s.custom)
    /\ FirstOf(w, m, {"ai"}, s.ai) /\ FirstOf(w, m, {"agent"}, s.agent)
    /\ SomeOf(w, m, {"assistant"}, s.assistant) /\ SomeOf(w, m, {"user"}, s.user)

LEMMA FirstStays ==
    ASSUME NEW w, NEW m \in Nat, NEW kinds, NEW k \in Nat, FirstOf(w, m, kinds, k)
    PROVE  FirstOf(w, m + 1, kinds, IF k = Nothing /\ w[m + 1].kind \in kinds THEN m + 1 ELSE k)
<1>1. CASE k = Nothing
  <2>1. \A i \in 1..m : w[i].kind \notin kinds
    BY <1>1 DEF FirstOf, Nothing
  <2>2. CASE w[m + 1].kind \in kinds
    <3>1. m + 1 \in 1..(m + 1) /\ (m + 1) - 1 = m
      OBVIOUS
    <3> QED
      BY <1>1, <2>1, <2>2, <3>1 DEF FirstOf
  <2>3. CASE w[m + 1].kind \notin kinds
    <3>1. \A i \in 1..(m + 1) : i \in 1..m \/ i = m + 1
      OBVIOUS
    <3> QED
      BY <1>1, <2>1, <2>3, <3>1 DEF FirstOf
  <2> QED
    BY <2>2, <2>3
<1>2. CASE k # Nothing
  <2>1. k \in 1..(m + 1)
    BY <1>2 DEF FirstOf, Nothing
  <2> QED
    BY <1>2, <2>1 DEF FirstOf
<1> QED
  BY <1>1, <1>2

LEMMA SomeStays ==
    ASSUME NEW w, NEW m \in Nat, NEW kinds, NEW k \in Nat, SomeOf(w, m, kinds, k)
    PROVE  SomeOf(w, m + 1, kinds, IF w[m + 1].kind \in kinds THEN m + 1 ELSE k)
<1>1. m + 1 \in 1..(m + 1) /\ \A i \in 1..(m + 1) : i \in 1..m \/ i = m + 1
  OBVIOUS
<1>2. \A i \in 1..m : i \in 1..(m + 1)
  OBVIOUS
<1> QED
  BY <1>1, <1>2 DEF SomeOf, Nothing

\* What the loop finds among the lines of the window.
LEMMA SlotsFilled ==
    ASSUME NEW w \in Seq(Lines)
    PROVE  SlotsOf(w, Len(w), Slots(w)) /\ Slots(w) \in Filled
<1> DEFINE n == Len(w)
           none == [custom |-> Nothing, ai |-> Nothing, agent |-> Nothing,
                    assistant |-> Nothing, user |-> Nothing]
           F == [k \in 1..n |-> [s \in Filled |-> Fill(s, w[k].kind, k)]]
           after == CHOOSE g : g = [k \in 0..n |-> IF k = 0 THEN none
                                                   ELSE Fill(g[k - 1], w[k].kind, k)]
<1>1. n \in Nat
  BY LenProperties
<1>2. none \in Filled
  BY DEF Filled, Nothing
<1>3. ASSUME NEW k \in 1..n, NEW s \in Filled
      PROVE  Fill(s, w[k].kind, k) \in Filled
  <2>1. k \in Nat
    BY <1>1
  <2> QED
    BY <2>1 DEF Fill, Filled
<1>4. \A k \in 1..n, s \in Filled : F[k][s] = Fill(s, w[k].kind, k) /\ F[k][s] \in Filled
  BY <1>3
<1> HIDE DEF none
<1>5. PICK g : Iterates(g, n, Filled, none, F)
  <2> HIDE DEF F
  <2> QED
    BY <1>1, <1>2, <1>4, Iterated
<1>6. g \in [0..n -> Filled] /\ g[0] = none /\ \A k \in 1..n : g[k] = Fill(g[k - 1], w[k].kind, k)
  <2>1. g \in [0..n -> Filled] /\ g[0] = none /\ \A i \in 1..n : g[i] = F[i][g[i - 1]]
    BY <1>5 DEF Iterates
  <2>2. \A i \in 1..n : i - 1 \in 0..n
    BY <1>1
  <2> HIDE DEF F
  <2> QED
    BY <1>4, <2>1, <2>2
<1>7. g = [k \in 0..n |-> IF k = 0 THEN none ELSE Fill(g[k - 1], w[k].kind, k)]
  <2>1. \A k \in 0..n : g[k] = IF k = 0 THEN none ELSE Fill(g[k - 1], w[k].kind, k)
    BY <1>1, <1>6
  <2> QED
    BY <1>6, <2>1
<1> HIDE DEF F, n
<1>8. after = [k \in 0..n |-> IF k = 0 THEN none ELSE Fill(after[k - 1], w[k].kind, k)]
  BY <1>7, Zenon
<1>9. Slots(w) = after[n]
  BY Zenon DEF Slots, n, none
<1> HIDE DEF after
<1>10. after[0] = none /\ \A k \in 1..n : after[k] = Fill(after[k - 1], w[k].kind, k)
  BY <1>1, <1>8
<1> DEFINE S == {k \in Nat : k <= n => after[k] \in Filled /\ SlotsOf(w, k, after[k])}
<1>11. \A k \in Nat : k \in S
  <2>1. 0 \in S
    <3>1. 1..0 = {}
      OBVIOUS
    <3>2. SlotsOf(w, 0, none)
      BY <3>1 DEF SlotsOf, FirstOf, SomeOf, none
    <3> QED
      BY <1>2, <1>10, <3>2
  <2>2. ASSUME NEW k \in Nat, k \in S PROVE k + 1 \in S
    <3> SUFFICES ASSUME k + 1 <= n
                 PROVE  after[k + 1] \in Filled /\ SlotsOf(w, k + 1, after[k + 1])
      OBVIOUS
    <3> DEFINE s == after[k]
               kind == w[k + 1].kind
               u == after[k + 1]
    <3>1. k + 1 \in 1..n /\ (k + 1) - 1 = k /\ s \in Filled /\ SlotsOf(w, k, s)
      BY <1>1, <2>2
    <3>2. u = Fill(s, kind, k + 1)
      BY <1>10, <3>1
    <3> HIDE DEF s, u
    <3>3. u \in Filled
      BY <1>3, <3>1, <3>2
    <3>4. /\ u.custom = IF s.custom = Nothing /\ kind \in {"custom", "summary"} THEN k + 1 ELSE s.custom
          /\ u.ai = IF s.ai = Nothing /\ kind \in {"ai"} THEN k + 1 ELSE s.ai
          /\ u.agent = IF s.agent = Nothing /\ kind \in {"agent"} THEN k + 1 ELSE s.agent
          /\ u.assistant = IF kind \in {"assistant"} THEN k + 1 ELSE s.assistant
          /\ u.user = IF kind \in {"user"} THEN k + 1 ELSE s.user
      BY <3>1, <3>2 DEF Fill, Filled
    <3>5. /\ s.custom \in Nat /\ s.ai \in Nat /\ s.agent \in Nat /\ s.assistant \in Nat /\ s.user \in Nat
          /\ FirstOf(w, k, {"custom", "summary"}, s.custom)
          /\ FirstOf(w, k, {"ai"}, s.ai) /\ FirstOf(w, k, {"agent"}, s.agent)
          /\ SomeOf(w, k, {"assistant"}, s.assistant) /\ SomeOf(w, k, {"user"}, s.user)
      BY <3>1 DEF SlotsOf, Filled
    <3>6. FirstOf(w, k + 1, {"custom", "summary"}, u.custom)
      BY <3>4, <3>5, FirstStays, Zenon
    <3>7. FirstOf(w, k + 1, {"ai"}, u.ai) /\ FirstOf(w, k + 1, {"agent"}, u.agent)
      BY <3>4, <3>5, FirstStays, Zenon
    <3>8. SomeOf(w, k + 1, {"assistant"}, u.assistant) /\ SomeOf(w, k + 1, {"user"}, u.user)
      BY <3>4, <3>5, SomeStays, Zenon
    <3> QED
      BY <3>3, <3>6, <3>7, <3>8 DEF SlotsOf, u
  <2> HIDE DEF S
  <2> QED
    BY <2>1, <2>2, EveryNumber
<1> QED
  BY <1>1, <1>9, <1>11 DEF n

LEMMA Precedences ==
    ASSUME NEW x \in Lines
    PROVE  /\ x.kind \in {"custom", "summary"} <=> Precedence(x) = 1
           /\ x.kind \in {"ai"} <=> Precedence(x) = 2
           /\ x.kind \in {"agent"} <=> Precedence(x) = 3
           /\ x.kind \in {"assistant"} <=> Precedence(x) = 4
           /\ x.kind \in {"user"} <=> Precedence(x) = 5
           /\ Precedence(x) \in 1..5
<1>1. x.kind \in LineKinds
  BY DEF Lines
<1> QED
  BY <1>1 DEF LineKinds, Precedence

\* The title of a window is from its first line of the best kind there is, when that
\* kind is a name.
GoodTitle(w, k) ==
    /\ k \in 0..Len(w)
    /\ \A i \in 1..Len(w) : Precedence(w[i]) <= 3 => k # Nothing /\ Precedence(w[k]) <= Precedence(w[i])
    /\ k # Nothing /\ Precedence(w[k]) <= 3 =>
          \A i \in 1..(k - 1) : Precedence(w[i]) # Precedence(w[k])

LEMMA ExtractedTitle ==
    ASSUME NEW w \in Seq(Lines)
    PROVE  GoodTitle(w, ExtractTitle(w))
<1> DEFINE n == Len(w)
           s == Slots(w)
           line == <<s.custom, s.ai, s.agent, s.assistant, s.user>>
           filled == {i \in DOMAIN line : line[i] # Nothing}
           least == CHOOSE i \in filled : \A j \in filled : i <= j
           k == ExtractTitle(w)
<1>1. n \in Nat /\ \A i \in 1..n : w[i] \in Lines
  BY LenProperties, ElementOfSeq
<1>2. SlotsOf(w, n, s)
  BY SlotsFilled
<1>3. k = IF filled = {} THEN Nothing ELSE line[least]
  BY Zenon DEF ExtractTitle
<1> HIDE DEF n, s, k
<1>4. /\ FirstOf(w, n, {"custom", "summary"}, line[1]) /\ FirstOf(w, n, {"ai"}, line[2])
      /\ FirstOf(w, n, {"agent"}, line[3])
      /\ SomeOf(w, n, {"assistant"}, line[4]) /\ SomeOf(w, n, {"user"}, line[5])
  BY <1>2 DEF SlotsOf
<1>5. DOMAIN line = 1..5
  OBVIOUS
<1> HIDE DEF line
<1>6. \A i \in 1..n :
         /\ w[i].kind \in {"custom", "summary"} <=> Precedence(w[i]) = 1
         /\ w[i].kind \in {"ai"} <=> Precedence(w[i]) = 2
         /\ w[i].kind \in {"agent"} <=> Precedence(w[i]) = 3
         /\ w[i].kind \in {"assistant"} <=> Precedence(w[i]) = 4
         /\ w[i].kind \in {"user"} <=> Precedence(w[i]) = 5
         /\ Precedence(w[i]) \in 1..5
  BY <1>1, Precedences
<1>7. ASSUME NEW p \in 1..5, line[p] # Nothing
      PROVE  line[p] \in 1..n /\ Precedence(w[line[p]]) = p
  BY <1>4, <1>6, <1>7 DEF FirstOf, SomeOf
<1>8. ASSUME NEW p \in 1..5, line[p] = Nothing, NEW i \in 1..n PROVE Precedence(w[i]) # p
  BY <1>1, <1>4, <1>6, <1>8 DEF FirstOf, SomeOf, Nothing
<1>9. ASSUME NEW p \in 1..3, line[p] # Nothing, NEW i \in 1..(line[p] - 1) PROVE Precedence(w[i]) # p
  <2>1. line[p] \in 1..n /\ i \in 1..n
    BY <1>1, <1>7, <1>9
  <2> QED
    BY <1>4, <1>6, <1>9, <2>1 DEF FirstOf
<1>10. CASE filled = {}
  <2>1. k = Nothing /\ \A p \in 1..5 : line[p] = Nothing
    BY <1>3, <1>5, <1>10
  <2>2. \A i \in 1..n : Precedence(w[i]) \notin 1..5
    BY <1>8, <2>1
  <2> QED
    BY <1>1, <1>6, <2>1, <2>2 DEF GoodTitle, Nothing, k, n
<1>11. CASE filled # {}
  <2>1. filled \in SUBSET (1..5)
    BY <1>5
  <2>2. least \in filled /\ \A j \in filled : least <= j
    <3> HIDE DEF filled
    <3>1. \E i \in filled : \A j \in filled : i <= j
      BY <1>11, <2>1, LeastIndex
    <3> QED
      BY <3>1
  <2> HIDE DEF least
  <2>3. /\ least \in 1..5 /\ line[least] # Nothing /\ k = line[least]
        /\ \A p \in 1..5 : line[p] # Nothing => least <= p
    BY <1>3, <1>5, <1>11, <2>2
  <2> HIDE DEF filled
  <2>4. k \in 1..n /\ Precedence(w[k]) = least
    BY <1>7, <2>3
  <2>5. ASSUME NEW i \in 1..n PROVE least <= Precedence(w[i])
    <3>1. Precedence(w[i]) \in 1..5
      BY <1>6
    <3>2. line[Precedence(w[i])] # Nothing
      BY <1>8, <3>1
    <3> QED
      BY <2>3, <3>1, <3>2
  <2>6. least <= 3 => \A i \in 1..(k - 1) : Precedence(w[i]) # least
    BY <1>9, <2>3
  <2>7. k # Nothing
    BY <2>3
  <2> QED
    BY <1>1, <2>4, <2>5, <2>6, <2>7 DEF GoodTitle, k, n
<1> QED
  BY <1>10, <1>11

\* Where the window begins.
Above(q) == IF Len(q) > MaxWindow THEN Len(q) - MaxWindow ELSE 0

LEMMA TitleOfLines ==
    ASSUME NEW q \in Seq(Lines), NEW t, t = TitleLine(q), NEW b, b = Above(q)
    PROVE  /\ t = Nothing \/ t \in (b + 1)..Len(q)
           /\ \A i \in (b + 1)..Len(q) :
                 Precedence(q[i]) <= 3 => t # Nothing /\ Precedence(q[t]) <= Precedence(q[i])
           /\ t # Nothing /\ Precedence(q[t]) <= 3 =>
                 \A i \in (b + 1)..(t - 1) : Precedence(q[i]) # Precedence(q[t])
<1> DEFINE n == Len(q)
           w == Window(q)
           k == ExtractTitle(w)
<1>1. n \in Nat /\ MaxWindow \in Nat /\ \A i \in 1..n : q[i] \in Lines
  BY LenProperties, ElementOfSeq, TranscriptAssumption
<1>2. b \in 0..n /\ b \in Nat
  BY <1>1 DEF Above
<1>3. w = SubSeq(q, b + 1, n)
  BY <1>1 DEF Window, Above
<1>4. w \in Seq(Lines) /\ Len(w) = n - b /\ \A i \in 1..(n - b) : w[i] = q[b + i]
  <2>1. \A i \in 1..(n - b) : b + i \in 1..n
    BY <1>1, <1>2
  <2>2. w = [i \in 1..(n - b) |-> q[b + i]]
    <3>1. n - (b + 1) + 1 = n - b /\ \A i \in 1..(n - b) : (b + 1) + i - 1 = b + i
      BY <1>1, <1>2
    <3> HIDE DEF w, n
    <3> QED
      BY <1>1, <1>2, <1>3, <3>1
  <2>3. n - b \in Nat /\ \A i \in 1..(n - b) : q[b + i] \in Lines
    BY <1>1, <1>2, <2>1
  <2> HIDE DEF w, n
  <2> QED
    BY <2>2, <2>3
<1>5. GoodTitle(w, k)
  BY <1>4, ExtractedTitle
<1>6. t = IF k = Nothing THEN Nothing ELSE k + b
  BY DEF TitleLine, Above
<1> HIDE DEF n, w, k
<1>7. /\ k \in 0..(n - b)
      /\ \A i \in 1..(n - b) : Precedence(q[b + i]) <= 3
            => k # Nothing /\ Precedence(w[k]) <= Precedence(q[b + i])
      /\ k # Nothing /\ Precedence(w[k]) <= 3 =>
            \A i \in 1..(k - 1) : Precedence(w[i]) # Precedence(w[k])
  BY <1>4, <1>5 DEF GoodTitle
<1>8. ASSUME k # Nothing PROVE k \in 1..(n - b) /\ t = b + k /\ t # Nothing /\ w[k] = q[t]
  <2>1. k \in 1..(n - b) /\ t = b + k /\ t # Nothing
    BY <1>1, <1>2, <1>6, <1>7, <1>8 DEF Nothing
  <2> QED
    BY <1>4, <2>1
<1>9. t = Nothing \/ t \in (b + 1)..n
  <2>1. CASE k = Nothing
    BY <1>6, <2>1
  <2>2. CASE k # Nothing
    BY <1>1, <1>2, <1>8, <2>2
  <2> QED
    BY <2>1, <2>2
<1>10. ASSUME NEW i \in (b + 1)..n, Precedence(q[i]) <= 3
       PROVE  t # Nothing /\ Precedence(q[t]) <= Precedence(q[i])
  <2>1. i - b \in 1..(n - b) /\ b + (i - b) = i
    BY <1>1, <1>2
  <2>2. k # Nothing /\ Precedence(w[k]) <= Precedence(q[i])
    BY <1>7, <1>10, <2>1
  <2> QED
    BY <1>8, <2>2
<1>11. ASSUME t # Nothing, Precedence(q[t]) <= 3, NEW i \in (b + 1)..(t - 1)
       PROVE  Precedence(q[i]) # Precedence(q[t])
  <2>1. k # Nothing
    BY <1>6, <1>11
  <2>2. k \in 1..(n - b) /\ t = b + k /\ w[k] = q[t]
    BY <1>8, <2>1
  <2>3. i - b \in 1..(k - 1) /\ i - b \in 1..(n - b) /\ b + (i - b) = i
    BY <1>1, <1>2, <2>2
  <2> QED
    BY <1>4, <1>7, <1>11, <2>1, <2>2, <2>3
<1> QED
  BY <1>9, <1>10, <1>11 DEF n

\* A line behind the others takes the title only when it is a better one.
LEMMA TitleStays ==
    ASSUME NEW q \in Seq(Lines), NEW x \in Lines,
           TitleLine(q) # Nothing, Precedence(q[TitleLine(q)]) <= 3,
           TitleLine(Append(q, x)) # TitleLine(q)
    PROVE  \/ TitleLine(q) + MaxWindow <= Len(Append(q, x))
           \/ Precedence(Append(q, x)[TitleLine(Append(q, x))]) < Precedence(q[TitleLine(q)])
<1> DEFINE p == Append(q, x)
           t == TitleLine(q)
           u == TitleLine(p)
           n == Len(q)
           b == Above(q)
           c == Above(p)
<1>1. p \in Seq(Lines) /\ Len(p) = n + 1 /\ \A i \in 1..n : p[i] = q[i]
  BY AppendProperties
<1>2. n \in Nat /\ MaxWindow \in Nat /\ \A i \in 1..n : q[i] \in Lines
  BY LenProperties, ElementOfSeq, TranscriptAssumption
<1>3. \A i \in 1..(n + 1) : p[i] \in Lines
  BY <1>1, LenProperties, ElementOfSeq
<1> HIDE DEF p, n
<1>4. b \in 0..n /\ c \in 0..(n + 1) /\ b <= c /\ (c = 0 \/ c = n + 1 - MaxWindow)
  BY <1>1, <1>2 DEF Above, n
<1>5. /\ t = Nothing \/ t \in (b + 1)..n
      /\ t # Nothing /\ Precedence(q[t]) <= 3 =>
            \A i \in (b + 1)..(t - 1) : Precedence(q[i]) # Precedence(q[t])
  BY TitleOfLines DEF n
<1>6. /\ u = Nothing \/ u \in (c + 1)..(n + 1)
      /\ \A i \in (c + 1)..(n + 1) :
            Precedence(p[i]) <= 3 => u # Nothing /\ Precedence(p[u]) <= Precedence(p[i])
      /\ u # Nothing /\ Precedence(p[u]) <= 3 =>
            \A i \in (c + 1)..(u - 1) : Precedence(p[i]) # Precedence(p[u])
  BY <1>1, TitleOfLines
<1>7. t # Nothing /\ Precedence(q[t]) <= 3 /\ u # t
  BY DEF p
<1> HIDE DEF t, u, b, c
<1>8. CASE t + MaxWindow <= n + 1
  BY <1>1, <1>8 DEF t, p
<1>9. CASE ~(t + MaxWindow <= n + 1)
  <2>1. t \in 1..n /\ t \in (c + 1)..(n + 1) /\ p[t] = q[t]
    BY <1>1, <1>2, <1>4, <1>5, <1>7, <1>9
  <2>2. u # Nothing /\ u \in (c + 1)..(n + 1) /\ Precedence(p[u]) <= Precedence(q[t])
    BY <1>6, <1>7, <2>1
  <2>3. u \in 1..(n + 1) /\ Precedence(p[u]) \in Nat /\ Precedence(q[t]) \in Nat
    <3>1. u \in 1..(n + 1)
      BY <1>2, <1>4, <2>2
    <3> QED
      BY <1>2, <1>3, <2>1, <3>1, Precedences
  <2>4. Precedence(p[u]) # Precedence(q[t])
    <3>1. CASE u < t
      <4>1. u \in (b + 1)..(t - 1) /\ u \in 1..n
        BY <1>2, <1>4, <2>1, <2>2, <2>3, <3>1
      <4> QED
        BY <1>1, <1>5, <1>7, <4>1
    <3>2. CASE t < u
      <4>1. t \in (c + 1)..(u - 1) /\ Precedence(p[u]) <= 3
        BY <1>2, <1>4, <1>7, <2>1, <2>2, <2>3, <3>2
      <4> QED
        BY <1>6, <2>1, <2>2, <4>1
    <3> QED
      BY <1>2, <1>4, <1>7, <2>1, <2>3, <3>1, <3>2
  <2>5. Precedence(p[u]) < Precedence(q[t])
    BY <2>2, <2>3, <2>4
  <2> QED
    BY <2>5 DEF t, u, p
<1> QED
  BY <1>8, <1>9
-----------------------------------------------------------------------------
(* What is read from a transcript.                                            *)

\* first_sentence slices no text inside of a character, whatever its characters and
\* whatever the limit, but in one case: nothing stopped the loop and the text is longer
\* than the limit.
THEOREM TextsAreCutBetweenCharacters == Spec => []CutsBetweenCharacters
<1>1. TranscriptTypes => CutsBetweenCharacters
  BY CutPlace DEF TranscriptTypes, CutsBetweenCharacters
<1> QED
  BY <1>1, TranscriptsAreTyped, PTL

\* A name that extract_title_from_transcript found stays the title of its session for
\* as long as it is in the window, of any size, unless a better name is written.
THEOREM TitlesAreSteady == Spec => TitleIsSteady
<1>1. TranscriptTypes /\ [Next]_vars =>
         [\A f \in Files :
             LET t == TitleLine(files[f].lines)
                 u == TitleLine(files'[f].lines)
             IN  t # Nothing /\ Precedence(files[f].lines[t]) <= 3 /\ u # t
                    => \/ t + MaxWindow <= Len(files'[f].lines)
                       \/ Precedence(files'[f].lines[u]) < Precedence(files[f].lines[t])]_transcriptVars
  <2> SUFFICES ASSUME TranscriptTypes, [Next]_vars, NEW f \in Files,
                      TitleLine(files[f].lines) # Nothing,
                      Precedence(files[f].lines[TitleLine(files[f].lines)]) <= 3,
                      TitleLine(files'[f].lines) # TitleLine(files[f].lines)
               PROVE  \/ TitleLine(files[f].lines) + MaxWindow <= Len(files'[f].lines)
                      \/ Precedence(files'[f].lines[TitleLine(files'[f].lines)])
                            < Precedence(files[f].lines[TitleLine(files[f].lines)])
    BY Zenon
  <2>1. AddLine
    <3>1. files' # files
      OBVIOUS
    <3> QED
      BY <3>1 DEF Next, vars, transcriptVars, TranscriptNext, HourPasses, Discover, RestartApp, AddChar
  <2>2. PICK g \in Files, kind \in LineKinds, id \in SessionIds \cup {NoId} :
           files' = [files EXCEPT ![g] = [lines |-> Append(files[g].lines, [kind |-> kind, id |-> id]),
                                          modified |-> hour]]
    BY <2>1 DEF AddLine
  <2>3. files[f].lines \in Seq(Lines) /\ [kind |-> kind, id |-> id] \in Lines
    BY DEF TranscriptTypes, Lines
  <2>4. g = f /\ files'[f].lines = Append(files[f].lines, [kind |-> kind, id |-> id])
    BY <2>2 DEF TranscriptTypes
  <2> QED
    BY <2>3, <2>4, TitleStays
<1> QED
  BY <1>1, TranscriptsAreTyped, PTL DEF Spec, TitleIsSteady
-----------------------------------------------------------------------------
(* What the discovery promises, and the types of both.                       *)

\* However many files of one session there are, and in whatever order the sort puts
\* those of one hour, merge_sessions takes the newest: neither the cut at MAX_FILES nor
\* the order of the merge can prefer an older one.
THEOREM TheNewestWins == Spec => NewestFileWins
<1>1. TranscriptTypes /\ [Next]_vars =>
         [\A s \in SessionIds : merged[s] = NoId /\ merged'[s] # NoId =>
             \A f \in Recent : SessionIn(f) = s
                => files[f].modified <= files[merged'[s]].modified]_transcriptVars
  <2> SUFFICES ASSUME TranscriptTypes, [Next]_vars, NEW s \in SessionIds,
                      merged[s] = NoId, merged'[s] # NoId, NEW f \in Recent, SessionIn(f) = s
               PROVE  files[f].modified <= files[merged'[s]].modified
    OBVIOUS
  <2>1. merged' # merged
    OBVIOUS
  <2>2. CASE Discover
    BY <2>2, DiscoverStep
  <2>3. CASE RestartApp
    BY <2>3 DEF RestartApp
  <2>4. Discover \/ RestartApp
    BY <2>1 DEF Next, vars, transcriptVars, TranscriptNext, AddLine, HourPasses, AddChar
  <2> QED
    BY <2>2, <2>3, <2>4
<1> QED
  BY <1>1, TranscriptsAreTyped, PTL DEF Spec, NewestFileWins

\* The variables of the store and of the transcripts keep their types, however often
\* the app is started and however many sessions and files there are.
THEOREM TypeCorrect == Spec => []RestartsTypeOK
<1>1. StoreInv => StoreTypeOK
  <2> SUFFICES ASSUME StoreInv PROVE StoreTypeOK
    OBVIOUS
  <2>1. overlay.groups \subseteq Groups /\ file.state \in {"missing", "torn", "whole"}
    BY DEF StoreInv, StoreTypes
  <2>2. /\ \A i \in DOMAIN overlay.sessions : overlay.sessions[i] \in Rows
        /\ \A i \in DOMAIN answer : answer[i] \in Rows
    BY RowFacts DEF OnScreen, Answered, RowsIn
  <2>3. app = "down" => overlay = Empty /\ ~writing.on
    BY DEF StoreInv, Phases, NoSave
  <2> QED
    BY <2>1, <2>2, <2>3 DEF StoreInv, StoreTypes, Phases, StoreTypeOK
<1>2. TranscriptTypes => TranscriptTypeOK
  <2> SUFFICES ASSUME TranscriptTypes PROVE TranscriptTypeOK
    OBVIOUS
  <2>1. \A f \in Files : files[f].lines \in Seq(Lines) /\ files[f].modified \in 0..hour
    BY DEF TranscriptTypes
  <2>2. \A f \in Files : \A i \in DOMAIN files[f].lines : files[f].lines[i] \in Lines
    BY <2>1, LenProperties, ElementOfSeq
  <2> QED
    BY <2>1, <2>2 DEF TranscriptTypes, TranscriptTypeOK, Lines
<1> QED
  BY <1>1, <1>2, StoreIsInvariant, TranscriptsAreTyped, PTL DEF RestartsTypeOK
=============================================================================
