-------------------------- MODULE HookConfigProofs --------------------------
(* Theorems about installing and removing the hooks, for any events and number *)
(* of backups, however often the app is killed and the settings are edited.    *)
EXTENDS HookConfig, SubsequenceProofs, TLAPS
-----------------------------------------------------------------------------
(* The inductive invariant.                                                  *)

AtMostOne(s) == \A e \in Events : Len(Ours(GroupsOf(s, e))) <= 1
NoneOfOurs(s) == \A e \in Events : Ours(GroupsOf(s, e)) = <<>>

\* The settings are torn from the rewrite's first step to its second, and else only
\* after a fault; the task has a copy of the user's part meanwhile.
Rewriting ==
    /\ app.at = "write" => settings = Torn
    /\ settings = Torn /\ harmed = 0 => app.at = "write"
    /\ app.at \in {"truncate", "write"} /\ harmed = 0 /\ "overlap" \notin mishaps
          => UserPart(app.read) = user
    /\ AtMostOne(app.read)

\* What an installation and a removal have done when only the record is left to do.
NearlyDone ==
    /\ manifest \in {Missing, Torn, Events}
    /\ app.at \in {"record", "recording"} => Configured
    /\ app.at = "forget" => NoneOfOurs(Parsed(settings))
    /\ last # "none" => app.at \in {"down", "ready"}

\* A task that has begun is counted, and so is the one that a fault cost the settings.
Counted ==
    /\ app.at \notin {"down", "ready"} => tasks # 0
    /\ harmed <= tasks

NotYetSaved == app.at \in {"check", "dedup", "backup"}
HasUsersPart(i) == UserPart(Parsed(backups[i])) = user

\* The backup a task made is the newest; a backup that a task needed is as far down
\* as tasks have made others since.
Saved ==
    mishaps = {} /\ user # UserPart(Empty) =>
       /\ harmed = 0 /\ app.at \in {"prune", "read", "truncate", "write"}
             => 1 \in DOMAIN backups /\ HasUsersPart(1)
       /\ harmed # 0 /\ tasks < harmed + MaxBackups
             => \E i \in DOMAIN backups :
                   /\ HasUsersPart(i)
                   /\ i + harmed <= IF NotYetSaved THEN tasks ELSE tasks + 1

\* A backup that is not copied yet is the newest, and empty.
Backing ==
    /\ FewBackups
    /\ app.at = "copying" => settings # Missing /\ Len(backups) > 0 /\ backups[1] = Torn

\* The types as sets.
SettingsSet == UNION {[hooks : [D -> Seq(Groups)], rest : BOOLEAN] : D \in SUBSET Events}
Tasks == {"down", "ready", "auto", "install", "uninstall", "setMode"}
Steps == {"down", "ready", "check", "dedup", "backup", "copying", "prune", "read",
          "truncate", "write", "record", "recording", "forget", "choose"} \cup Modes

HookTypes ==
    /\ settings \in {Missing, Torn} \cup SettingsSet
    /\ manifest \in {Missing, Torn} \cup SUBSET Events
    /\ backups \in Seq({Torn} \cup SettingsSet)
    /\ mode \in {Missing, Torn} \cup Modes
    /\ app \in [task : Tasks, at : Steps, read : SettingsSet, quits : BOOLEAN]
    /\ last \in {"none", "install", "uninstall"}
    /\ harmed \in 0..MaxTasks /\ mishaps \subseteq {"unsaved", "overlap", "sameSecond"}
    /\ tasks \in 0..MaxTasks /\ faults \in 0..MaxFaults /\ edits \in 0..MaxEdits

HookInv ==
    /\ HookTypes
    /\ Rewriting
    /\ NearlyDone
    /\ Counted
    /\ Backing
    /\ Saved
    /\ UserSettingsKept
    /\ CutShortIsRepaired
    /\ OneGroupOfOurs
-----------------------------------------------------------------------------
(* The groups of one event.                                                  *)

NotOurs(g) == g \in Seq(Groups) /\ \A i \in DOMAIN g : ~IsOurs(g[i])

LEMMA TheirsAreNotOurs ==
    ASSUME NEW g \in Seq(Groups)
    PROVE  NotOurs(Theirs(g)) /\ Len(Ours(g)) \in Nat
<1> DEFINE A == {i \in DOMAIN g : ~IsOurs(g[i])}
           O == {i \in DOMAIN g : IsOurs(g[i])}
<1>1. A \in SUBSET DOMAIN g /\ O \in SUBSET DOMAIN g
  OBVIOUS
<1>2. Theirs(g) = Keep(g, A) /\ Ours(g) = Keep(g, O) /\ \A i \in A : ~IsOurs(g[i])
  BY DEF Theirs, Ours
<1> HIDE DEF A, O
<1>3. /\ Keep(g, A) \in Seq(Groups) /\ DOMAIN Keep(g, A) = 1..Cardinality(A)
      /\ \A j \in 1..Cardinality(A) : Origin(A)[j] \in A /\ Keep(g, A)[j] = g[Origin(A)[j]]
  BY <1>1, KeepKeeps
<1>4. Len(Keep(g, O)) \in Nat
  BY <1>1, KeepKeeps
<1> QED
  BY <1>2, <1>3, <1>4 DEF NotOurs

LEMMA FiltersOfTheirs ==
    ASSUME NEW h, NotOurs(h)
    PROVE  Theirs(h) = h /\ Ours(h) = <<>>
<1>1. h \in Seq(Groups) /\ \A i \in DOMAIN h : ~IsOurs(h[i])
  BY DEF NotOurs
<1>2. {i \in DOMAIN h : ~IsOurs(h[i])} = DOMAIN h /\ {i \in DOMAIN h : IsOurs(h[i])} = {}
  BY <1>1
<1>3. Theirs(h) = Keep(h, DOMAIN h) /\ Ours(h) = Keep(h, {})
  BY <1>2, Zenon DEF Theirs, Ours
<1> QED
  BY <1>1, <1>3, KeepAll, KeepNone

LEMMA EmptyGroups == NotOurs(<<>>) /\ NotOurs(<<"user">>)
BY DEF NotOurs, IsOurs, Groups

\* Our group behind those that are not ours.
LEMMA FiltersOfAppended ==
    ASSUME NEW h, NotOurs(h), NEW x \in {"vibe", "shared"}
    PROVE  /\ Append(h, x) \in Seq(Groups)
           /\ Theirs(Append(h, x)) = h /\ Len(Ours(Append(h, x))) = 1
<1> DEFINE u == Append(h, x)
           n == Len(h)
<1>1. h \in Seq(Groups) /\ \A i \in DOMAIN h : ~IsOurs(h[i])
  BY DEF NotOurs
<1>2. x \in Groups /\ IsOurs(x)
  BY DEF Groups, IsOurs
<1>3. n \in Nat /\ DOMAIN h = 1..n
  BY <1>1, LenProperties
<1>4. /\ u \in Seq(Groups) /\ Len(u) = n + 1 /\ \A i \in 1..n : u[i] = h[i]
      /\ u[n + 1] = x
  BY <1>1, <1>2, AppendProperties
<1>5. DOMAIN u = 1..(n + 1)
  BY <1>4, LenProperties
<1> HIDE DEF u
<1>6. {i \in DOMAIN u : ~IsOurs(u[i])} = DOMAIN h
  <2>1. ASSUME NEW i \in DOMAIN u PROVE ~IsOurs(u[i]) <=> i \in DOMAIN h
    <3>1. CASE i \in 1..n
      BY <1>1, <1>3, <1>4, <3>1
    <3>2. CASE i = n + 1
      BY <1>2, <1>3, <1>4, <3>2
    <3> QED
      BY <1>3, <1>5, <3>1, <3>2
  <2>2. DOMAIN h \subseteq DOMAIN u
    BY <1>3, <1>5
  <2> QED
    BY <2>1, <2>2
<1>7. {i \in DOMAIN u : IsOurs(u[i])} = {n + 1}
  <2>1. ASSUME NEW i \in DOMAIN u PROVE IsOurs(u[i]) <=> i = n + 1
    <3>1. CASE i \in 1..n
      BY <1>1, <1>3, <1>4, <3>1
    <3>2. CASE i = n + 1
      BY <1>2, <1>3, <1>4, <3>2
    <3> QED
      BY <1>3, <1>5, <3>1, <3>2
  <2>2. n + 1 \in DOMAIN u
    BY <1>3, <1>5
  <2> QED
    BY <2>1, <2>2
<1>8. Theirs(u) = Keep(u, DOMAIN h) /\ Ours(u) = Keep(u, {n + 1})
  BY <1>6, <1>7, Zenon DEF Theirs, Ours
<1>9. Keep(u, DOMAIN h) = h
  <2>1. Keep(u, DOMAIN h) = Keep(h, DOMAIN h)
    BY <1>1, <1>3, <1>4, KeepFront
  <2> QED
    BY <1>1, <2>1, KeepAll
<1>10. Len(Keep(u, {n + 1})) = 1
  <2>1. {n + 1} \in SUBSET DOMAIN u
    BY <1>3, <1>5
  <2>2. Len(Keep(u, {n + 1})) = Cardinality({n + 1})
    BY <1>4, <2>1, KeepKeeps
  <2> QED
    BY <2>2, FS_Singleton
<1> QED
  BY <1>4, <1>8, <1>9, <1>10 DEF u
-----------------------------------------------------------------------------
(* The settings.                                                             *)

LEMMA SettingsParts ==
    ASSUME NEW s, IsSettings(s)
    PROVE  /\ DOMAIN s.hooks \in SUBSET Events /\ s.rest \in BOOLEAN
           /\ s.hooks \in [DOMAIN s.hooks -> Seq(Groups)]
           /\ s = [hooks |-> s.hooks, rest |-> s.rest]
           /\ \A e \in Events : GroupsOf(s, e) \in Seq(Groups)
<1>1. PICK D \in SUBSET Events : s \in [hooks : [D -> Seq(Groups)], rest : BOOLEAN]
  BY DEF IsSettings
<1>2. /\ DOMAIN s.hooks = D /\ s.hooks \in [D -> Seq(Groups)] /\ s.rest \in BOOLEAN
      /\ s = [hooks |-> s.hooks, rest |-> s.rest]
  BY <1>1
<1>3. \A e \in Events : GroupsOf(s, e) \in Seq(Groups)
  BY <1>2 DEF GroupsOf
<1> QED
  BY <1>2, <1>3

\* Settings with other hooks.
LEMMA WithHooks ==
    ASSUME NEW f, NEW t, t \in [hooks : {f}, rest : BOOLEAN],
           DOMAIN f \in SUBSET Events, f \in [DOMAIN f -> Seq(Groups)]
    PROVE  /\ IsSettings(t)
           /\ \A e \in Events : GroupsOf(t, e) = IF e \in DOMAIN f THEN f[e] ELSE <<>>
<1>1. t \in [hooks : [DOMAIN f -> Seq(Groups)], rest : BOOLEAN] /\ t.hooks = f
  OBVIOUS
<1> QED
  BY <1>1 DEF IsSettings, GroupsOf

LEMMA HooksReplaced ==
    ASSUME NEW s, IsSettings(s), NEW f
    PROVE  LET t == [s EXCEPT !.hooks = f]
           IN  t \in [hooks : {f}, rest : BOOLEAN] /\ t.hooks = f /\ t.rest = s.rest
<1>1. s = [hooks |-> s.hooks, rest |-> s.rest] /\ s.rest \in BOOLEAN
  BY SettingsParts
<1> QED
  BY <1>1

LEMMA EmptySettings == IsSettings(Empty) /\ NoneOfOurs(Empty) /\ AtMostOne(Empty)
<1>1. <<>> \in [{} -> Seq(Groups)] /\ DOMAIN <<>> = {} /\ {} \in SUBSET Events
  OBVIOUS
<1>2. Empty \in [hooks : [{} -> Seq(Groups)], rest : BOOLEAN] /\ Empty.hooks = <<>>
  BY <1>1 DEF Empty
<1>3. IsSettings(Empty)
  BY <1>1, <1>2 DEF IsSettings
<1>4. \A e \in Events : GroupsOf(Empty, e) = <<>>
  BY <1>1, <1>2 DEF GroupsOf
<1>5. Ours(<<>>) = <<>> /\ Len(<<>>) = 0
  BY EmptyGroups, FiltersOfTheirs
<1> QED
  BY <1>3, <1>4, <1>5 DEF NoneOfOurs, AtMostOne

LEMMA ParsedSettings ==
    ASSUME NEW file, file \in {Missing, Torn} \/ IsSettings(file)
    PROVE  IsSettings(Parsed(file))
BY EmptySettings DEF Parsed

LEMMA ParsedIs ==
    ASSUME NEW s, IsSettings(s)
    PROVE  Parsed(s) = s
<1>1. s \notin {Missing, Torn}
  BY HookConfigAssumption
<1> QED
  BY <1>1 DEF Parsed

\* The user's part goes by the groups that are not ours, event by event.
LEMMA SameUserPart ==
    ASSUME NEW s, NEW t, s.rest = t.rest,
           \A e \in Events : Theirs(GroupsOf(s, e)) = Theirs(GroupsOf(t, e))
    PROVE  UserPart(s) = UserPart(t)
BY DEF UserPart

\* Installing keeps the user's part and leaves one group of ours for every event.
LEMMA MergeKeeps ==
    ASSUME NEW s, IsSettings(s)
    PROVE  /\ IsSettings(Merge(s)) /\ DOMAIN Merge(s).hooks = Events
           /\ UserPart(Merge(s)) = UserPart(s)
           /\ AtMostOne(Merge(s))
<1> DEFINE f == [e \in Events |-> Append(Theirs(GroupsOf(s, e)), "vibe")]
           t == Merge(s)
<1>1. ASSUME NEW e \in Events
      PROVE  /\ f[e] \in Seq(Groups) /\ Theirs(f[e]) = Theirs(GroupsOf(s, e)) /\ Len(Ours(f[e])) = 1
  BY SettingsParts, TheirsAreNotOurs, FiltersOfAppended
<1>2. f \in [Events -> Seq(Groups)]
  BY <1>1
<1>3. t \in [hooks : {f}, rest : BOOLEAN] /\ t.hooks = f /\ t.rest = s.rest
  BY HooksReplaced DEF Merge
<1> HIDE DEF f, t
<1>d. DOMAIN f = Events /\ Events \in SUBSET Events
  BY <1>2
<1>e. f \in [DOMAIN f -> Seq(Groups)] /\ DOMAIN f \in SUBSET Events
  BY <1>2, <1>d
<1>f. /\ IsSettings(t) /\ t.hooks = f /\ t.rest = s.rest
      /\ \A e \in Events : GroupsOf(t, e) = IF e \in DOMAIN f THEN f[e] ELSE <<>>
  BY <1>3, <1>e, WithHooks
<1>4. /\ IsSettings(t) /\ DOMAIN t.hooks = Events /\ t.rest = s.rest
      /\ \A e \in Events : GroupsOf(t, e) = f[e]
  BY <1>d, <1>f
<1>5. UserPart(t) = UserPart(s)
  BY <1>1, <1>4, SameUserPart
<1>6. AtMostOne(t)
  <2>1. ASSUME NEW e \in Events PROVE Len(Ours(GroupsOf(t, e))) <= 1
    <3>1. Len(Ours(GroupsOf(t, e))) = 1
      BY <1>1, <1>4
    <3>2. 1 <= 1
      OBVIOUS
    <3> QED
      BY <3>1, <3>2
  <2> QED
    BY <2>1 DEF AtMostOne
<1> QED
  BY <1>4, <1>5, <1>6 DEF t

\* Removing keeps the user's part, and leaves nothing of ours where it is named.
LEMMA RemoveKeeps ==
    ASSUME NEW s, IsSettings(s), NEW named \in SUBSET Events, AtMostOne(s)
    PROVE  /\ IsSettings(Remove(s, named))
           /\ UserPart(Remove(s, named)) = UserPart(s)
           /\ AtMostOne(Remove(s, named))
           /\ named = Events => NoneOfOurs(Remove(s, named))
<1> DEFINE kept == {e \in DOMAIN s.hooks : e \in named => Theirs(s.hooks[e]) # <<>>}
           f == [e \in kept |-> IF e \in named THEN Theirs(s.hooks[e]) ELSE s.hooks[e]]
           t == Remove(s, named)
<1>1. /\ DOMAIN s.hooks \in SUBSET Events /\ \A e \in DOMAIN s.hooks : s.hooks[e] \in Seq(Groups)
      /\ \A e \in DOMAIN s.hooks : GroupsOf(s, e) = s.hooks[e]
      /\ \A e \in Events \ DOMAIN s.hooks : GroupsOf(s, e) = <<>>
  BY SettingsParts DEF GroupsOf
<1>2. kept \in SUBSET Events /\ kept \subseteq DOMAIN s.hooks
  BY <1>1
<1>3. ASSUME NEW e \in kept
      PROVE  /\ f[e] \in Seq(Groups) /\ Theirs(f[e]) = Theirs(s.hooks[e])
             /\ Len(Ours(f[e])) <= 1 /\ (e \in named => Ours(f[e]) = <<>>)
  <2>0. e \in Events /\ s.hooks[e] \in Seq(Groups) /\ GroupsOf(s, e) = s.hooks[e]
    BY <1>1, <1>2
  <2>1. CASE e \in named
    <3>1. NotOurs(Theirs(s.hooks[e])) /\ f[e] = Theirs(s.hooks[e])
      BY <2>0, <2>1, TheirsAreNotOurs
    <3>2. f[e] \in Seq(Groups) /\ Theirs(f[e]) = f[e] /\ Ours(f[e]) = <<>>
      BY <3>1, FiltersOfTheirs DEF NotOurs
    <3> QED
      BY <3>1, <3>2
  <2>2. CASE e \notin named
    <3>1. f[e] = s.hooks[e]
      BY <2>2
    <3> QED
      BY <2>0, <2>2, <3>1 DEF AtMostOne
  <2> QED
    BY <2>1, <2>2
<1>4. f \in [kept -> Seq(Groups)]
  BY <1>3
<1>5. t \in [hooks : {f}, rest : BOOLEAN] /\ t.hooks = f /\ t.rest = s.rest
  BY HooksReplaced DEF Remove
<1>a. Theirs(<<>>) = <<>> /\ Ours(<<>>) = <<>> /\ Len(<<>>) = 0
  BY EmptyGroups, FiltersOfTheirs
<1>b. \A e \in Events \ kept : Theirs(GroupsOf(s, e)) = <<>>
  BY <1>1, <1>a
<1> HIDE DEF f, t, kept
<1>6. /\ IsSettings(t) /\ t.rest = s.rest
      /\ \A e \in Events : GroupsOf(t, e) = IF e \in kept THEN f[e] ELSE <<>>
  <2>1. DOMAIN f = kept
    BY <1>4
  <2>2. f \in [DOMAIN f -> Seq(Groups)] /\ DOMAIN f \in SUBSET Events
    BY <1>2, <1>4, <2>1
  <2>3. /\ IsSettings(t) /\ t.hooks = f /\ t.rest = s.rest
        /\ \A e \in Events : GroupsOf(t, e) = IF e \in DOMAIN f THEN f[e] ELSE <<>>
    BY <1>5, <2>2, WithHooks
  <2> QED
    BY <2>1, <2>3
<1>7. ASSUME NEW e \in Events
      PROVE  /\ Theirs(GroupsOf(t, e)) = Theirs(GroupsOf(s, e))
             /\ Len(Ours(GroupsOf(t, e))) <= 1
             /\ e \in named => Ours(GroupsOf(t, e)) = <<>>
  <2>1. CASE e \in kept
    BY <1>1, <1>2, <1>3, <1>6, <2>1
  <2>2. CASE e \notin kept
    BY <1>a, <1>b, <1>6, <2>2
  <2> QED
    BY <2>1, <2>2
<1>8. UserPart(t) = UserPart(s)
  BY <1>6, <1>7, SameUserPart
<1> QED
  BY <1>6, <1>7, <1>8 DEF t, AtMostOne, NoneOfOurs

\* An edit from outside keeps what is ours at one group at most, and brings none.
LEMMA EditKeeps ==
    ASSUME NEW s, IsSettings(s), NEW t \in Edited(s)
    PROVE  /\ IsSettings(t) /\ DOMAIN s.hooks \subseteq DOMAIN t.hooks
           /\ AtMostOne(s) => AtMostOne(t)
           /\ NoneOfOurs(s) => NoneOfOurs(t)
<1>0. /\ DOMAIN s.hooks \in SUBSET Events /\ s.hooks \in [DOMAIN s.hooks -> Seq(Groups)]
      /\ s.rest \in BOOLEAN
      /\ \A e \in DOMAIN s.hooks : GroupsOf(s, e) = s.hooks[e] /\ s.hooks[e] \in Seq(Groups)
  BY SettingsParts DEF GroupsOf
<1>a. Ours(<<"user">>) = <<>> /\ Len(<<>>) = 0 /\ Ours(<<>>) = <<>> /\ <<"user">> \in Seq(Groups)
  BY EmptyGroups, FiltersOfTheirs DEF NotOurs
<1>1. ASSUME NEW e \in Events,
             t = [s EXCEPT !.hooks = [k \in DOMAIN s.hooks \cup {e} |->
                                        IF k = e THEN <<"user">> ELSE s.hooks[k]]]
      PROVE  /\ IsSettings(t) /\ DOMAIN s.hooks \subseteq DOMAIN t.hooks
             /\ AtMostOne(s) => AtMostOne(t)
             /\ NoneOfOurs(s) => NoneOfOurs(t)
  <2> DEFINE f == [k \in DOMAIN s.hooks \cup {e} |-> IF k = e THEN <<"user">> ELSE s.hooks[k]]
  <2>1. t \in [hooks : {f}, rest : BOOLEAN] /\ t.hooks = f
    BY <1>1, HooksReplaced
  <2>2. /\ DOMAIN f = DOMAIN s.hooks \cup {e} /\ DOMAIN f \in SUBSET Events
        /\ f \in [DOMAIN f -> Seq(Groups)]
        /\ f[e] = <<"user">> /\ \A k \in DOMAIN s.hooks \ {e} : f[k] = s.hooks[k]
    BY <1>0, <1>a
  <2> HIDE DEF f
  <2>3. /\ IsSettings(t)
        /\ \A k \in Events : GroupsOf(t, k) = IF k \in DOMAIN f THEN f[k] ELSE <<>>
    BY <2>1, <2>2, WithHooks
  <2>4. \A k \in Events : \/ Ours(GroupsOf(t, k)) = <<>>
                          \/ GroupsOf(t, k) = GroupsOf(s, k)
    BY <1>0, <1>a, <2>2, <2>3
  <2>5. Len(<<>>) <= 1
    OBVIOUS
  <2> QED
    BY <2>1, <2>2, <2>3, <2>4, <2>5 DEF AtMostOne, NoneOfOurs
<1>2. ASSUME NEW e \in DOMAIN s.hooks, Ours(s.hooks[e]) # <<>>,
             t = [s EXCEPT !.hooks[e] = Append(Theirs(@), "shared")]
      PROVE  /\ IsSettings(t) /\ DOMAIN s.hooks \subseteq DOMAIN t.hooks
             /\ AtMostOne(s) => AtMostOne(t)
             /\ NoneOfOurs(s) => NoneOfOurs(t)
  <2> DEFINE g == Append(Theirs(s.hooks[e]), "shared")
             f == [s.hooks EXCEPT ![e] = g]
  <2>1. g \in Seq(Groups) /\ Len(Ours(g)) = 1
    BY <1>0, TheirsAreNotOurs, FiltersOfAppended
  <2>2. t = [s EXCEPT !.hooks = f]
    BY <1>2
  <2> HIDE DEF g
  <2>3. /\ DOMAIN f = DOMAIN s.hooks /\ f \in [DOMAIN f -> Seq(Groups)]
        /\ f[e] = g /\ \A k \in DOMAIN s.hooks \ {e} : f[k] = s.hooks[k]
    BY <1>0, <2>1
  <2>4. t \in [hooks : {f}, rest : BOOLEAN] /\ t.hooks = f
    BY <2>2, HooksReplaced
  <2> HIDE DEF f
  <2>5. DOMAIN f \in SUBSET Events
    BY <1>0, <2>3
  <2>6. /\ IsSettings(t)
        /\ \A k \in Events : GroupsOf(t, k) = IF k \in DOMAIN f THEN f[k] ELSE <<>>
    BY <2>3, <2>4, <2>5, WithHooks
  <2>7. GroupsOf(t, e) = g /\ \A k \in Events \ {e} : GroupsOf(t, k) = GroupsOf(s, k)
    BY <1>0, <2>3, <2>6 DEF GroupsOf
  <2>8. AtMostOne(s) => AtMostOne(t)
    <3>1. 1 <= 1
      OBVIOUS
    <3> QED
      BY <2>1, <2>7, <3>1 DEF AtMostOne
  <2>9. ~NoneOfOurs(s)
    BY <1>0, <1>2 DEF NoneOfOurs
  <2> QED
    BY <2>3, <2>4, <2>6, <2>8, <2>9
<1>3. \/ \E e \in Events :
            t = [s EXCEPT !.hooks = [k \in DOMAIN s.hooks \cup {e} |->
                                       IF k = e THEN <<"user">> ELSE s.hooks[k]]]
      \/ \E e \in DOMAIN s.hooks :
            Ours(s.hooks[e]) # <<>> /\ t = [s EXCEPT !.hooks[e] = Append(Theirs(@), "shared")]
  BY DEF Edited
<1> QED
  BY <1>1, <1>2, <1>3

\* The types as sets say what the type invariant says.
LEMMA SettingsSetIs == \A s : s \in SettingsSet <=> IsSettings(s)
BY DEF SettingsSet, IsSettings

LEMMA TypesAsSets == HookTypes /\ Backing => HookTypeOK
<1> SUFFICES ASSUME HookTypes, Backing PROVE HookTypeOK
  OBVIOUS
<1>1. \A i \in DOMAIN backups : backups[i] \in {Torn} \cup SettingsSet
  BY ElementOfSeq, LenProperties DEF HookTypes
<1>2. backups \in Seq({backups[i] : i \in DOMAIN backups})
  <2>1. Len(backups) \in Nat /\ DOMAIN backups = 1..Len(backups)
        /\ backups \in [1..Len(backups) -> {Torn} \cup SettingsSet]
    BY LenProperties DEF HookTypes
  <2>2. backups \in [1..Len(backups) -> {backups[i] : i \in DOMAIN backups}]
    BY <2>1
  <2> QED
    BY <2>1, <2>2
<1>3. app \in [task : Tasks, at : Steps, read : {app.read}, quits : BOOLEAN]
      /\ app.read \in SettingsSet
  BY DEF HookTypes
<1> QED
  BY <1>1, <1>2, <1>3, SettingsSetIs DEF HookTypes, HookTypeOK, Backing, Tasks, Steps
-----------------------------------------------------------------------------
(* The steps preserve the invariant.                                         *)

Apps == [task : Tasks, at : Steps, read : SettingsSet, quits : BOOLEAN]

LEMMA AppsAtRest ==
    /\ Down \in Apps /\ Ready \in Apps
    /\ Down.at = "down" /\ Down.read = Empty
    /\ Ready.at = "ready" /\ Ready.read = Empty
<1>1. Empty \in SettingsSet
  BY EmptySettings, SettingsSetIs
<1> QED
  BY <1>1 DEF Apps, Down, Ready, Tasks, Steps

LEMMA MovesOn ==
    ASSUME HookTypes, NEW at \in Steps, Goto(at)
    PROVE  /\ app' \in Apps /\ app'.at = at /\ app'.read = app.read /\ app'.task = app.task
           /\ last' = last
BY DEF Goto, HookTypes, Apps

LEMMA Returns ==
    ASSUME HookTypes, NEW result \in {"none", "install", "uninstall"}, Return(result)
    PROVE  /\ app' \in Apps /\ app'.at \in {"down", "ready"} /\ app'.read = Empty
           /\ last' = result
BY AppsAtRest DEF Return

\* What the invariant says of the file and the copy.
LEMMA Facts ==
    ASSUME HookInv
    PROVE  /\ IsSettings(Parsed(settings)) /\ IsSettings(app.read) /\ AtMostOne(app.read)
           /\ AtMostOne(Parsed(settings))
           /\ settings = Torn \/ settings = Missing \/ (IsSettings(settings) /\ Parsed(settings) = settings)
           /\ app.at \in Steps /\ app \in Apps
<1>1. settings \in {Missing, Torn} \cup SettingsSet /\ app \in Apps
  BY DEF HookInv, HookTypes, Apps
<1>2. app.read \in SettingsSet /\ app.at \in Steps
  BY <1>1 DEF Apps
<1>3. AtMostOne(app.read) /\ AtMostOne(Parsed(settings))
  BY DEF HookInv, Rewriting, OneGroupOfOurs, AtMostOne
<1> QED
  BY <1>1, <1>2, <1>3, SettingsSetIs, ParsedSettings, ParsedIs

\* While no backup is made there are as few of them as there were, and after one was
\* cut short no more than the fault accounts for.
LEMMA NoneBegun ==
    ASSUME HookInv, UNCHANGED backups, faults' \in Nat, faults <= faults',
           ~BackingUp \/ faults < faults', app'.at \notin {"copying", "prune"}
    PROVE  Backing'
<1>1. /\ Len(backups) <= MaxBackups + faults + (IF BackingUp THEN 1 ELSE 0)
      /\ Len(backups) \in Nat /\ MaxBackups \in Nat /\ faults \in Nat
  BY LenProperties, HookConfigAssumption DEF HookInv, HookTypes, Backing, FewBackups
<1>2. Len(backups) <= MaxBackups + faults'
  BY <1>1
<1> QED
  BY <1>1, <1>2 DEF Backing, FewBackups, BackingUp

\* A task begins.
LEMMA BeginStep ==
    ASSUME HookInv, app \in {Down, Ready}, NEW task \in Tasks,
           NEW at \in {"check", "dedup", "backup", "choose"}, NEW quits \in BOOLEAN,
           Begin(task, at, quits)
    PROVE  HookInv'
<1>1. /\ tasks < MaxTasks /\ tasks' = tasks + 1 /\ last' = "none"
      /\ UNCHANGED <<files, user, harmed, mishaps, faults, edits>>
  BY DEF Begin
<1>2. app' \in Apps /\ app'.at = at /\ app'.read = Empty /\ app.at \in {"down", "ready"}
  BY AppsAtRest DEF Begin, Apps, Steps
<1>3. tasks \in Nat /\ tasks' \in 0..MaxTasks /\ harmed \in Nat /\ harmed \in 0..MaxTasks
  BY <1>1, HookConfigAssumption DEF HookInv, HookTypes
<1>4. HookTypes'
  BY <1>1, <1>2, <1>3 DEF HookInv, HookTypes, files, Apps
<1>5. Rewriting'
  BY <1>1, <1>2, EmptySettings DEF HookInv, Rewriting, files, AtMostOne
<1>6. NearlyDone' /\ CutShortIsRepaired'
  BY <1>1, <1>2 DEF HookInv, NearlyDone, CutShortIsRepaired, files
<1>7. Counted'
  BY <1>1, <1>2, <1>3 DEF HookInv, Counted
<1>8. UserSettingsKept' /\ OneGroupOfOurs'
  BY <1>1, <1>2 DEF HookInv, UserSettingsKept, OneGroupOfOurs, files
<1>9. Saved'
  <2> SUFFICES ASSUME mishaps' = {}, user' # UserPart(Empty), harmed' # 0, tasks' < harmed' + MaxBackups
               PROVE  \E i \in DOMAIN backups' :
                         /\ HasUsersPart(i)'
                         /\ i + harmed' <= IF NotYetSaved' THEN tasks' ELSE tasks' + 1
    BY <1>1, <1>2 DEF Saved
  <2>1. tasks < harmed + MaxBackups
    BY <1>1, <1>3, HookConfigAssumption
  <2>2. PICK i \in DOMAIN backups :
           HasUsersPart(i) /\ i + harmed <= IF NotYetSaved THEN tasks ELSE tasks + 1
    BY <1>1, <2>1 DEF HookInv, Saved
  <2>3. ~NotYetSaved
    BY <1>2 DEF NotYetSaved
  <2>4. i \in Nat
    BY LenProperties DEF HookInv, HookTypes
  <2>5. i + harmed' <= tasks' /\ i + harmed' <= tasks' + 1
    BY <1>1, <1>3, <2>2, <2>3, <2>4
  <2>6. HasUsersPart(i)'
    BY <1>1, <2>2 DEF HasUsersPart, files
  <2> QED
    BY <1>1, <2>5, <2>6 DEF files
<1>10. Backing'
  BY <1>1, <1>2, NoneBegun DEF HookInv, HookTypes, files, BackingUp
<1> QED
  BY <1>4, <1>5, <1>6, <1>7, <1>8, <1>9, <1>10 DEF HookInv

\* A backup stays good, and is not too far down, while none is made.
LEMMA StaysSaved ==
    ASSUME HookInv, UNCHANGED <<backups, user, tasks>>, mishaps' = {} => mishaps = {}, harmed' = harmed,
           NotYetSaved' => NotYetSaved,
           app'.at \in {"prune", "read", "truncate", "write"}
              => app.at \in {"prune", "read", "truncate", "write"}
    PROVE  Saved'
<1>1. tasks \in Nat /\ harmed \in Nat /\ \A i \in DOMAIN backups : i \in Nat
  BY LenProperties, HookConfigAssumption DEF HookInv, HookTypes
<1>2. ASSUME mishaps' = {}, user' # UserPart(Empty), harmed' # 0, tasks' < harmed' + MaxBackups
      PROVE  \E i \in DOMAIN backups' :
                /\ HasUsersPart(i)'
                /\ i + harmed' <= IF NotYetSaved' THEN tasks' ELSE tasks' + 1
  <2>1. PICK i \in DOMAIN backups :
           HasUsersPart(i) /\ i + harmed <= IF NotYetSaved THEN tasks ELSE tasks + 1
    BY <1>2 DEF HookInv, Saved
  <2>2. i + harmed' <= IF NotYetSaved' THEN tasks' ELSE tasks' + 1
    BY <1>1, <2>1
  <2> QED
    BY <2>1, <2>2 DEF HasUsersPart
<1>3. ASSUME mishaps' = {}, user' # UserPart(Empty), harmed' = 0,
             app'.at \in {"prune", "read", "truncate", "write"}
      PROVE  1 \in DOMAIN backups' /\ HasUsersPart(1)'
  BY <1>3 DEF HookInv, Saved, HasUsersPart
<1> QED
  BY <1>2, <1>3 DEF Saved

\* Only the app's task and its next step change, in steps that leave the files alone.
LEMMA AppStep ==
    ASSUME HookInv, UNCHANGED <<files, user, harmed, mishaps, bounds>>,
           app' \in Apps, last' \in {"none", "install", "uninstall"}, CutShortIsRepaired',
           app.at # "write",
           ~BackingUp, app'.at \notin {"copying", "prune", "write", "record", "recording"},
           app'.at \in {"read", "truncate"} => app.at \in {"read", "truncate"},
           app'.at = "truncate" /\ harmed = 0 /\ "overlap" \notin mishaps => UserPart(app'.read) = user,
           AtMostOne(app'.read),
           app'.at = "forget" => NoneOfOurs(Parsed(settings)),
           last' # "none" => app'.at \in {"down", "ready"},
           app'.at \in {"down", "ready"} \/ app.at \notin {"down", "ready"},
           NotYetSaved' => NotYetSaved
    PROVE  HookInv'
<1>1. HookTypes'
  BY DEF HookInv, HookTypes, files, bounds, Apps
<1>2. Rewriting'
  BY DEF HookInv, Rewriting, files, AtMostOne
<1>3. NearlyDone'
  BY DEF HookInv, NearlyDone, files, NoneOfOurs
<1>4. Counted'
  BY DEF HookInv, Counted, bounds
<1>5. Saved'
  BY StaysSaved DEF files, bounds
<1>6. UserSettingsKept' /\ OneGroupOfOurs'
  BY DEF HookInv, UserSettingsKept, OneGroupOfOurs, files
<1>7. Backing'
  BY NoneBegun DEF HookInv, HookTypes, files, bounds
<1> QED
  BY <1>1, <1>2, <1>3, <1>4, <1>5, <1>6, <1>7 DEF HookInv

LEMMA QuitStep == ASSUME HookInv, Quit PROVE HookInv'
<1>1. app = Ready
  BY DEF Quit
<1>2. CASE Begin("uninstall", "backup", TRUE)
  BY <1>1, <1>2, BeginStep DEF Tasks
<1>3. CASE app' = Down /\ UNCHANGED <<files, user, harmed, mishaps, last, bounds>>
  <2>1. CutShortIsRepaired' /\ last' \in {"none", "install", "uninstall"}
    BY <1>3 DEF HookInv, HookTypes, CutShortIsRepaired, files, Configured
  <2>2. app' \in Apps /\ app'.at = "down" /\ AtMostOne(app'.read) /\ app.at = "ready"
    BY <1>1, <1>3, AppsAtRest, EmptySettings
  <2>3. ~NotYetSaved' /\ ~BackingUp
    BY <2>2 DEF NotYetSaved, BackingUp
  <2> QED
    BY <1>3, <2>1, <2>2, <2>3, AppStep
<1> QED
  BY <1>2, <1>3 DEF Quit

LEMMA CheckStep == ASSUME HookInv, Check PROVE HookInv'
<1>1. /\ app.at = "check" /\ UNCHANGED <<files, user, harmed, mishaps, bounds>>
      /\ NotYetSaved /\ ~BackingUp
  BY DEF Check, NotYetSaved, BackingUp
<1>2. CASE Return("none")
  <2>1. app' \in Apps /\ app'.at \in {"down", "ready"} /\ app'.read = Empty /\ last' = "none"
    BY <1>2, Returns DEF HookInv
  <2>2. CutShortIsRepaired'
    BY <2>1 DEF CutShortIsRepaired
  <2> QED
    BY <1>1, <2>1, <2>2, EmptySettings, AppStep
<1>3. CASE app' = [app EXCEPT !.task = "install", !.at = "dedup"] /\ UNCHANGED last
  <2>1. app' \in Apps /\ app'.at = "dedup" /\ app'.read = app.read
    BY <1>3, Facts DEF Apps, Tasks, Steps
  <2>2. last' = "none"
    BY <1>1, <1>3 DEF HookInv, NearlyDone
  <2>3. CutShortIsRepaired'
    BY <2>2 DEF CutShortIsRepaired
  <2> QED
    BY <1>1, <2>1, <2>2, <2>3, Facts, AppStep
<1> QED
  BY <1>2, <1>3 DEF Check

LEMMA DedupStep == ASSUME HookInv, Dedup PROVE HookInv'
<1>1. /\ app.at = "dedup" /\ UNCHANGED <<files, user, harmed, mishaps, bounds>>
      /\ NotYetSaved /\ ~BackingUp
  BY DEF Dedup, NotYetSaved, BackingUp
<1>2. CASE AlreadyInstalled /\ Return("install")
  <2>1. app' \in Apps /\ app'.at \in {"down", "ready"} /\ app'.read = Empty /\ last' = "install"
    BY <1>2, Returns DEF HookInv
  <2>2. CutShortIsRepaired'
    BY <1>1, <1>2, <2>1 DEF CutShortIsRepaired, AlreadyInstalled, Configured, files
  <2> QED
    BY <1>1, <2>1, <2>2, EmptySettings, AppStep
<1>3. CASE Goto("backup")
  <2>1. app' \in Apps /\ app'.at = "backup" /\ app'.read = app.read /\ last' = last
    BY <1>3, MovesOn DEF HookInv, Steps
  <2>2. last' = "none"
    BY <1>1, <2>1 DEF HookInv, NearlyDone
  <2>3. CutShortIsRepaired'
    BY <2>2 DEF CutShortIsRepaired
  <2> QED
    BY <1>1, <2>1, <2>2, <2>3, Facts, AppStep
<1> QED
  BY <1>2, <1>3 DEF Dedup

LEMMA ReadSettingsStep == ASSUME HookInv, ReadSettings PROVE HookInv'
<1>1. /\ app.at = "read" /\ UNCHANGED <<files, user, harmed, mishaps, last, bounds>>
      /\ app' = [app EXCEPT !.at = "truncate", !.read = Parsed(settings)]
  BY DEF ReadSettings
<1>2. Parsed(settings) \in SettingsSet /\ AtMostOne(Parsed(settings))
  BY Facts, SettingsSetIs
<1>3. app' \in Apps /\ app'.at = "truncate" /\ app'.read = Parsed(settings)
  BY <1>1, <1>2, Facts DEF Apps, Steps
<1>4. last' = "none"
  BY <1>1 DEF HookInv, NearlyDone, HookTypes
<1>5. harmed = 0 /\ "overlap" \notin mishaps => UserPart(app'.read) = user
  BY <1>1, <1>3 DEF HookInv, UserSettingsKept
<1>6. CutShortIsRepaired' /\ ~NotYetSaved' /\ ~BackingUp
  BY <1>1, <1>3, <1>4 DEF CutShortIsRepaired, NotYetSaved, BackingUp
<1> QED
  BY <1>1, <1>2, <1>3, <1>4, <1>5, <1>6, AppStep

LEMMA NothingToBackUpStep == ASSUME HookInv, NothingToBackUp PROVE HookInv'
<1>1. /\ app.at = "backup" /\ settings = Missing
      /\ UNCHANGED <<files, user, harmed, mishaps, bounds>>
      /\ Goto(IF app.task = "install" THEN "read" ELSE "forget")
  BY DEF NothingToBackUp
<1>2. app' \in Apps /\ app'.at \in {"read", "forget"} /\ app'.read = app.read /\ last' = last
  <2>1. (IF app.task = "install" THEN "read" ELSE "forget") \in Steps
    BY DEF Steps
  <2> QED
    BY <1>1, <2>1, MovesOn DEF HookInv
<1>3. last' = "none" /\ CutShortIsRepaired'
  BY <1>1, <1>2 DEF HookInv, NearlyDone, HookTypes, CutShortIsRepaired
<1>4. Parsed(settings) = Empty /\ NoneOfOurs(Parsed(settings))
  BY <1>1, EmptySettings DEF Parsed
<1>5. HookTypes' /\ Rewriting'
  BY <1>1, <1>2, <1>3 DEF HookInv, HookTypes, Rewriting, files, bounds, Apps, AtMostOne
<1>6. NearlyDone' /\ Counted'
  BY <1>1, <1>2, <1>3, <1>4 DEF HookInv, NearlyDone, Counted, files, bounds, NoneOfOurs
<1>7. UserSettingsKept' /\ OneGroupOfOurs'
  BY <1>1, <1>2 DEF HookInv, UserSettingsKept, OneGroupOfOurs, files
<1>8. Saved'
  <2>1. ASSUME harmed = 0, mishaps = {} PROVE user = UserPart(Empty)
    BY <1>1, <1>4, <2>1 DEF HookInv, UserSettingsKept
  <2>2. NotYetSaved /\ ~NotYetSaved'
    BY <1>1, <1>2 DEF NotYetSaved
  <2>3. tasks \in Nat /\ harmed \in Nat /\ \A i \in DOMAIN backups : i \in Nat
    BY LenProperties, HookConfigAssumption DEF HookInv, HookTypes
  <2>4. ASSUME mishaps' = {}, user' # UserPart(Empty), harmed' # 0, tasks' < harmed' + MaxBackups
        PROVE  \E i \in DOMAIN backups' :
                  /\ HasUsersPart(i)'
                  /\ i + harmed' <= IF NotYetSaved' THEN tasks' ELSE tasks' + 1
    <3>1. PICK i \in DOMAIN backups :
             HasUsersPart(i) /\ i + harmed <= IF NotYetSaved THEN tasks ELSE tasks + 1
      BY <1>1, <2>4 DEF HookInv, Saved, bounds
    <3>2. i + harmed <= tasks + 1
      BY <2>3, <3>1
    <3> QED
      BY <1>1, <2>2, <3>1, <3>2 DEF HasUsersPart, files, bounds
  <2> QED
    BY <1>1, <1>2, <2>1, <2>4 DEF Saved
<1>9. Backing'
  BY <1>1, <1>2, NoneBegun DEF HookInv, HookTypes, files, bounds, BackingUp
<1> QED
  BY <1>3, <1>5, <1>6, <1>7, <1>8, <1>9 DEF HookInv

\* What is left of a sequence when one of its elements is removed.
LEMMA Removed ==
    ASSUME NEW S, NEW b \in Seq(S), NEW i \in 1..Len(b)
    PROVE  /\ Sequence!RemoveAt(b, i) \in Seq(S) /\ Len(Sequence!RemoveAt(b, i)) = Len(b) - 1
           /\ \A j \in 1..(i - 1) : Sequence!RemoveAt(b, i)[j] = b[j]
<1> DEFINE front == SubSeq(b, 1, i - 1)
           back == SubSeq(b, i + 1, Len(b))
<1>1. /\ Len(b) \in Nat /\ \A j \in 1..Len(b) : b[j] \in S
      /\ i \in Int /\ i - 1 \in Int /\ i + 1 \in Int /\ Len(b) \in Int /\ 1 \in Int
  BY LenProperties, ElementOfSeq
<1>2. /\ front \in Seq(S) /\ Len(front) = i - 1
      /\ \A j \in 1..(i - 1) : front[j] = b[j]
  <2>1. \A j \in 1..(i - 1) : b[j] \in S
    BY <1>1
  <2>2. /\ front \in Seq(S)
        /\ Len(front) = IF 1 <= i - 1 THEN i - 1 - 1 + 1 ELSE 0
        /\ \A j \in 1..(i - 1 - 1 + 1) : front[j] = b[1 + j - 1]
    BY <1>1, <2>1, SubSeqProperties
  <2> QED
    BY <1>1, <2>2
<1>3. back \in Seq(S) /\ Len(back) = Len(b) - i
  <2>1. \A j \in (i + 1)..Len(b) : b[j] \in S
    BY <1>1
  <2>2. /\ back \in Seq(S)
        /\ Len(back) = IF i + 1 <= Len(b) THEN Len(b) - (i + 1) + 1 ELSE 0
    BY <1>1, <2>1, SubSeqProperties
  <2> QED
    BY <1>1, <2>2
<1> HIDE DEF front, back
<1>4. /\ front \o back \in Seq(S) /\ Len(front \o back) = Len(front) + Len(back)
      /\ \A j \in 1..(Len(front) + Len(back)) :
            (front \o back)[j] = IF j <= Len(front) THEN front[j] ELSE back[j - Len(front)]
  BY <1>2, <1>3, ConcatProperties
<1>5. Sequence!RemoveAt(b, i) = front \o back
  BY DEF Sequence!RemoveAt, front, back
<1>6. Len(front \o back) = Len(b) - 1
  BY <1>1, <1>2, <1>3, <1>4
<1>7. ASSUME NEW j \in 1..(i - 1) PROVE (front \o back)[j] = b[j]
  <2>1. j \in 1..(Len(front) + Len(back)) /\ j <= Len(front)
    BY <1>1, <1>2, <1>3
  <2> QED
    BY <1>2, <1>4, <2>1
<1> QED
  BY <1>4, <1>5, <1>6, <1>7

\* The new backup in front of the others moves them down by one.
LEMMA CopyStep == ASSUME HookInv, Copy PROVE HookInv'
<1> DEFINE B == {Torn} \cup SettingsSet
<1>1. UNCHANGED <<settings, manifest, mode, user, harmed, bounds>>
  BY DEF Copy
<1>2. /\ tasks \in Nat /\ harmed \in Nat /\ MaxBackups \in Nat /\ faults \in Nat
      /\ backups \in Seq(B) /\ Len(backups) \in Nat /\ DOMAIN backups = 1..Len(backups)
  BY LenProperties, HookConfigAssumption DEF HookInv, HookTypes
<1>3. \A at \in {"copying", "prune"} :
         Goto(at) => app' \in Apps /\ app'.at = at /\ app'.read = app.read /\ last' = last
  BY MovesOn DEF HookInv, Steps
<1>4. ASSUME app.at \in {"backup", "copying"}, app'.at \in {"copying", "prune"}, app' \in Apps,
             app'.read = app.read, last' = last, backups' \in Seq(B),
             mishaps \subseteq mishaps', mishaps' \subseteq {"unsaved", "overlap", "sameSecond"},
             Backing', Saved'
      PROVE  HookInv'
  <2>1. last' = "none" /\ CutShortIsRepaired'
    BY <1>4 DEF HookInv, NearlyDone, HookTypes, CutShortIsRepaired
  <2>2. HookTypes'
    BY <1>1, <1>4, <2>1 DEF HookInv, HookTypes, bounds, Apps
  <2>3. Rewriting' /\ UserSettingsKept' /\ OneGroupOfOurs'
    BY <1>1, <1>4 DEF HookInv, Rewriting, AtMostOne, UserSettingsKept, OneGroupOfOurs
  <2>4. NearlyDone' /\ Counted'
    BY <1>1, <1>4, <2>1 DEF HookInv, NearlyDone, Counted, bounds
  <2> QED
    BY <1>4, <2>1, <2>2, <2>3, <2>4 DEF HookInv
<1>5. CASE /\ app.at = "backup" /\ settings # Missing /\ Goto("copying")
           /\ backups' = <<Torn>> \o backups /\ UNCHANGED mishaps
  <2>1. <<Torn>> \in Seq(B) /\ Len(<<Torn>>) = 1 /\ <<Torn>>[1] = Torn
    OBVIOUS
  <2>2. /\ backups' \in Seq(B) /\ Len(backups') = 1 + Len(backups)
        /\ \A i \in 1..(1 + Len(backups)) :
              backups'[i] = IF i <= 1 THEN <<Torn>>[i] ELSE backups[i - 1]
    BY <1>2, <1>5, <2>1, ConcatProperties
  <2>3. /\ backups'[1] = Torn /\ DOMAIN backups' = 1..(1 + Len(backups))
        /\ \A i \in DOMAIN backups : i + 1 \in DOMAIN backups' /\ backups'[i + 1] = backups[i]
    <3>1. DOMAIN backups' = 1..(1 + Len(backups)) /\ 1 \in 1..(1 + Len(backups))
      BY <1>2, <2>2, LenProperties
    <3>2. ASSUME NEW i \in DOMAIN backups
          PROVE  i + 1 \in 1..(1 + Len(backups)) /\ ~(i + 1 <= 1) /\ i + 1 - 1 = i
      BY <1>2
    <3> QED
      BY <2>1, <2>2, <3>1, <3>2
  <2>4. Backing'
    <3>1. Len(backups) <= MaxBackups + faults
      BY <1>2, <1>5 DEF HookInv, Backing, FewBackups, BackingUp
    <3>2. Len(backups') <= MaxBackups + faults + 1 /\ Len(backups') > 0
      BY <1>2, <2>2, <3>1
    <3> QED
      BY <1>1, <1>3, <1>5, <2>3, <3>2 DEF Backing, FewBackups, BackingUp, bounds
  <2>5. Saved'
    <3>1. ASSUME mishaps' = {}, user' # UserPart(Empty), harmed' # 0, tasks' < harmed' + MaxBackups
          PROVE  \E i \in DOMAIN backups' : HasUsersPart(i)' /\ i + harmed' <= tasks' + 1
      <4>1. PICK i \in DOMAIN backups :
               HasUsersPart(i) /\ i + harmed <= IF NotYetSaved THEN tasks ELSE tasks + 1
        BY <1>1, <1>5, <3>1 DEF HookInv, Saved, bounds
      <4>2. (i + 1) + harmed <= tasks + 1
        BY <1>2, <1>5, <4>1 DEF NotYetSaved
      <4>3. i + 1 \in DOMAIN backups' /\ HasUsersPart(i + 1)'
        BY <1>1, <2>3, <4>1 DEF HasUsersPart
      <4> QED
        BY <1>1, <4>2, <4>3 DEF bounds
    <3> QED
      BY <1>3, <1>5, <3>1 DEF Saved, NotYetSaved
  <2> QED
    BY <1>3, <1>4, <1>5, <2>2, <2>4, <2>5 DEF HookInv, HookTypes
<1>6. CASE /\ app.at = "backup" /\ settings # Missing /\ Goto("copying") /\ backups # <<>>
           /\ backups' = [backups EXCEPT ![1] = Torn] /\ mishaps' = mishaps \cup {"sameSecond"}
  <2>1. Len(backups) > 0
    BY <1>2, <1>6, EmptySeq
  <2>2. backups' \in Seq(B) /\ Len(backups') = Len(backups) /\ backups'[1] = Torn
    BY <1>2, <1>6, <2>1, ExceptSeq
  <2>3. Backing'
    BY <1>1, <1>2, <1>3, <1>6, <2>1, <2>2 DEF HookInv, Backing, FewBackups, BackingUp, bounds
  <2>4. Saved'
    BY <1>6 DEF Saved
  <2> QED
    BY <1>3, <1>4, <1>6, <2>2, <2>3, <2>4 DEF HookInv, HookTypes
<1>7. CASE /\ app.at = "copying" /\ Goto("prune") /\ UNCHANGED mishaps
           /\ backups' = [backups EXCEPT ![1] = settings]
  <2>1. /\ Len(backups) > 0 /\ backups[1] = Torn /\ settings \in B /\ 1 \in DOMAIN backups
        /\ Parsed(Torn) = Empty
    BY <1>2, <1>7 DEF HookInv, Backing, HookTypes, Parsed
  <2>2. /\ backups' \in Seq(B) /\ Len(backups') = Len(backups) /\ backups'[1] = settings
        /\ DOMAIN backups' = DOMAIN backups
        /\ \A i \in DOMAIN backups : i # 1 => backups'[i] = backups[i]
    BY <1>2, <1>7, <2>1, ExceptSeq
  <2>3. Backing'
    BY <1>1, <1>2, <1>3, <1>7, <2>1, <2>2 DEF HookInv, Backing, FewBackups, BackingUp, bounds
  <2>4. Saved'
    <3>1. ASSUME mishaps' = {}, user' # UserPart(Empty), harmed' # 0, tasks' < harmed' + MaxBackups
          PROVE  \E i \in DOMAIN backups' : HasUsersPart(i)' /\ i + harmed' <= tasks' + 1
      <4>1. PICK i \in DOMAIN backups :
               HasUsersPart(i) /\ i + harmed <= IF NotYetSaved THEN tasks ELSE tasks + 1
        BY <1>1, <1>7, <3>1 DEF HookInv, Saved, bounds
      <4>2. i # 1
        BY <1>1, <2>1, <3>1, <4>1 DEF HasUsersPart
      <4>3. i \in DOMAIN backups' /\ HasUsersPart(i)' /\ i + harmed <= tasks + 1
        BY <1>1, <1>7, <2>2, <4>1, <4>2 DEF HasUsersPart, NotYetSaved
      <4> QED
        BY <1>1, <4>3 DEF bounds
    <3>2. ASSUME mishaps' = {}, harmed' = 0 PROVE 1 \in DOMAIN backups' /\ HasUsersPart(1)'
      <4>1. UserPart(Parsed(settings)) = user
        BY <1>1, <1>7, <3>2 DEF HookInv, UserSettingsKept
      <4> QED
        BY <1>1, <2>1, <2>2, <4>1 DEF HasUsersPart
    <3> QED
      BY <1>3, <1>7, <3>1, <3>2 DEF Saved, NotYetSaved
  <2> QED
    BY <1>3, <1>4, <1>7, <2>2, <2>3, <2>4 DEF HookInv, HookTypes
<1> QED
  BY <1>5, <1>6, <1>7 DEF Copy

\* A backup that a task needed is above those that are removed.
LEMMA PruneStep == ASSUME HookInv, Prune PROVE HookInv'
<1> DEFINE B == {Torn} \cup SettingsSet
<1>1. app.at = "prune" /\ UNCHANGED <<settings, manifest, mode, user, harmed, mishaps, bounds>>
  BY DEF Prune
<1>2. /\ tasks \in Nat /\ harmed \in Nat /\ MaxBackups \in Nat \ {0} /\ faults \in Nat
      /\ backups \in Seq(B) /\ Len(backups) \in Nat /\ DOMAIN backups = 1..Len(backups)
  BY LenProperties, HookConfigAssumption DEF HookInv, HookTypes
<1>3. last = "none" /\ ~NotYetSaved
  BY <1>1 DEF HookInv, NearlyDone, HookTypes, NotYetSaved
<1>4. ASSUME NEW i \in Excess(backups), backups' = Sequence!RemoveAt(backups, i),
             UNCHANGED <<app, last>>
      PROVE  HookInv'
  <2>1. i \in 1..Len(backups) /\ i > MaxBackups /\ i \in Nat
    BY <1>2 DEF Excess
  <2>2. /\ backups' \in Seq(B) /\ Len(backups') = Len(backups) - 1
        /\ \A j \in 1..(i - 1) : backups'[j] = backups[j]
    BY <1>2, <1>4, <2>1, Removed
  <2>3. DOMAIN backups' = 1..(Len(backups) - 1)
    BY <2>2, LenProperties
  <2>4. \A j \in DOMAIN backups : j <= MaxBackups => j \in DOMAIN backups' /\ backups'[j] = backups[j]
    BY <1>2, <2>1, <2>2, <2>3
  <2>5. HookTypes'
    BY <1>1, <1>4, <2>2 DEF HookInv, HookTypes, bounds
  <2>6. Backing'
    <3>1. Len(backups) <= MaxBackups + faults + 1
      BY <1>1, <1>2 DEF HookInv, Backing, FewBackups, BackingUp
    <3>2. Len(backups') <= MaxBackups + faults + 1
      BY <1>2, <2>2, <3>1
    <3> QED
      BY <1>1, <1>4, <3>2 DEF Backing, FewBackups, BackingUp, bounds
  <2>7. Saved'
    <3>1. ASSUME mishaps' = {}, user' # UserPart(Empty), harmed' # 0, tasks' < harmed' + MaxBackups
          PROVE  \E j \in DOMAIN backups' : HasUsersPart(j)' /\ j + harmed' <= tasks' + 1
      <4>1. PICK j \in DOMAIN backups :
               HasUsersPart(j) /\ j + harmed <= IF NotYetSaved THEN tasks ELSE tasks + 1
        BY <1>1, <3>1 DEF HookInv, Saved, bounds
      <4>2. j <= MaxBackups /\ j + harmed <= tasks + 1
        BY <1>1, <1>2, <1>3, <3>1, <4>1 DEF bounds
      <4>3. j \in DOMAIN backups' /\ HasUsersPart(j)'
        BY <1>1, <2>4, <4>1, <4>2 DEF HasUsersPart
      <4> QED
        BY <1>1, <4>2, <4>3 DEF bounds
    <3>2. ASSUME mishaps' = {}, user' # UserPart(Empty), harmed' = 0
          PROVE  1 \in DOMAIN backups' /\ HasUsersPart(1)'
      <4>1. 1 \in DOMAIN backups /\ HasUsersPart(1)
        BY <1>1, <3>2 DEF HookInv, Saved
      <4>2. 1 <= MaxBackups
        BY <1>2
      <4> QED
        BY <1>1, <2>4, <4>1, <4>2 DEF HasUsersPart
    <3>3. ~NotYetSaved'
      BY <1>3, <1>4 DEF NotYetSaved
    <3> QED
      BY <3>1, <3>2, <3>3 DEF Saved
  <2> QED
    BY <1>1, <1>3, <1>4, <2>5, <2>6, <2>7 DEF HookInv, Rewriting, NearlyDone, Counted, UserSettingsKept,
       CutShortIsRepaired, OneGroupOfOurs, bounds, AtMostOne, Configured, NoneOfOurs
<1>5. CASE Excess(backups) = {} /\ Goto("read") /\ UNCHANGED backups
  <2>1. app' \in Apps /\ app'.at = "read" /\ app'.read = app.read /\ last' = "none"
    BY <1>3, <1>5, MovesOn DEF HookInv, Steps
  <2>2. HookTypes' /\ CutShortIsRepaired'
    BY <1>1, <1>5, <2>1 DEF HookInv, HookTypes, bounds, Apps, CutShortIsRepaired
  <2>3. Backing'
    <3>1. Len(backups) <= MaxBackups
      <4>1. CASE Len(backups) > MaxBackups
        BY <1>2, <1>5, <4>1 DEF Excess
      <4> QED
        BY <1>2, <4>1
    <3>2. Len(backups) <= MaxBackups + faults + 0
      BY <1>2, <3>1
    <3> QED
      BY <1>1, <1>5, <2>1, <3>2 DEF Backing, FewBackups, BackingUp, bounds
  <2>4. ~NotYetSaved' /\ Saved'
    <3>1. ~NotYetSaved'
      BY <2>1 DEF NotYetSaved
    <3> QED
      BY <1>1, <1>5, <2>1, <3>1, StaysSaved DEF bounds
  <2> QED
    BY <1>1, <1>3, <2>1, <2>2, <2>3, <2>4 DEF HookInv, Rewriting, NearlyDone, Counted, UserSettingsKept,
       OneGroupOfOurs, bounds, AtMostOne
<1> QED
  BY <1>4, <1>5 DEF Prune

LEMMA TruncateStep == ASSUME HookInv, Truncate PROVE HookInv'
<1>1. /\ app.at = "truncate" /\ settings' = Torn /\ Goto("write")
      /\ UNCHANGED <<manifest, backups, mode, user, harmed, mishaps, bounds>>
  BY DEF Truncate
<1>2. app' \in Apps /\ app'.at = "write" /\ app'.read = app.read /\ last' = last
  BY <1>1, MovesOn DEF HookInv, Steps
<1>3. last' = "none" /\ CutShortIsRepaired'
  BY <1>1, <1>2 DEF HookInv, NearlyDone, HookTypes, CutShortIsRepaired
<1>4. HookTypes'
  BY <1>1, <1>2, <1>3 DEF HookInv, HookTypes, bounds, Apps
<1>5. Rewriting'
  BY <1>1, <1>2 DEF HookInv, Rewriting, AtMostOne
<1>6. NearlyDone' /\ Counted'
  BY <1>1, <1>2, <1>3 DEF HookInv, NearlyDone, Counted, bounds
<1>7. ~NotYetSaved' /\ Saved'
  <2>1. ~NotYetSaved'
    BY <1>2 DEF NotYetSaved
  <2> QED
    BY <1>1, <1>2, <2>1, StaysSaved DEF bounds
<1>8. UserSettingsKept' /\ OneGroupOfOurs'
  <2>1. Parsed(settings') = Empty
    BY <1>1 DEF Parsed
  <2>2. OneGroupOfOurs'
    BY <2>1, EmptySettings DEF OneGroupOfOurs, AtMostOne
  <2> QED
    BY <1>2, <2>2 DEF UserSettingsKept
<1>9. Backing'
  BY <1>1, <1>2, NoneBegun DEF HookInv, HookTypes, bounds, BackingUp
<1> QED
  BY <1>3, <1>4, <1>5, <1>6, <1>7, <1>8, <1>9 DEF HookInv

\* What is written is what was read, with our groups in it or out of it.
LEMMA WriteStep == ASSUME HookInv, Write PROVE HookInv'
<1>1. /\ app.at = "write"
      /\ UNCHANGED <<manifest, backups, mode, user, harmed, mishaps, bounds>>
  BY DEF Write
<1>2. IsSettings(app.read) /\ AtMostOne(app.read)
  BY Facts
<1>3. \/ settings' = Merge(app.read) /\ Goto("record")
      \/ settings' = Remove(app.read, Events) /\ Goto("forget")
  BY DEF Write, HookInv, NearlyDone, Recorded
<1>4. /\ IsSettings(settings') /\ AtMostOne(settings')
      /\ UserPart(settings') = UserPart(app.read)
  BY <1>2, <1>3, MergeKeeps, RemoveKeeps
<1>5. Parsed(settings') = settings' /\ settings' # Torn /\ settings' \in SettingsSet
  BY <1>4, ParsedIs, SettingsSetIs, HookConfigAssumption
<1>6. /\ app' \in Apps /\ app'.at \in {"record", "forget"} /\ app'.read = app.read
      /\ last' = last
  BY <1>3, MovesOn DEF HookInv, Steps
<1>7. last' = "none" /\ CutShortIsRepaired'
  BY <1>1, <1>6 DEF HookInv, NearlyDone, HookTypes, CutShortIsRepaired
<1>8. (app'.at = "record" => Configured') /\ (app'.at = "forget" => NoneOfOurs(Parsed(settings')))
  <2>1. CASE settings' = Merge(app.read) /\ Goto("record")
    <3>1. app'.at = "record"
      BY <2>1, MovesOn DEF HookInv, Steps
    <3> QED
      BY <1>2, <1>5, <2>1, <3>1, MergeKeeps DEF Configured
  <2>2. CASE settings' = Remove(app.read, Events) /\ Goto("forget")
    <3>1. app'.at = "forget"
      BY <2>2, MovesOn DEF HookInv, Steps
    <3> QED
      BY <1>2, <1>5, <2>2, <3>1, RemoveKeeps
  <2> QED
    BY <1>3, <2>1, <2>2
<1>9. HookTypes'
  BY <1>1, <1>5, <1>6, <1>7 DEF HookInv, HookTypes, bounds, Apps
<1>10. Rewriting'
  BY <1>1, <1>5, <1>6 DEF HookInv, Rewriting, AtMostOne
<1>11. NearlyDone' /\ Counted'
  BY <1>1, <1>6, <1>7, <1>8 DEF HookInv, NearlyDone, Counted, bounds, NoneOfOurs
<1>12. Saved'
  <2>1. ~NotYetSaved'
    BY <1>6 DEF NotYetSaved
  <2> QED
    BY <1>1, <1>6, <2>1, StaysSaved DEF bounds
<1>13. UserSettingsKept' /\ OneGroupOfOurs'
  <2>1. harmed = 0 /\ "overlap" \notin mishaps => UserPart(app.read) = user
    BY <1>1 DEF HookInv, Rewriting
  <2> QED
    BY <1>1, <1>4, <1>5, <2>1 DEF UserSettingsKept, OneGroupOfOurs, AtMostOne
<1>14. Backing'
  BY <1>1, <1>6, NoneBegun DEF HookInv, HookTypes, bounds, BackingUp
<1> QED
  BY <1>7, <1>9, <1>10, <1>11, <1>12, <1>13, <1>14 DEF HookInv

\* Steps on the manifest and the mode leave the settings alone.
LEMMA RecordStep ==
    ASSUME HookInv, UNCHANGED <<settings, backups, user, harmed, mishaps, bounds>>,
           manifest' \in {Missing, Torn, Events}, mode' \in {Missing, Torn} \cup Modes,
           app' \in Apps, AtMostOne(app'.read), last' \in {"none", "install", "uninstall"},
           app.at \notin {"down", "ready", "write", "copying", "prune"},
           app'.at \in {"down", "ready", "recording"} \cup Modes,
           app'.at = "recording" => Configured,
           last' # "none" => app'.at \in {"down", "ready"},
           CutShortIsRepaired'
    PROVE  HookInv'
<1>1. app'.at \notin {"check", "dedup", "backup", "copying", "prune", "read", "truncate",
                     "write", "record", "forget"}
  BY DEF Modes
<1>2. HookTypes'
  BY DEF HookInv, HookTypes, bounds, Apps
<1>3. Rewriting'
  BY <1>1 DEF HookInv, Rewriting, AtMostOne
<1>4. NearlyDone' /\ Counted'
  BY <1>1 DEF HookInv, NearlyDone, Counted, bounds, Configured
<1>5. Saved'
  <2>1. ~NotYetSaved'
    BY <1>1 DEF NotYetSaved
  <2> QED
    BY <1>1, <2>1, StaysSaved DEF bounds
<1>6. UserSettingsKept' /\ OneGroupOfOurs'
  BY DEF HookInv, UserSettingsKept, OneGroupOfOurs
<1>7. Backing'
  BY <1>1, NoneBegun DEF HookInv, HookTypes, bounds, BackingUp
<1> QED
  BY <1>2, <1>3, <1>4, <1>5, <1>6, <1>7 DEF HookInv

LEMMA WriteManifestStep == ASSUME HookInv, WriteManifest PROVE HookInv'
<1>1. /\ UNCHANGED <<settings, backups, mode, user, harmed, mishaps, bounds>>
      /\ app.at \in {"record", "recording"}
  BY DEF WriteManifest
<1>2. Configured /\ last = "none" /\ mode' \in {Missing, Torn} \cup Modes
  BY <1>1 DEF HookInv, NearlyDone, HookTypes
<1>3. CASE manifest' = Torn /\ Goto("recording")
  <2>1. app' \in Apps /\ app'.at = "recording" /\ app'.read = app.read /\ last' = "none"
    BY <1>2, <1>3, MovesOn DEF HookInv, Steps
  <2>2. CutShortIsRepaired'
    BY <2>1 DEF CutShortIsRepaired
  <2> QED
    BY <1>1, <1>2, <1>3, <2>1, <2>2, Facts, RecordStep
<1>4. CASE manifest' = Events /\ Return("install")
  <2>1. app' \in Apps /\ app'.at \in {"down", "ready"} /\ app'.read = Empty /\ last' = "install"
    BY <1>4, Returns DEF HookInv
  <2>2. CutShortIsRepaired'
    BY <1>1, <1>2, <1>4, <2>1 DEF CutShortIsRepaired, Configured
  <2> QED
    BY <1>1, <1>2, <1>4, <2>1, <2>2, EmptySettings, RecordStep
<1> QED
  BY <1>3, <1>4 DEF WriteManifest

LEMMA DeleteManifestStep == ASSUME HookInv, DeleteManifest PROVE HookInv'
<1>1. /\ UNCHANGED <<settings, backups, mode, user, harmed, mishaps, bounds>>
      /\ app.at = "forget" /\ manifest' = Missing /\ Return("uninstall")
  BY DEF DeleteManifest
<1>2. NoneOfOurs(Parsed(settings)) /\ mode' \in {Missing, Torn} \cup Modes
  BY <1>1 DEF HookInv, NearlyDone, HookTypes
<1>3. app' \in Apps /\ app'.at \in {"down", "ready"} /\ app'.read = Empty /\ last' = "uninstall"
  BY <1>1, Returns DEF HookInv
<1>4. CutShortIsRepaired'
  BY <1>1, <1>2, <1>3 DEF CutShortIsRepaired, NoneOfOurs
<1> QED
  BY <1>1, <1>2, <1>3, <1>4, EmptySettings, RecordStep

LEMMA WriteModeStep == ASSUME HookInv, WriteMode PROVE HookInv'
<1>1. /\ UNCHANGED <<settings, manifest, backups, user, harmed, mishaps, bounds>>
      /\ app.at \in {"choose"} \cup Modes
  BY DEF WriteMode
<1>2. /\ app.at \notin {"down", "ready", "write", "copying", "prune"} /\ last = "none"
      /\ manifest' \in {Missing, Torn, Events}
  BY <1>1 DEF HookInv, NearlyDone, HookTypes, Modes
<1>3. ASSUME mode' = Torn, NEW m \in Modes, Goto(m) PROVE HookInv'
  <2>1. app' \in Apps /\ app'.at = m /\ app'.read = app.read /\ last' = "none"
    BY <1>2, <1>3, MovesOn DEF HookInv, Steps
  <2>2. CutShortIsRepaired' /\ app'.at # "recording" /\ mode' \in {Missing, Torn} \cup Modes
    BY <1>3, <2>1 DEF CutShortIsRepaired, Modes
  <2> QED
    BY <1>1, <1>2, <2>1, <2>2, Facts, RecordStep
<1>4. CASE app.at \in Modes /\ mode' = app.at /\ Return("none")
  <2>1. app' \in Apps /\ app'.at \in {"down", "ready"} /\ app'.read = Empty /\ last' = "none"
    BY <1>4, Returns DEF HookInv
  <2>2. CutShortIsRepaired' /\ mode' \in {Missing, Torn} \cup Modes
    BY <1>4, <2>1 DEF CutShortIsRepaired
  <2> QED
    BY <1>1, <1>2, <2>1, <2>2, EmptySettings, RecordStep
<1> QED
  BY <1>3, <1>4 DEF WriteMode

\* A fault ends the task, or makes it read {}; the backup of the task, or an older
\* one, has what a rewrite or that reading costs.
LEMMA FaultStep ==
    ASSUME HookInv, Fault, app' \in Apps, AtMostOne(app'.read), last' = "none",
           \/ app'.at \in {"down", "ready"}
           \/ app'.at = "truncate" /\ app.at = "read"
           \/ app'.at = "read" /\ app.at = "prune",
           \/ UNCHANGED harmed /\ app.at # "write" /\ app'.at # "truncate"
           \/ Harm /\ app.at \in {"read", "write"}
    PROVE  HookInv'
<1>1. faults < MaxFaults /\ faults' = faults + 1 /\ UNCHANGED <<files, user, mishaps, tasks, edits>>
  BY DEF Fault
<1>2. /\ tasks \in Nat /\ harmed \in Nat /\ harmed <= tasks /\ tasks <= MaxTasks
      /\ faults' \in 0..MaxFaults /\ \A i \in DOMAIN backups : i \in Nat
  BY <1>1, LenProperties, HookConfigAssumption DEF HookInv, HookTypes, Counted
<1>3. /\ harmed' \in 0..MaxTasks /\ harmed' <= tasks
      /\ harmed # 0 => harmed' = harmed
      /\ Harm /\ app.at \in {"read", "write"} => harmed' # 0
      /\ harmed' # 0 /\ harmed = 0 => harmed' = tasks /\ app.at \in {"read", "write"}
  <2>1. app.at \in {"read", "write"} => tasks # 0
    BY DEF HookInv, Counted
  <2>2. CASE UNCHANGED harmed /\ app.at # "write" /\ app'.at # "truncate"
    BY <1>2, <2>1, <2>2, HookConfigAssumption DEF Harm
  <2>3. CASE Harm /\ app.at \in {"read", "write"}
    BY <1>2, <2>1, <2>3, HookConfigAssumption DEF Harm
  <2> QED
    BY <2>2, <2>3
<1>4. HookTypes'
  BY <1>1, <1>2, <1>3, HookConfigAssumption DEF HookInv, HookTypes, files, Apps
<1>5. Rewriting'
  <2>1. app'.at # "write" /\ (app'.at = "truncate" => harmed' # 0)
    BY <1>3
  <2>2. settings' = Torn => harmed' # 0
    <3>1. harmed = 0 /\ settings = Torn => app.at = "write"
      BY DEF HookInv, Rewriting
    <3> QED
      BY <1>1, <1>3, <3>1 DEF files
  <2> QED
    BY <2>1, <2>2 DEF Rewriting, AtMostOne
<1>6. NearlyDone' /\ CutShortIsRepaired'
  BY <1>1 DEF HookInv, NearlyDone, CutShortIsRepaired, files
<1>7. Counted'
  BY <1>1, <1>2, <1>3 DEF HookInv, Counted
<1>8. UserSettingsKept' /\ OneGroupOfOurs'
  BY <1>1, <1>2, <1>3 DEF HookInv, UserSettingsKept, OneGroupOfOurs, files
<1>9. Saved'
  <2>1. /\ app'.at \notin {"check", "dedup", "backup", "prune", "write"} /\ ~NotYetSaved'
        /\ app'.at = "read" => app.at = "prune"
    BY DEF NotYetSaved
  <2>2. ASSUME mishaps' = {}, user' # UserPart(Empty), harmed' # 0, tasks' < harmed' + MaxBackups
        PROVE  \E i \in DOMAIN backups : HasUsersPart(i) /\ i + harmed' <= tasks + 1
    <3>1. CASE harmed = 0
      <4>1. 1 \in DOMAIN backups /\ HasUsersPart(1) /\ harmed' = tasks
        BY <1>1, <1>3, <2>2, <3>1 DEF HookInv, Saved
      <4> QED
        BY <1>2, <4>1
    <3>2. CASE harmed # 0
      <4>1. PICK i \in DOMAIN backups :
               HasUsersPart(i) /\ i + harmed <= IF NotYetSaved THEN tasks ELSE tasks + 1
        BY <1>1, <1>3, <2>2, <3>2 DEF HookInv, Saved
      <4>2. i + harmed' <= tasks + 1
        BY <1>2, <1>3, <3>2, <4>1
      <4> QED
        BY <4>1, <4>2
    <3> QED
      BY <3>1, <3>2
  <2>3. harmed' = 0 => app'.at # "truncate"
    BY <1>3
  <2>4. ASSUME mishaps' = {}, user' # UserPart(Empty), harmed' = 0,
               app'.at \in {"prune", "read", "truncate", "write"}
        PROVE  1 \in DOMAIN backups /\ HasUsersPart(1)
    <3>1. app.at = "prune" /\ harmed = 0
      BY <1>3, <2>1, <2>3, <2>4
    <3> QED
      BY <1>1, <2>4, <3>1 DEF HookInv, Saved
  <2> QED
    BY <1>1, <2>1, <2>2, <2>4 DEF Saved, HasUsersPart, files
<1>10. Backing'
  <2>1. faults \in Nat /\ faults' \in Nat /\ faults < faults'
    BY <1>1, HookConfigAssumption DEF HookInv, HookTypes
  <2> QED
    BY <1>1, <2>1, NoneBegun DEF files
<1> QED
  BY <1>4, <1>5, <1>6, <1>7, <1>8, <1>9, <1>10 DEF HookInv

LEMMA FaultSteps == ASSUME HookInv, Kill \/ Fail \/ FailPrune \/ FailRead PROVE HookInv'
<1>1. CASE Kill
  <2>1. Fault /\ app' \in Apps /\ app'.at = "down" /\ app'.read = Empty /\ last' = "none"
    BY <1>1, AppsAtRest DEF Kill
  <2>2. \/ UNCHANGED harmed /\ app.at # "write" /\ app'.at # "truncate"
        \/ Harm /\ app.at \in {"read", "write"}
    BY <1>1, <2>1 DEF Kill
  <2> QED
    BY <2>1, <2>2, EmptySettings, FaultStep
<1>2. CASE Fail
  <2>1. /\ Fault /\ app' \in Apps /\ app'.at \in {"down", "ready"} /\ app'.read = Empty
        /\ last' = "none"
    BY <1>2, Returns DEF Fail, HookInv
  <2>2. \/ UNCHANGED harmed /\ app.at # "write" /\ app'.at # "truncate"
        \/ Harm /\ app.at \in {"read", "write"}
    BY <1>2, <2>1 DEF Fail
  <2> QED
    BY <2>1, <2>2, EmptySettings, FaultStep
<1>3. CASE FailRead
  <2>1. /\ app.at = "read" /\ app' = [app EXCEPT !.at = "truncate", !.read = Empty]
        /\ Harm /\ Fault /\ UNCHANGED last
    BY <1>3 DEF FailRead
  <2>2. app' \in Apps /\ app'.at = "truncate" /\ app'.read = Empty
    BY <2>1, EmptySettings, SettingsSetIs, Facts DEF Apps, Steps
  <2>3. last' = "none"
    BY <2>1 DEF HookInv, NearlyDone, HookTypes
  <2> QED
    BY <2>1, <2>2, <2>3, EmptySettings, FaultStep
<1>4. CASE FailPrune
  <2>1. app.at = "prune" /\ Goto("read") /\ UNCHANGED harmed /\ Fault
    BY <1>4 DEF FailPrune
  <2>2. app' \in Apps /\ app'.at = "read" /\ app'.read = app.read /\ last' = last
    BY <2>1, MovesOn DEF HookInv, Steps
  <2>3. last' = "none"
    BY <2>1, <2>2 DEF HookInv, NearlyDone, HookTypes
  <2> QED
    BY <2>1, <2>2, <2>3, Facts, FaultStep
<1> QED
  BY <1>1, <1>2, <1>3, <1>4

LEMMA EditStep == ASSUME HookInv, Edit PROVE HookInv'
<1>1. /\ edits < MaxEdits /\ edits' = edits + 1 /\ settings # Torn /\ last' = "none"
      /\ settings' \in IF settings = Missing THEN {[Empty EXCEPT !.rest = TRUE]} ELSE Edited(settings)
      /\ user' = IF harmed = 0 THEN UserPart(settings') ELSE user
      /\ UNCHANGED <<manifest, backups, mode, app, harmed, tasks, faults>>
  BY DEF Edit
<1>2. /\ mishaps \subseteq mishaps' /\ mishaps' \subseteq {"unsaved", "overlap", "sameSecond"}
      /\ app.at \in {"copying", "prune", "read"} => mishaps' # {}
      /\ app.at = "truncate" => "overlap" \in mishaps'
  BY DEF Edit, HookInv, HookTypes, BackingUp
<1>3. /\ IsSettings(settings')
      /\ AtMostOne(settings')
      /\ DOMAIN Parsed(settings).hooks \subseteq DOMAIN settings'.hooks
      /\ NoneOfOurs(Parsed(settings)) => NoneOfOurs(settings')
  <2>1. CASE settings = Missing
    <3>1. settings' = [Empty EXCEPT !.rest = TRUE]
      BY <1>1, <2>1
    <3>2. Empty.hooks = <<>> /\ DOMAIN <<>> = {} /\ Parsed(settings) = Empty
      BY <2>1 DEF Empty, Parsed
    <3>3. settings' \in [hooks : {<<>>}, rest : BOOLEAN] /\ settings'.hooks = <<>>
      BY <3>1 DEF Empty
    <3>4. <<>> \in [DOMAIN <<>> -> Seq(Groups)] /\ DOMAIN <<>> \in SUBSET Events
      OBVIOUS
    <3>5. /\ IsSettings(settings') /\ \A e \in Events : GroupsOf(settings', e) = <<>>
      BY <3>2, <3>3, <3>4, WithHooks
    <3>6. Ours(<<>>) = <<>> /\ Len(<<>>) <= 1
      BY EmptyGroups, FiltersOfTheirs
    <3> QED
      BY <3>2, <3>3, <3>5, <3>6 DEF AtMostOne, NoneOfOurs
  <2>2. CASE settings # Missing
    <3>1. IsSettings(settings) /\ Parsed(settings) = settings /\ AtMostOne(settings)
      BY <1>1, <2>2, Facts
    <3>2. settings' \in Edited(settings)
      BY <1>1, <2>2
    <3> QED
      BY <3>1, <3>2, EditKeeps
  <2> QED
    BY <2>1, <2>2
<1>4. /\ settings' \in SettingsSet /\ settings' # Torn /\ settings' # Missing
      /\ Parsed(settings') = settings'
  BY <1>3, SettingsSetIs, ParsedIs, HookConfigAssumption
<1>5. app.at # "write"
  BY <1>1 DEF HookInv, Rewriting
<1>6. HookTypes'
  <2>1. edits' \in 0..MaxEdits
    BY <1>1, HookConfigAssumption DEF HookInv, HookTypes
  <2> QED
    BY <1>1, <1>2, <1>4, <2>1 DEF HookInv, HookTypes
<1>7. Rewriting'
  BY <1>1, <1>2, <1>4, <1>5 DEF HookInv, Rewriting, AtMostOne
<1>8. NearlyDone' /\ Counted'
  BY <1>1, <1>3, <1>4 DEF HookInv, NearlyDone, Counted, Configured, NoneOfOurs
<1>9. UserSettingsKept' /\ OneGroupOfOurs' /\ CutShortIsRepaired'
  BY <1>1, <1>3, <1>4 DEF UserSettingsKept, OneGroupOfOurs, AtMostOne, CutShortIsRepaired
<1>10. Saved'
  <2>1. mishaps' = {} => mishaps = {} /\ app.at \notin {"prune", "read", "truncate", "write"}
    BY <1>2, <1>5
  <2>2. harmed # 0 => user' = user
    BY <1>1
  <2> QED
    BY <1>1, <2>1, <2>2 DEF HookInv, Saved, HasUsersPart, NotYetSaved
<1>11. Backing'
  BY <1>1, <1>4 DEF HookInv, Backing, FewBackups, BackingUp
<1> QED
  BY <1>6, <1>7, <1>8, <1>9, <1>10, <1>11 DEF HookInv

LEMMA HookInit == Init => HookInv
<1> SUFFICES ASSUME Init PROVE HookInv
  OBVIOUS
<1>1. /\ manifest = Missing /\ backups = <<>> /\ mode = Missing /\ app = Down
      /\ user = UserPart(Parsed(settings))
      /\ harmed = 0 /\ mishaps = {} /\ last = "none" /\ tasks = 0 /\ faults = 0 /\ edits = 0
  BY DEF Init
<1>2. /\ settings = Missing \/ settings \in SettingsSet
      /\ AtMostOne(Parsed(settings))
  <2>1. CASE settings = Missing
    BY <2>1, EmptySettings DEF Parsed
  <2>2. ASSUME NEW own \in SUBSET Events,
               settings = [hooks |-> [e \in own |-> <<"user">>], rest |-> TRUE]
        PROVE  settings \in SettingsSet /\ AtMostOne(Parsed(settings))
    <3> DEFINE f == [e \in own |-> <<"user">>]
    <3>1. <<"user">> \in Seq(Groups) /\ Ours(<<"user">>) = <<>> /\ Ours(<<>>) = <<>>
      BY EmptyGroups, FiltersOfTheirs DEF NotOurs
    <3>a. Len(<<>>) <= 1
      OBVIOUS
    <3>2. DOMAIN f = own /\ f \in [DOMAIN f -> Seq(Groups)] /\ \A e \in own : f[e] = <<"user">>
      BY <3>1
    <3>3. settings \in [hooks : {f}, rest : BOOLEAN] /\ settings.hooks = f
      BY <2>2
    <3> HIDE DEF f
    <3>4. /\ IsSettings(settings)
          /\ \A e \in Events : GroupsOf(settings, e) = IF e \in DOMAIN f THEN f[e] ELSE <<>>
      BY <3>2, <3>3, WithHooks
    <3>5. AtMostOne(settings)
      BY <3>1, <3>a, <3>2, <3>4 DEF AtMostOne
    <3> QED
      BY <3>4, <3>5, ParsedIs, SettingsSetIs
  <2> QED
    BY <2>1, <2>2 DEF Init
<1>3. settings # Torn
  BY <1>2, SettingsSetIs, HookConfigAssumption
<1>4. app \in Apps /\ app.at = "down" /\ AtMostOne(app.read)
  BY <1>1, AppsAtRest, EmptySettings
<1>5. HookTypes
  <2>1. <<>> \in Seq({Torn} \cup SettingsSet)
    OBVIOUS
  <2> QED
    BY <1>1, <1>2, <1>4, <2>1, HookConfigAssumption DEF HookTypes, Apps
<1>6. Rewriting /\ NearlyDone /\ Counted
  BY <1>1, <1>3, <1>4 DEF Rewriting, NearlyDone, Counted
<1>7. Saved /\ UserSettingsKept /\ CutShortIsRepaired /\ OneGroupOfOurs
  BY <1>1, <1>2, <1>4 DEF Saved, UserSettingsKept, CutShortIsRepaired, OneGroupOfOurs, AtMostOne
<1>8. Backing
  <2>1. Len(<<>>) = 0 /\ 0 <= MaxBackups /\ MaxBackups + 0 + 0 = MaxBackups
    BY HookConfigAssumption
  <2> QED
    BY <1>1, <1>4, <2>1 DEF Backing, FewBackups, BackingUp
<1> QED
  BY <1>5, <1>6, <1>7, <1>8 DEF HookInv

LEMMA HookStep == HookInv /\ [Next]_vars => HookInv'
<1> SUFFICES ASSUME HookInv, [Next]_vars PROVE HookInv'
  OBVIOUS
<1>1. ASSUME AppStart \/ InstallHooks \/ UninstallHooks \/ SetStoredMode PROVE HookInv'
  <2>1. app \in {Down, Ready}
    BY <1>1 DEF AppStart, InstallHooks, UninstallHooks, SetStoredMode
  <2>2. \/ Begin("auto", "check", FALSE) \/ Begin("install", "dedup", FALSE)
        \/ Begin("uninstall", "backup", FALSE) \/ Begin("setMode", "choose", FALSE)
    BY <1>1 DEF AppStart, InstallHooks, UninstallHooks, SetStoredMode
  <2>3. {"auto", "install", "uninstall", "setMode"} \subseteq Tasks
    BY DEF Tasks
  <2> QED
    BY <2>1, <2>2, <2>3, BeginStep
<1>2. CASE UNCHANGED vars
  BY <1>2 DEF vars, files, bounds, HookInv, HookTypes, Rewriting, NearlyDone, Counted, Saved,
     Backing, FewBackups, BackingUp, UserSettingsKept, CutShortIsRepaired, OneGroupOfOurs, AtMostOne, NoneOfOurs, HasUsersPart,
     NotYetSaved, Configured
<1> QED
  BY <1>1, <1>2, QuitStep, CheckStep, DedupStep, CopyStep, PruneStep, NothingToBackUpStep, ReadSettingsStep,
     TruncateStep, WriteStep, WriteManifestStep, DeleteManifestStep, WriteModeStep, FaultSteps,
     EditStep DEF Next

LEMMA HookInvariant == Spec => []HookInv
BY HookInit, HookStep, PTL DEF Spec
-----------------------------------------------------------------------------
(* Theorems.                                                                 *)

\* The files hold what the app or the user writes into them, or are missing, or are
\* truncated; there are at most MAX_BACKUPS backups of the settings, one more while a
\* backup is made, and one more for every fault that may have kept one from its removal.
THEOREM TypeCorrect == Spec => []HookTypeOK
<1>1. HookInv => HookTypeOK
  BY TypesAsSets DEF HookInv
<1> QED
  BY <1>1, HookInvariant, PTL

\* However often the hooks are installed and removed, and wherever the app is killed,
\* merge_hooks and remove_vibe_hooks leave the user's settings and groups of hooks as
\* he left them; but for a fault in a rewrite and an edit that fell into one.
THEOREM UserKeepsHisSettings == Spec => []UserSettingsKept
<1>1. HookInv => UserSettingsKept
  BY DEF HookInv
<1> QED
  BY <1>1, HookInvariant, PTL

\* Whatever was cut short before, install_hooks that ends well leaves every event
\* configured and on record, uninstall_hooks nothing of ours and no record.
THEOREM EndsRepair == Spec => []CutShortIsRepaired
<1>1. HookInv => CutShortIsRepaired
  BY DEF HookInv
<1> QED
  BY <1>1, HookInvariant, PTL

\* No event runs our hook twice, whoever edits the settings between two
\* installations.
THEOREM RunsOurHookOnce == Spec => []OneGroupOfOurs
<1>1. HookInv => OneGroupOfOurs
  BY DEF HookInv
<1> QED
  BY <1>1, HookInvariant, PTL

\* What a fault cost of the user's settings is in a backup until MAX_BACKUPS tasks
\* have begun after it, but for two backups in one second and edits during a task.
THEOREM FaultsCanBeUndone == Spec => []RollbackWindow
<1>1. HookInv => RollbackWindow
  BY DEF HookInv, Saved, RollbackWindow, HasUsersPart
<1> QED
  BY <1>1, HookInvariant, PTL
=============================================================================
