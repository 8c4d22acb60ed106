----------------------------- MODULE Transcripts -----------------------------
(***************************************************************************)
(* What Vibe Island reads from Claude Code's transcripts                   *)
(* (transcript_discovery.rs): at the start, the sessions of the last day,  *)
(* merged into the backend's sessions (session_state.rs), and after a      *)
(* hook, the title of its session from the last lines of its transcript.   *)
(*                                                                         *)
(* A line has a kind and, most of the time, the id of its session.  A text *)
(* is a sequence of characters, of which only their width in bytes counts  *)
(* and whether they end a sentence.                                        *)
(***************************************************************************)
EXTENDS Naturals, Sequences, FiniteSets

CONSTANTS Files, SessionIds, NoId,
          MaxFiles, MaxAge,  \* MAX_FILES, MAX_AGE_HOURS
          MaxWindow,         \* max_lines of extract_title_from_transcript
          MaxLen,            \* max_len of first_sentence, in bytes
          Widths,            \* bytes that a character may take
          MaxHour, MaxLines, MaxChars \* bounds: hours, lines of all files, characters

ASSUME TranscriptAssumption ==
    /\ IsFiniteSet(Files)
    /\ NoId \notin SessionIds
    /\ {MaxFiles, MaxAge, MaxWindow, MaxLen, MaxHour, MaxLines, MaxChars} \subseteq Nat
    /\ Widths \subseteq Nat

VARIABLES
    files,   \* of each file: its lines and the hour of the last one
    hour,
    merged,  \* the backend's sessions after the discovery: the file each is from
    text     \* an assistant's text

transcriptVars == <<files, hour, merged, text>>

LineKinds == {"custom", "ai", "agent", "summary", "assistant", "user"}
Chars == [width : Widths, ends : BOOLEAN]

TranscriptTypeOK ==
    /\ \A f \in Files : files[f].modified \in 0..hour
    /\ \A f \in Files : \A i \in DOMAIN files[f].lines :
          files[f].lines[i] \in [kind : LineKinds, id : SessionIds \cup {NoId}]
    /\ merged \in [SessionIds -> Files \cup {NoId}]
    /\ text \in Seq(Chars)

TranscriptInit ==
    /\ files = [f \in Files |-> [lines |-> <<>>, modified |-> 0]]
    /\ hour = 0
    /\ merged = [s \in SessionIds |-> NoId]
    /\ text = <<>>
-----------------------------------------------------------------------------
(* Discovery.                                                                *)

Recent == {f \in Files : files[f].lines # <<>> /\ files[f].modified + MaxAge >= hour}

\* The orders that a sort by time can give.  Two files of one hour come in any order.
NewestFirst ==
    {q \in [1..Cardinality(Recent) -> Recent] :
        \A i, j \in DOMAIN q : i < j => q[i] # q[j] /\ files[q[i]].modified >= files[q[j]].modified}

\* Mutant: the sort is the wrong way round.
CollectOldest ==
    {SubSeq([i \in DOMAIN q |-> q[Len(q) + 1 - i]], 1, IF Len(q) < MaxFiles THEN Len(q) ELSE MaxFiles) :
        q \in NewestFirst}

CollectRecentFiles ==
    {SubSeq(q, 1, IF Len(q) < MaxFiles THEN Len(q) ELSE MaxFiles) : q \in NewestFirst}

\* parse_transcript: the first id of a file is its session, and without one there is none.
SessionIn(f) ==
    LET with == {i \in DOMAIN files[f].lines : files[f].lines[i].id # NoId}
    IN  IF with = {} THEN NoId
        ELSE files[f].lines[CHOOSE i \in with : \A j \in with : i <= j].id

\* merge_sessions takes them in their order, and leaves a session that is there alone.
Merge(found) ==
    [s \in SessionIds |->
        LET of == {i \in DOMAIN found : SessionIn(found[i]) = s}
        IN  IF merged[s] # NoId \/ of = {} THEN merged[s]
            ELSE found[CHOOSE i \in of : \A j \in of : i <= j]]

\* At the start of the app, before any hook is served.
Discover ==
    /\ \A s \in SessionIds : merged[s] = NoId
    /\ \E found \in CollectRecentFiles : merged' = Merge(found)
    /\ UNCHANGED <<files, hour, text>>

RestartApp ==
    /\ merged' = [s \in SessionIds |-> NoId]
    /\ UNCHANGED <<files, hour, text>>
-----------------------------------------------------------------------------
(* Titles.                                                                   *)

Window(lines) ==
    LET n == Len(lines)
    IN  SubSeq(lines, IF n > MaxWindow THEN n - MaxWindow + 1 ELSE 1, n)

Nothing == 0

\* One line of the loop, at place k of the window.  The slots that have priority
\* are filled once, a summary taking the slot of a custom title; the others by
\* every line.
\* Mutant: the slot of the summary is filled by every line.
FillLatest(slots, kind, k) ==
    [slots EXCEPT !.custom = IF kind = "summary" \/ (@ = Nothing /\ kind = "custom") THEN k ELSE @,
                  !.ai = IF @ = Nothing /\ kind = "ai" THEN k ELSE @,
                  !.agent = IF @ = Nothing /\ kind = "agent" THEN k ELSE @,
                  !.assistant = IF kind = "assistant" THEN k ELSE @,
                  !.user = IF kind = "user" THEN k ELSE @]

Fill(slots, kind, k) ==
    [slots EXCEPT !.custom = IF @ = Nothing /\ kind \in {"custom", "summary"} THEN k ELSE @,
                  !.ai = IF @ = Nothing /\ kind = "ai" THEN k ELSE @,
                  !.agent = IF @ = Nothing /\ kind = "agent" THEN k ELSE @,
                  !.assistant = IF kind = "assistant" THEN k ELSE @,
                  !.user = IF kind = "user" THEN k ELSE @]

Slots(window) ==
    LET after[k \in 0..Len(window)] ==
            IF k = 0 THEN [custom |-> Nothing, ai |-> Nothing, agent |-> Nothing,
                           assistant |-> Nothing, user |-> Nothing]
            ELSE Fill(after[k - 1], window[k].kind, k)
    IN  after[Len(window)]

\* extract_title_from_transcript: the line of the window that the title is from, the
\* first slot that is filled.
ExtractTitle(window) ==
    LET s == Slots(window)
        line == <<s.custom, s.ai, s.agent, s.assistant, s.user>>
        filled == {i \in DOMAIN line : line[i] # Nothing}
    IN  IF filled = {} THEN Nothing ELSE line[CHOOSE i \in filled : \A j \in filled : i <= j]
-----------------------------------------------------------------------------
(* The first sentence of a text.                                             *)

Offset(t, k) ==
    LET at[i \in 0..Len(t)] == IF i = 0 THEN 0 ELSE at[i - 1] + t[i].width
    IN  at[k - 1]
Bytes(t) == Offset(t, Len(t) + 1)

\* The characters at which the loop stops: the end of a sentence, or the first one
\* to begin at the limit or after it.
Stops(t) == {k \in DOMAIN t : t[k].ends \/ Offset(t, k) >= MaxLen}

\* Mutant: at the limit the text is cut at the limit.
CutAtLimit(t) ==
    IF Stops(t) = {} THEN IF Bytes(t) < MaxLen THEN Bytes(t) ELSE MaxLen
    ELSE LET k == CHOOSE i \in Stops(t) : \A j \in Stops(t) : i <= j
         IN  IF t[k].ends THEN Offset(t, k) + t[k].width ELSE MaxLen

\* The byte at which first_sentence cuts.
Cut(t) ==
    IF Stops(t) = {} THEN IF Bytes(t) < MaxLen THEN Bytes(t) ELSE MaxLen
    ELSE LET k == CHOOSE i \in Stops(t) : \A j \in Stops(t) : i <= j
         IN  IF t[k].ends THEN Offset(t, k) + t[k].width ELSE Offset(t, k)

\* A slice that does not begin and end at characters panics.
IsBoundary(t, byte) == byte \in {Offset(t, k) : k \in 1..Len(t) + 1}
-----------------------------------------------------------------------------
AddLine ==
    /\ Cardinality(UNION {{<<f, i>> : i \in DOMAIN files[f].lines} : f \in Files}) < MaxLines
    /\ \E f \in Files, kind \in LineKinds, id \in SessionIds \cup {NoId} :
          files' = [files EXCEPT ![f] = [lines |-> Append(@.lines, [kind |-> kind, id |-> id]),
                                         modified |-> hour]]
    /\ UNCHANGED <<hour, merged, text>>

HourPasses == hour < MaxHour /\ hour' = hour + 1 /\ UNCHANGED <<files, merged, text>>

AddChar ==
    /\ Len(text) < MaxChars
    /\ \E c \in Chars : text' = Append(text, c)
    /\ UNCHANGED <<files, hour, merged>>

TranscriptNext == AddLine \/ HourPasses \/ Discover \/ RestartApp
-----------------------------------------------------------------------------
(* Properties.                                                               *)

\* Of several files of one session, of any number of files, the backend's session is
\* from the newest one: it is never cut off, nor does an older file come first.
NewestFileWins ==
    [][\A s \in SessionIds : merged[s] = NoId /\ merged'[s] # NoId =>
          \A f \in Recent : SessionIn(f) = s => files[f].modified <= files[merged'[s]].modified]_transcriptVars

\* The line of a transcript that its title is from, and how good it is.
TitleLine(lines) ==
    LET n == Len(lines)
        k == ExtractTitle(Window(lines))
    IN  IF k = Nothing THEN Nothing ELSE k + (IF n > MaxWindow THEN n - MaxWindow ELSE 0)
Precedence(line) == [custom |-> 1, summary |-> 1, ai |-> 2, agent |-> 3, assistant |-> 4, user |-> 5][line.kind]

\* A title that is a name stays as the transcript grows, until a better one is
\* written or its line is no longer among the last ones.
TitleIsSteady ==
    [][\A f \in Files :
          LET t == TitleLine(files[f].lines)
              u == TitleLine(files'[f].lines)
          IN  t # Nothing /\ Precedence(files[f].lines[t]) <= 3 /\ u # t
                 => \/ t + MaxWindow <= Len(files'[f].lines)
                    \/ Precedence(files'[f].lines[u]) < Precedence(files[f].lines[t])]_transcriptVars

\* The text is cut between two characters, and so does not panic, unless its last
\* character begins before the limit, ends after it, and nothing ends a sentence.
CutsBetweenCharacters ==
    \/ IsBoundary(text, Cut(text))
    \/ /\ \A k \in DOMAIN text : ~text[k].ends
       /\ Bytes(text) > MaxLen /\ Offset(text, Len(text)) < MaxLen
=============================================================================
