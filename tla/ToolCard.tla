------------------------------ MODULE ToolCard ------------------------------
(***************************************************************************)
(* The card of a tool call that waits for approval: its risk, its action,  *)
(* its diff and its questions.  The HTTP server (hook_server.rs) and the   *)
(* pipe server (pipe_server.rs) each have their own copies of the four     *)
(* functions, translated here one by one.                                  *)
(*                                                                         *)
(* The risk of a card goes by the words that the text of a command or a    *)
(* path contains, while the analysis of the same card goes by its syntax   *)
(* (module CommandAnalysis).                                               *)
(***************************************************************************)
EXTENDS CommandAnalysis

CONSTANTS KeysIn,     \* of each word and path: the key words in its text
          Paths, Tools  \* file paths and names of tools

\* A text in which rm is followed by another word contains the key word for it.
ASSUME CardAssumption == "rm" \in DOMAIN KeysIn /\ "rm " \in KeysIn["rm"]

VARIABLE call           \* a call of another tool than Bash, or NoCall

Absent == "absent"
NotText == "not text"   \* a field that is there and is no string
Text(field) == IF field = NotText THEN Absent ELSE field
Or(field, default) == IF field = Absent THEN default ELSE field

\* Key words that end in a blank match only when a word follows.
Blank == {"rm ", "del ", "su ", "dd "}

\* Mutant: the words of the commands that the analysis found are looked at instead.
TextHasSeen(s, keywords) ==
    \E words \in ToSet(ParseToSegments(s)) : \E i \in DOMAIN words :
       \E k \in KeysIn[words[i]] \cap keywords : k \notin Blank \/ i < Len(words)

TextHas(s, keywords) ==
    \E c \in ToSet(Written(s)) : \E i \in DOMAIN c.words :
       \E k \in KeysIn[c.words[i]] \cap keywords : k \notin Blank \/ i < Len(c.words)
-----------------------------------------------------------------------------
(* hook_server.rs                                                            *)

HttpRisk(tool, input) ==
    CASE tool = "Bash" ->
            IF TextHas(input.command, {"rm ", "rmdir", "del ", "format", "shutdown", "reboot", "sudo",
                                       "su ", "chmod", "chown", "mkfs", "dd "})
            THEN High ELSE Medium
      [] tool \in {"Write", "Edit"} ->
            IF input.path # Absent
               /\ KeysIn[input.path] \cap {".env", "config", "secret", "credential", "password", "key"} # {}
            THEN High ELSE Medium
      [] tool \in {"Read", "Glob", "Grep", "LS"} -> Low
      [] OTHER -> Medium

HttpAction(tool, input) ==
    CASE tool = "Bash" -> <<"Execute", Or(input.command, "unknown command"), input.description>>
      [] tool = "Read" -> <<"Read file", Or(input.path, "unknown file")>>
      [] tool = "Write" -> <<"Write file", Or(input.path, "unknown file")>>
      [] tool = "Edit" -> <<"Edit file", Or(input.path, "unknown file")>>
      [] tool = "Glob" -> <<"Find files", Or(input.pattern, "unknown pattern")>>
      [] tool = "Grep" -> <<"Search", Or(input.pattern, "unknown pattern")>>
      [] OTHER -> <<"Execute tool", tool>>

\* The new text is the content if there is that field, and else the new string.
HttpDiff(tool, input) ==
    LET new == Text(IF input.content = Absent THEN input.new_string ELSE input.content)
    IN  IF tool \in {"Write", "Edit"} /\ input.path # Absent /\ new # Absent
        THEN <<input.path, IF input.old_string = Absent THEN "" ELSE input.old_string, new>>
        ELSE <<>>

HttpQuestions(input) ==
    [i \in DOMAIN input.questions |->
        LET q == input.questions[i]
        IN  [question |-> IF q.question = Absent THEN "" ELSE q.question,
             multi |-> q.multi = "true", options |-> q.options]]
-----------------------------------------------------------------------------
(* pipe_server.rs                                                            *)

\* Mutant: the copy was not kept up to date.
PipeRiskOld(tool, input) ==
    CASE tool = "Bash" ->
            IF TextHas(input.command, {"rmdir", "del ", "format", "shutdown", "reboot", "sudo",
                                       "su ", "chmod", "chown", "mkfs", "dd "})
            THEN High ELSE Medium
      [] tool \in {"Read", "Glob", "Grep", "LS"} -> Low
      [] OTHER -> Medium

PipeRisk(tool, input) ==
    CASE tool = "Bash" ->
            IF TextHas(input.command, {"rm ", "rmdir", "del ", "format", "shutdown", "reboot", "sudo",
                                       "su ", "chmod", "chown", "mkfs", "dd "})
            THEN High ELSE Medium
      [] tool \in {"Write", "Edit"} ->
            IF input.path # Absent
               /\ KeysIn[input.path] \cap {".env", "config", "secret", "credential", "password", "key"} # {}
            THEN High ELSE Medium
      [] tool \in {"Read", "Glob", "Grep", "LS"} -> Low
      [] OTHER -> Medium

PipeAction(tool, input) ==
    CASE tool = "Bash" -> <<"Execute", Or(input.command, "unknown command"), input.description>>
      [] tool = "Read" -> <<"Read file", Or(input.path, "unknown")>>
      [] tool = "Write" -> <<"Write file", Or(input.path, "unknown")>>
      [] tool = "Edit" -> <<"Edit file", Or(input.path, "unknown")>>
      [] tool = "Glob" -> <<"Find files", Or(input.pattern, "unknown")>>
      [] tool = "Grep" -> <<"Search", Or(input.pattern, "unknown")>>
      [] OTHER -> <<"Execute tool", tool>>

PipeDiff(tool, input) ==
    LET new == Text(IF input.content = Absent THEN input.new_string ELSE input.content)
    IN  IF tool \in {"Write", "Edit"} /\ input.path # Absent /\ new # Absent
        THEN <<input.path, IF input.old_string = Absent THEN "" ELSE input.old_string, new>>
        ELSE <<>>

PipeQuestions(input) ==
    [i \in DOMAIN input.questions |->
        LET q == input.questions[i]
        IN  [question |-> IF q.question = Absent THEN "" ELSE q.question,
             multi |-> q.multi = "true", options |-> q.options]]
-----------------------------------------------------------------------------
NoCall == [tool |-> "none"]

\* No array of questions, or an empty one, and no options in one, are <<>>.
Questions == {<<>>, <<[question |-> Absent, multi |-> Absent, options |-> <<>>]>>,
              <<[question |-> "Which?", multi |-> "true", options |-> <<"A", "B">>]>>}

Input == [path : Paths \cup {Absent}, pattern : {Absent, "*.rs"},
          content : {Absent, NotText, "new"}, new_string : {Absent, "edit"},
          old_string : {Absent, "old"}, questions : Questions]

BashCall == [tool |-> "Bash", input |-> [command |-> script, description |-> Absent,
                                         questions |-> <<>>]]

Http(c) == [risk |-> HttpRisk(c.tool, c.input), action |-> HttpAction(c.tool, c.input),
            diff |-> HttpDiff(c.tool, c.input),
            questions |-> IF c.tool = "AskUserQuestion" THEN HttpQuestions(c.input) ELSE <<>>]
Pipe(c) == [risk |-> PipeRisk(c.tool, c.input), action |-> PipeAction(c.tool, c.input),
            diff |-> PipeDiff(c.tool, c.input),
            questions |-> IF c.tool = "AskUserQuestion" THEN PipeQuestions(c.input) ELSE <<>>]

cardVars == <<script, call>>

CardInit == script = <<>> /\ call = NoCall

Ask ==
    /\ script = <<>> /\ call = NoCall
    /\ \E tool \in Tools, input \in Input : call' = [tool |-> tool, input |-> input]
    /\ UNCHANGED script

Write == call = NoCall /\ (Begin \/ Word \/ Enclose) /\ UNCHANGED call

CardNext == Ask \/ Write
CardSpec == CardInit /\ [][CardNext]_cardVars
-----------------------------------------------------------------------------
(* Properties.                                                               *)

\* The action of the call names a field that the call does not have.
NamesNothing(c) ==
    \/ c.tool \in {"Read", "Write", "Edit"} /\ c.input.path = Absent
    \/ c.tool \in {"Glob", "Grep"} /\ c.input.pattern = Absent

\* The same call gets the same risk, diff and questions, whichever of the two servers
\* it came through, and an action of the same kind; the action is the same word for
\* word unless it names a field that the call lacks, for which the two copies have
\* different words ("unknown file", "unknown pattern" and "unknown").
TransportsAgree ==
    \A c \in {BashCall, call} \ {NoCall} :
       LET http == Http(c)
           pipe == Pipe(c)
       IN  /\ http.risk = pipe.risk /\ http.diff = pipe.diff /\ http.questions = pipe.questions
           /\ http.action[1] = pipe.action[1]
           /\ NamesNothing(c) \/ http.action = pipe.action

Bare(words) == IF words[1] \in {"sudo", "X=1"} THEN Tail(words) ELSE words

DangerousAlone(words) ==
    /\ words # <<>>
    /\ \E r \in DetectNodeRisks(ParseSegment(<<words[1]>> \o ExpandKnownFlags(words[1], Tail(words)))) :
          r.level = High

\* What the card's two looks at a command leave unseen together: a command that is
\* dangerous on its own makes the risk of the card or of the analysis high, however
\* deep in the script it stands.  Only git and find can escape, hidden in a
\* construct that the walk does not enter or behind an assignment.
DangerIsShown ==
    \A c \in ToSet(Written(script)) :
       DangerousAlone(Bare(c.words))
          => \/ LevelOf(script) = High \/ HttpRisk("Bash", BashCall.input) = High
             \/ /\ Bare(c.words)[1] \in {"git", "find"}
                /\ c.hidden \/ c.words[1] = "X=1"
=============================================================================
