-------------------------- MODULE CommandAnalysis --------------------------
(***************************************************************************)
(* The analysis of a shell command for the approval card                   *)
(* (command_analyzer.rs): the syntax tree is walked for its commands, each *)
(* command's words are explained and marked, and risks are collected from  *)
(* single commands and from neighbours.                                    *)
(*                                                                         *)
(* A script is a sequence of syntax trees, as tree-sitter gives them.  An  *)
(* agent writes it a word and a construct at a time, so that a state is a  *)
(* script and a step makes it longer or wraps its end up.  Words are       *)
(* atoms; what the code finds out by looking into one (is it an option,    *)
(* which letters does it bundle) is a constant.                            *)
(***************************************************************************)
EXTENDS Naturals, SequencesExt

CONSTANTS Commands,    \* words a command begins with
          ArgumentsOf, \* the words that may follow, of each command
          Options,     \* the words that begin with a dash
          LettersOf,   \* of each bundle (-rf): its options one by one
          MaxSize      \* bound: words and constructs in a script, and so its depth

ASSUME AnalysisAssumption ==
    /\ Commands \subseteq DOMAIN ArgumentsOf
    /\ DOMAIN LettersOf \subseteq Options
    /\ MaxSize \in Nat

VARIABLE script

None == 0  Low == 1  Medium == 2  High == 3

Highest(levels) == CHOOSE m \in levels \cup {None} : \A l \in levels : l <= m
Each(Op(_), s) == [i \in DOMAIN s |-> Op(s[i])]
-----------------------------------------------------------------------------
(* Syntax trees, with the names of tree-sitter-bash.  A command has words and *)
(* every other node has children.  What is computed of a node goes by its     *)
(* children, of which it is computed as well.                                 *)

Kinds == {"command", "pipeline", "list", "subshell", "compound_statement", "if_statement",
          "while_statement", "for_statement", "case_statement", "c_style_for_statement",
          "function_definition", "declaration_command", "redirected_statement",
          "negated_command", "do_group", "case_item", "else_clause", "command_substitution"}

Words == Seq(STRING)

NodesOver(kids) ==
    [kind : {"command"}, words : Words \ {<<>>}, kids : kids]
    \cup [kind : Kinds \ {"command"}, words : {<<>>}, kids : kids \ {<<>>}]
Trees[depth \in 0..MaxSize] == IF depth = 0 THEN {} ELSE NodesOver(Seq(Trees[depth - 1]))
Nodes == Trees[MaxSize]
-----------------------------------------------------------------------------
(* The walk.  Kinds that are not listed are not entered: the body of a loop, *)
(* a case, an else, a substitution, and what is redirected but is neither of *)
(* four kinds.                                                               *)

Entered == {"pipeline", "list", "subshell", "compound_statement", "if_statement",
            "while_statement", "for_statement", "case_statement",
            "c_style_for_statement", "function_definition", "declaration_command"}
Redirectable == {"command", "subshell", "pipeline", "list"}

\* extract_command_tokens: the words as they stand, an assignment in front included.
Tokens(node) == node.words

\* collect_segments, of a node whose children have these segments within.
\* Mutant: a list that is redirected is forgotten.
CollectNoList(node, within) ==
    LET kids == node.kids
    IN  CASE node.kind = "command" -> <<Tokens(node)>>
          [] node.kind = "redirected_statement" ->
                FlattenSeq([i \in DOMAIN kids |->
                    IF kids[i].kind \in Redirectable \ {"list"} THEN within[kids[i]] ELSE <<>>])
          [] node.kind = "negated_command" ->
                FlattenSeq([i \in DOMAIN kids |->
                    IF kids[i].kind = "command" THEN <<Tokens(kids[i])>> ELSE <<>>])
          [] node.kind \in Entered -> FlattenSeq([i \in DOMAIN kids |-> within[kids[i]]])
          [] OTHER -> <<>>

CollectSegments(node, within) ==
    LET kids == node.kids
    IN  CASE node.kind = "command" -> <<Tokens(node)>>
          [] node.kind = "redirected_statement" ->
                FlattenSeq([i \in DOMAIN kids |->
                    IF kids[i].kind \in Redirectable THEN within[kids[i]] ELSE <<>>])
          [] node.kind = "negated_command" ->
                FlattenSeq([i \in DOMAIN kids |->
                    IF kids[i].kind = "command" THEN <<Tokens(kids[i])>> ELSE <<>>])
          [] node.kind \in Entered -> FlattenSeq([i \in DOMAIN kids |-> within[kids[i]]])
          [] OTHER -> <<>>

Segments[node \in Nodes] == CollectSegments(node, Segments)

\* Whether the walk leaves out a child of a node, with all that is in it.
Hides(node, kid) ==
    \/ node.kind \notin Entered \cup {"redirected_statement", "negated_command"}
    \/ node.kind = "redirected_statement" /\ kid.kind \notin Redirectable
    \/ node.kind = "negated_command" /\ kid.kind # "command"

HideAll(commands, hidden) == [i \in DOMAIN commands |-> [commands[i] EXCEPT !.hidden = @ \/ hidden]]

\* Every command of a tree in the order of the text, and whether a construct hides it.
CommandsOf(node, within) ==
    (IF node.kind = "command" THEN <<[words |-> node.words, hidden |-> FALSE]>> ELSE <<>>)
    \o FlattenSeq([i \in DOMAIN node.kids |-> HideAll(within[node.kids[i]], Hides(node, node.kids[i]))])

AllCommands[node \in Nodes] == CommandsOf(node, AllCommands)

Written(s) == FlattenSeq([i \in DOMAIN s |-> AllCommands[s[i]]])

\* The words of those that are not hidden.
Seen(commands) ==
    FlattenSeq([i \in DOMAIN commands |-> IF commands[i].hidden THEN <<>> ELSE <<commands[i].words>>])

\* With nothing found the text is split at its blanks, as one command: the words
\* of a keyword or a bracket and all that follows.
FallbackShlex(s) ==
    IF s = <<>> THEN <<>>
    ELSE << <<s[1].kind>> \o FlattenSeq(Each(Tokens, Written(s))) >>

ParseToSegments(s) ==
    LET found == FlattenSeq([i \in DOMAIN s |-> Segments[s[i]]])
    IN  IF found = <<>> THEN FallbackShlex(s) ELSE found
-----------------------------------------------------------------------------
(* Words.                                                                    *)

StripSudo(words) == IF Head(words) = "sudo" THEN Tail(words) ELSE words

\* Mutant: bundles of docker are taken apart too.
ExpandDocker(command, args) ==
    IF command \notin {"rm", "git", "docker"} THEN args
    ELSE FlattenSeq([i \in DOMAIN args |->
            IF args[i] \in DOMAIN LettersOf THEN LettersOf[args[i]] ELSE <<args[i]>>])

\* Bundles are taken apart for rm and git; a bundle of digits (git log -10) has no
\* letters, and goes.
ExpandKnownFlags(command, args) ==
    IF command \notin {"rm", "git"} THEN args
    ELSE FlattenSeq([i \in DOMAIN args |->
            IF args[i] \in DOMAIN LettersOf THEN LettersOf[args[i]] ELSE <<args[i]>>])

\* The words a command's explanation knows, by the mark it puts on them.
Known(high, medium, low, plain) == [high |-> high, medium |-> medium, low |-> low, plain |-> plain]

RmWords == Known({"-r", "/", "*", "."}, {"-f"}, {}, {"-i"})
GitWords == Known({"--hard", "clean"}, {"reset", "-f", "checkout", "restore", "--staged"}, {},
                  {"--soft", "--mixed", "-d", "--", "-C"})
PackageWords == Known({}, {"-g", "--global"}, {"install", "i", "add"}, {"--save-dev", "-D", "--dev"})
DownloadWords == Known({}, {}, {}, {"-fsSL", "-sSL", "-qO-"})
ChmodWords == Known({}, {"777", "a+rwx"}, {}, {"+x"})
ChownWords == Known({}, {"-R"}, {}, {})
FindWords == Known({"-delete"}, {}, {}, {"-name", "-type"})
MvWords == Known({}, {"-f"}, {}, {})
CpWords == Known({}, {"-f"}, {}, {"-r", "-R"})
SleepWords == Known({}, {}, {}, {})
TailWords == Known({}, {}, {}, {"-f", "-n"})
HeadWords == Known({}, {}, {}, {"-n"})
ReaderWords == Known({}, {}, {}, {})
GrepWords == Known({}, {}, {}, {"-r", "-R", "-i", "-n", "-l", "-e"})
AwkWords == Known({}, {}, {}, {"-F"})
SedWords == Known({}, {"-i"}, {}, {"-e"})
LsWords == Known({}, {}, {}, {"-l", "-a", "-la", "-al", "-R"})
CdWords == Known({}, {}, {}, {})
MkdirWords == Known({}, {}, {}, {"-p"})
EchoWords == Known({}, {}, {}, {"-n", "-e"})
DockerWords == Known({}, {"exec", "rm", "rmi", "stop", "kill"}, {"run", "build"},
                     {"-it", "-d", "-v", "-p", "--rm"})
GenericWords == Known({}, {}, {}, {})

KnownWords(command) ==
    CASE command = "rm" -> RmWords [] command = "git" -> GitWords
      [] command \in {"npm", "pnpm", "yarn"} -> PackageWords
      [] command \in {"curl", "wget"} -> DownloadWords
      [] command = "chmod" -> ChmodWords [] command = "chown" -> ChownWords
      [] command = "find" -> FindWords [] command = "mv" -> MvWords [] command = "cp" -> CpWords
      [] command = "sleep" -> SleepWords [] command = "tail" -> TailWords
      [] command = "head" -> HeadWords [] command \in {"cat", "less", "more"} -> ReaderWords
      [] command \in {"grep", "rg"} -> GrepWords [] command = "awk" -> AwkWords
      [] command = "sed" -> SedWords [] command = "ls" -> LsWords [] command = "cd" -> CdWords
      [] command = "mkdir" -> MkdirWords [] command = "echo" -> EchoWords
      [] command = "docker" -> DockerWords [] OTHER -> GenericWords
AllKnown(k) == k.high \cup k.medium \cup k.low \cup k.plain

\* A bundle is one dash and two letters or more, and stands for words of one letter:
\* what rm and git have an explanation for is none.
ASSUME BundlesAssumption ==
    \A w \in DOMAIN LettersOf :
       LettersOf[w] \in Words /\ w \notin AllKnown(RmWords) \cup AllKnown(GitWords)

\* explain_arg: the word, what the card says of it, and its mark.
ExplainArg(command, word) ==
    LET k == KnownWords(command)
    IN  [text |-> word,
         meaning |-> IF word \in AllKnown(k) THEN "known"
                     ELSE IF word \in Options /\ command # "cd" THEN "option" ELSE "operand",
         mark |-> IF word \in k.high THEN High ELSE IF word \in k.medium THEN Medium
                  ELSE IF word \in k.low THEN Low ELSE None]

ParseSegment(words) ==
    LET explained(w) == ExplainArg(Head(words), w)
    IN  [command |-> Head(words), args |-> Each(explained, Tail(words))]
-----------------------------------------------------------------------------
(* Risks.                                                                    *)

Risk(level, what) == [level |-> level, what |-> what, sudo |-> FALSE]
When(condition, level, what) == IF condition THEN {Risk(level, what)} ELSE {}
Texts(node) == {node.args[i].text : i \in DOMAIN node.args}

RmRisks(node) ==
    LET r == "-r" \in Texts(node)  f == "-f" \in Texts(node)
    IN  CASE r /\ f -> {Risk(High, IF Texts(node) \cap {"/", "*", "."} # {} THEN "rm -rf all" ELSE "rm -rf")}
          [] r /\ ~f -> {Risk(High, "rm -r")}
          [] ~r /\ f -> {Risk(Medium, "rm -f")}
          [] OTHER -> {}

\* Mutant: the rule takes checkout -- for a high risk, and its words' marks do not.
GitRisksHarsh(node) ==
    LET has(words) == words \subseteq Texts(node)
    IN  When(has({"reset", "--hard"}), High, "reset") \cup When(has({"clean", "-f"}), High, "clean")
          \cup When(has({"checkout", "--"}), High, "checkout")
          \cup When(has({"restore"}), Medium, IF has({"--staged"}) THEN "unstage" ELSE "restore")

GitRisks(node) ==
    LET has(words) == words \subseteq Texts(node)
    IN  When(has({"reset", "--hard"}), High, "reset") \cup When(has({"clean", "-f"}), High, "clean")
          \cup When(has({"checkout", "--"}), Medium, "checkout")
          \cup When(has({"restore"}), Medium, IF has({"--staged"}) THEN "unstage" ELSE "restore")

DetectNodeRisks(node) ==
    CASE node.command = "rm" -> RmRisks(node)
      [] node.command = "git" -> GitRisks(node)
      [] node.command = "chmod" -> When(Texts(node) \cap {"777", "a+rwx"} # {}, Medium, "chmod")
      [] node.command = "find" -> When("-delete" \in Texts(node), High, "delete")
      [] node.command \in {"npm", "pnpm", "yarn"} ->
            When(Texts(node) \cap {"install", "i", "add"} # {}, Low, "install")
      [] OTHER -> {}

\* A download with a shell right after it, whatever connects the two.
DetectChainRisks(commands) ==
    {Risk(High, "download and run") : i \in
        {j \in 1..Len(commands) - 1 : /\ commands[j].command \in {"curl", "wget"}
                                      /\ commands[j + 1].command \in {"sh", "bash", "dash", "zsh"}}}

\* Mutant: what makes a risk worse takes its place.
SudoReplaces(risks) ==
    {[r EXCEPT !.level = Medium, !.sudo = TRUE] : r \in {s \in risks : s.level = High}}
       \cup {Risk(Medium, "sudo")}

ApplySudoRisk(risks) ==
    {[r EXCEPT !.sudo = r.level = High] : r \in risks} \cup {Risk(Medium, "sudo")}

Summarize(commands, risks) ==
    IF commands = <<>> THEN [text |-> "empty", level |-> None]
    ELSE [text |-> IF Len(commands) = 1 THEN commands[1].command ELSE "several",
          level |-> Highest({r.level : r \in risks})]

\* A command without its sudo, or none, when the sudo is all there is.
ParseBare(words) ==
    IF words = <<>> THEN <<>>
    ELSE <<ParseSegment(<<Head(words)>> \o ExpandKnownFlags(Head(words), Tail(words)))>>

AnalyzeCommand(s) ==
    LET segments == ParseToSegments(s)
        commands == FlattenSeq([i \in DOMAIN segments |-> ParseBare(StripSudo(segments[i]))])
        risks == DetectChainRisks(commands) \cup UNION {DetectNodeRisks(c) : c \in ToSet(commands)}
        all == IF \E w \in ToSet(segments) : Head(w) = "sudo" THEN ApplySudoRisk(risks) ELSE risks
    IN  [commands |-> commands, risks |-> all, summary |-> Summarize(commands, all)]

LevelOf(s) == Highest({r.level : r \in AnalyzeCommand(s).risks})
-----------------------------------------------------------------------------
(* What an agent writes.                                                     *)

Node(kind, kids) == [kind |-> kind, words |-> <<>>, kids |-> kids]
Command(words, kids) == [kind |-> "command", words |-> words, kids |-> kids]

Ran(words) == IF words[1] \in {"sudo", "X=1"} /\ Len(words) > 1 THEN words[2] ELSE words[1]

PartsOf(node, within) ==
    node.words \o (IF node.kids = <<>> THEN <<>>
                   ELSE <<node.kind>> \o FlattenSeq([i \in DOMAIN node.kids |-> within[node.kids[i]]]))
Parts[node \in Nodes] == PartsOf(node, Parts)
WithinBounds(s) ==
    s \in Seq(Nodes) /\ Len(FlattenSeq([i \in DOMAIN s |-> Parts[s[i]]])) <= MaxSize

Begin ==
    /\ \E c \in Commands :
          \E words \in {<<c>>} \cup (IF c = "sudo" THEN {} ELSE {<<"X=1", c>>}) :
             script' = Append(script, Command(words, <<>>))
    /\ WithinBounds(script')

Word ==
    /\ script # <<>> /\ script[Len(script)].kind = "command" /\ script[Len(script)].kids = <<>>
    /\ \E w \in ArgumentsOf[Ran(script[Len(script)].words)] :
          script' = [script EXCEPT ![Len(script)].words = Append(@, w)]
    /\ WithinBounds(script')

Simple == {"command", "subshell", "compound_statement", "redirected_statement",
           "if_statement", "while_statement", "for_statement"}

\* The constructs that the last nodes a, or a and b, can be wrapped up in.
Wraps1(a) ==
    {Node(k, <<a>>) : k \in {"subshell", "compound_statement"}}
    \cup {Node("redirected_statement", <<x>>) : x \in {y \in {a} : y.kind # "redirected_statement"}}
    \cup {Node("negated_command", <<x>>) : x \in {y \in {a} : y.kind \in {"command", "subshell"}}}
    \cup {Node("for_statement", <<Node("do_group", <<a>>)>>),
          Node("case_statement", <<Node("case_item", <<a>>)>>),
          Node("function_definition", <<Node("compound_statement", <<a>>)>>),
          Command(<<"echo", "$()">>, <<Node("command_substitution", <<a>>)>>)}

Wraps2(a, b) ==
    {Node("pipeline", <<x, b>>) : x \in {y \in {a} : y.kind \in Simple /\ b.kind \in Simple}}
    \cup {Node("list", <<x, b>>) : x \in {y \in {a} : b.kind # "list"}}
    \cup {Node("while_statement", <<a, Node("do_group", <<b>>)>>),
          Node("if_statement", <<a, b>>),
          Node("if_statement", <<a, Command(<<"true">>, <<>>), Node("else_clause", <<b>>)>>)}

Enclose ==
    LET n == Len(script) IN
    /\ \/ /\ n >= 1
          /\ \E w \in Wraps1(script[n]) : script' = SubSeq(script, 1, n - 1) \o <<w>>
       \/ /\ n >= 2
          /\ \E w \in Wraps2(script[n - 1], script[n]) : script' = SubSeq(script, 1, n - 2) \o <<w>>
    /\ WithinBounds(script')
-----------------------------------------------------------------------------
(* Properties.                                                               *)

\* The commands the analysis finds are those written outside the constructs it
\* does not enter, each once and in order: neighbours are told by it.
SegmentsInOrder ==
    LET seen == Seen(Written(script))
    IN  seen # <<>> => ParseToSegments(script) = seen

\* Every risk of a single command shows on one of its words: the highest mark on
\* the words is never below the risk that the rules see.
MarksCoverRisks ==
    \A c \in ToSet(AnalyzeCommand(script).commands) :
       Highest({r.level : r \in DetectNodeRisks(c)}) <= Highest({c.args[i].mark : i \in DOMAIN c.args})

\* A word that a command's explanation knows is explained as that, in whatever
\* bundle or position it was written: nothing takes it apart or drops it first.
KnownWordsExplained ==
    LET found == ToSet(AnalyzeCommand(script).commands) IN
    \A c \in ToSet(Written(script)) : \A i \in 2..Len(c.words) :
       ~c.hidden /\ c.words[i] \in AllKnown(KnownWords(c.words[1]))
          => \E node \in found : \E j \in DOMAIN node.args :
                node.command = c.words[1] /\ node.args[j].text = c.words[i]

\* Writing on never makes a script look less dangerous, unless the step puts a
\* command where the walk does not go: more words, another command or a construct
\* around it keep the level, and so does a sudo anywhere.
RiskOnlyGrows ==
    [][\/ LevelOf(script') >= LevelOf(script)
       \/ \E c \in ToSet(Written(script')) : c.hidden]_script
=============================================================================
