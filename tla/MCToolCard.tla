----------------------------- MODULE MCToolCard -----------------------------
(* Nine commands with the words that matter to them, a path of each kind, and  *)
(* scripts of five words and constructs.                                      *)
EXTENDS ToolCard, TLC

MCArgumentsOf ==
    [c \in {"rm"} |-> {"-r", "-f", "-rf", "/", "src"}]
    @@ [c \in {"git"} |-> {"reset", "--hard", "clean", "-fd", "checkout", "--", "restore", "--staged", "-10", "add"}]
    @@ [c \in {"docker"} |-> {"-it"}] @@ [c \in {"find"} |-> {"-delete"}]
    @@ [c \in {"npm"} |-> {"install"}] @@ [c \in {"chmod"} |-> {"777"}]
    @@ [c \in {"curl"} |-> {"-fsSL"}] @@ [c \in {"sh"} |-> {}]
    @@ [c \in {"sudo"} |-> {"rm", "git", "sh"}] @@ [c \in {"echo", "true"} |-> {}]
MCCommands == {"rm", "git", "docker", "find", "npm", "chmod", "curl", "sh", "sudo"}
MCOptions == {"-r", "-f", "-rf", "--hard", "-fd", "--", "--staged", "-10", "-it", "-delete", "-fsSL"}
MCLettersOf == ("-rf" :> <<"-r", "-f">>) @@ ("-fd" :> <<"-f", "-d">>) @@ ("-10" :> <<>>)
               @@ ("-it" :> <<"-i", "-t">>) @@ ("-delete" :> <<"-d", "-e", "-l", "-e", "-t", "-e">>)
               @@ ("-fsSL" :> <<"-f", "-s", "-S", "-L">>)

MCPaths == {"src/main.rs", "config.toml", "keyboard.rs"}
MCTools == {"Write", "Edit", "Read", "Glob", "Grep", "Task", "AskUserQuestion"}

\* The key words that the lower-case text of a word or path has in it.
MCWords == MCCommands \cup UNION {MCArgumentsOf[c] : c \in DOMAIN MCArgumentsOf}
MCKeysIn ==
    [w \in {"rm"} |-> {"rm "}] @@ [w \in {"sudo"} |-> {"sudo"}] @@ [w \in {"chmod"} |-> {"chmod"}]
    @@ [w \in {"add"} |-> {"dd "}] @@ [w \in {"config.toml"} |-> {"config"}]
    @@ [w \in {"keyboard.rs"} |-> {"key"}]
    @@ [w \in MCWords \cup MCPaths \cup {"X=1", "echo", "true", "$()", "redirected_statement",
                                       "negated_command"} \cup Entered |-> {}]
=============================================================================
