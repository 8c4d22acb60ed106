------------------------------ MODULE Services ------------------------------
(***************************************************************************)
(* The background services together.  They are started in a row by the     *)
(* setup of the app (lib.rs) and by commands of their own, and share       *)
(* nothing: an execution of the three is an interleaving of one of each,   *)
(* and no property speaks of two.  focus is the service whose execution is *)
(* followed; the others rest.                                              *)
(***************************************************************************)
EXTENDS ProcessWatcher, PipeServer, HookServer

VARIABLE focus

vars == <<watcherVars, pipeVars, hookServerVars, focus>>

ServicesTypeOK == WatcherTypeOK /\ PipeTypeOK /\ HookServerTypeOK

Init ==
    /\ focus \in {"watcher", "pipe", "hookServer"}
    /\ WatcherInit /\ PipeInit /\ HookServerInit
    /\ focus # "watcher" => Live = {}

Next ==
    /\ \/ focus = "watcher" /\ WatcherNext /\ UNCHANGED <<pipeVars, hookServerVars>>
       \/ focus = "pipe" /\ PipeNext /\ UNCHANGED <<watcherVars, hookServerVars>>
       \/ focus = "hookServer" /\ HookServerNext /\ UNCHANGED <<watcherVars, pipeVars>>
    /\ UNCHANGED focus

Spec == Init /\ [][Next]_vars

\* Each service is scheduled only where it is followed.
FairSpec ==
    /\ Spec
    /\ focus = "watcher" => WatcherFairness
    /\ focus = "pipe" => PipeFairness
=============================================================================
