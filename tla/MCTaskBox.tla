----------------------------- MODULE MCTaskBox -----------------------------
(***************************************************************************)
(* TaskBox with a few sources, paths and tasks for TLC.                    *)
(***************************************************************************)
EXTENDS TaskBox

SomeNames == {"work", "tmp", "usr", "data", "a", "b"}
SomeSources == {"dir", "file", "deep", "gone", "device", "here", "lib"}
SomeKinds ==
  [s \in SomeSources |->
     CASE s \in {"dir", "deep", "lib"} -> "directory"
       [] s = "file" -> "file"
       [] s = "gone" -> "absent"
       [] s = "device" -> "other"
       [] s = "here" -> "relative"]
DeepSources == {"deep"}
StandardMounts == <<[to |-> <<"usr">>, from |-> "lib"]>>
ScratchPaths == {<<"tmp", "a">>, <<"tmp", "a", "b">>}

Targets == {<<"work", "a">>, <<"work", "a", "b">>, <<"tmp", "a">>,
            <<"tmp", "a", "b">>, <<"tmp", "b", "a">>,
            <<"data">>, <<"data", "a">>, <<"usr", "a">>}

\* Every bind of a kind that can be mounted at every path, and one of every
\* kind that cannot.
BindsToTry ==
  [to : Targets, from : {"dir", "file"}, optional : {FALSE}]
    \cup [to : {<<"work", "a">>}, from : {"deep", "device", "here"},
          optional : {FALSE}]
    \cup [to : {<<"tmp", "a">>}, from : {"gone"}, optional : BOOLEAN]
    \cup [to : {Out}, from : {"dir"}, optional : {FALSE}]

NoEnv == [count |-> 0, size |-> 0, bare |-> FALSE]

\* Tasks with up to two binds; and without binds, environments and arguments
\* at their limits and beyond.
TasksToTry ==
  [argv : {NoEnv}, env : {NoEnv}, binds : SeqOf(BindsToTry, 2)]
    \cup [argv : {[count |-> 2, size |-> 3, bare |-> FALSE],
                  [count |-> 3, size |-> 3, bare |-> FALSE]},
          env : [count : 1..4, size : {3, 5, 6}, bare : BOOLEAN],
          binds : {<<>>}]
=============================================================================
