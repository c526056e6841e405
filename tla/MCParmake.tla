----------------------------- MODULE MCParmake ------------------------------
(***************************************************************************)
(* Makefiles for Parmake: rules before and after what they depend on, a    *)
(* line with two targets, a diamond, a rule without commands, rules that   *)
(* the targets do not need, and disks from empty to complete.              *)
(***************************************************************************)
EXTENDS Parmake

Line(targets, deps, commands) == [targets |-> targets, deps |-> deps, commands |-> commands]

Diamond == << Line(<< "obj" >>, << "src" >>, 2),
              Line(<< "left", "right" >>, << "obj", "src" >>, 1),
              Line(<< "all" >>, << "left", "right", "src" >>, 1),
              Line(<< "other" >>, << "src" >>, 1),
              Line(<< "unused" >>, << "obj" >>, 1) >>
TopFirst == << Line(<< "all" >>, << "left", "right" >>, 0),
               Line(<< "right" >>, << "src" >>, 1),
               Line(<< "left" >>, << "obj" >>, 1),
               Line(<< "obj" >>, << "src", "right" >>, 1) >>

Names == {"src", "obj", "left", "right", "all", "other", "unused"}
Times == 0..1

\* Disks on which src has some time, and each of `names' has one or is missing.
Disks(names) ==
  {d \in [Names -> Times \cup {Absent}] :
     d["src"] # Absent /\ \A n \in Names \ (names \cup {"src"}) : d[n] = Absent}

InputsWith(disks) ==
  {[lines |-> l, targets |-> t, disk |-> d, clock |-> 1, failing |-> f] :
     l \in {Diamond, TopFirst}, t \in {<< "all" >>, << "right", "left" >>, << "other", "all" >>},
     d \in disks, f \in {{}, {"left"}}}

\* Builds in which no file that a rule has to write for another is there yet.
CleanInputs == InputsWith(Disks({"all", "other"}))
\* A build from nothing, of the targets of the first line.
FirstBuild == {[i EXCEPT !.targets = << >>] : i \in {j \in CleanInputs : /\ j.lines = TopFirst
                                                                     /\ j.failing = {}
                                                                     /\ j.disk["all"] = Absent}}
=============================================================================
