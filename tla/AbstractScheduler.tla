------------------------- MODULE AbstractScheduler --------------------------
(***************************************************************************)
(* What any scheduler of mp5 promises, whatever its scheme: jobs are on    *)
(* cores, waiting, or done; a core is given a waiting job whenever there   *)
(* is one, and a job is done when it has left its core for good.  Which    *)
(* job is chosen is left open.                                             *)
(***************************************************************************)
EXTENDS Integers

CONSTANTS Job, Core, NoJob

VARIABLES on, waiting, done

Running == {on[c] : c \in Core} \ {NoJob}
Idle == {c \in Core : on[c] = NoJob}

AbsInit == /\ on = [c \in Core |-> NoJob]
           /\ waiting = {} /\ done = {}

\* A new job takes an idle core; if there is none, it or a running one waits.
Arrive(j) ==
  /\ j \notin Running \cup waiting \cup done
  /\ \/ /\ \E c \in Idle : on' = [on EXCEPT ![c] = j]
        /\ UNCHANGED waiting
     \/ /\ Idle = {}
        /\ waiting' = waiting \cup {j}
        /\ UNCHANGED on
     \/ /\ Idle = {}
        /\ \E c \in Core : /\ on' = [on EXCEPT ![c] = j]
                           /\ waiting' = waiting \cup {on[c]}
  /\ UNCHANGED done

\* Core c goes to one of the jobs W that can wait no longer than there is a core.
Serve(c, W) ==
  \/ /\ W = {}
     /\ on' = [on EXCEPT ![c] = NoJob]
     /\ waiting' = {}
  \/ \E j \in W : /\ on' = [on EXCEPT ![c] = j]
                  /\ waiting' = W \ {j}

Finish(c) == /\ c \notin Idle
             /\ done' = done \cup {on[c]}
             /\ Serve(c, waiting)

Rotate(c) == /\ c \notin Idle
             /\ Serve(c, waiting \cup {on[c]})
             /\ UNCHANGED done

AbsNext == \/ \E j \in Job : Arrive(j)
           \/ \E c \in Core : Finish(c) \/ Rotate(c)

AbsSpec == AbsInit /\ [][AbsNext]_<< on, waiting, done >>
=============================================================================
