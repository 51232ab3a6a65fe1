----------------------------- MODULE MCPollset ------------------------------
(***************************************************************************)
(* An instance of Pollset for TLC: one usage of the descriptors, one of    *)
(* the timeouts, and one of the other threads and signals.                 *)
(***************************************************************************)
EXTENDS Pollset

none == [fds |-> {}, injects |-> {}, signals |-> {}, dues |-> {}, maxOps |-> 0,
         maxArrivals |-> 0, maxTime |-> 0]

\* Entries are added and removed in the middle of a round, and moved.
descriptors == [none EXCEPT !.fds = {3, 4}, !.maxOps = 3]

\* Timeouts before, at and after the one that is running.
timers == [none EXCEPT !.dues = 0 .. 1, !.maxOps = 4, !.maxTime = 1]

\* Three callbacks are injected while a signal comes and goes.
threads == [none EXCEPT !.injects = {"a", "b", "c"}, !.signals = {1}, !.maxOps = 1,
                    !.maxArrivals = 1]

\* Two signals arrive again and again, change hands and are given up.
signals == [none EXCEPT !.signals = {1, 2}, !.maxOps = 4, !.maxArrivals = 2]

MCUsages == {descriptors, timers, threads, signals}
=============================================================================
