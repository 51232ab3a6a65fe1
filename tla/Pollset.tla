------------------------------ MODULE Pollset -------------------------------
(***************************************************************************)
(* The event loop of the XDR library: pollset with its file descriptors    *)
(* and timeouts, pollset_plus with callbacks injected by other threads and *)
(* with signals.                                                           *)
(*                                                                         *)
(* One thread runs the loop.  Other threads inject callbacks; a signal     *)
(* handler runs on any thread, between any two steps of the loop; another  *)
(* pollset of the process may steal a signal.  The self-pipe carries one   *)
(* byte per wake-up.  What a callback does is not known: it may change the *)
(* descriptors, the timeouts and the signals in one of the ways the        *)
(* interface allows.  A callback that throws ends the program.  A timeout  *)
(* that takes itself out is erased twice, which is undefined: the loop is  *)
(* followed no further.                                                    *)
(***************************************************************************)
EXTENDS Integers, Sequences, FiniteSets, SequencesExt

CONSTANTS
    Usages,     \* what a program does with the loop: records with
                \*   fds, injects, signals  the descriptors, injected callbacks and
                \*                          signals in use
                \*   dues                   the times its timeouts are set to
                \*   maxOps                 bound: calls callbacks make
                \*   maxArrivals            bound: arrivals of a signal
                \*   maxTime                bound: the last reading of the clock
    SelfPipe    \* selfpipe_[0]

\* The self-pipe is private to the loop; times are in milliseconds.
ASSUME UsagesAssumption == \A u \in Usages : SelfPipe \notin u.fds /\ u.dues \subseteq Nat

Reading == {"Read", "Hup"}      \* POLLIN|POLLHUP|POLLERR
Writing == {"Write", "Hup"}     \* POLLOUT|POLLHUP|POLLERR
Dirs    == {"Read", "Write"}
Kinds   == {"always", "once"}   \* Read and Write, ReadOnce and WriteOnce

\* A single callback.
only(dir, kind) == [d \in Dirs |-> IF d = dir THEN kind ELSE "none"]

VARIABLES
    usage,          \* which of the usages this is: it stays
    table,          \* [fds: pollfds_, cbs: state_], the two views of the descriptors;
                    \* state_ has the place in pollfds_ and the callback of either kind
    phase,          \* where poll() is
    at, left,       \* i and r in poll()
    now,            \* the clock
    time_cbs,       \* pending timeouts: <<due, number>>, in the order of the multimap
    current, clock, \* in run_timeouts: the timeout being run, the time read
    timeouts,       \* how many timeouts have been set
    pipe,           \* the bytes in the self-pipe
    async_cbs,      \* injected callbacks
    async_pending,
    running,        \* in run_pending_asyncs: the callbacks taken out
    done,           \* injected callbacks that have run
    flags,          \* signal_flags
    owner,          \* signal_owners: "loop", "other" or "none"
    handler,        \* where the signal's handler is: "out", "wake" or "leave"
    signal_pending,
    handling,       \* in run_subtype_handlers: the signals still to be looked at
    woken,          \* the other pollset has a wake-up in its own pipe
    arrivals, ops   \* counters for the bounds

timeVars   == <<now, time_cbs, timeouts>>
asyncVars  == <<async_cbs, async_pending, running, done>>
signalVars == <<flags, owner, handler, signal_pending, handling, woken, arrivals>>
loopVars   == <<phase, at, left, current, clock>>
vars == <<usage, table, loopVars, timeVars, pipe, asyncVars, signalVars, ops>>

Normal == "normal"      \* wake_type
Signal == "signal"

Init ==
    /\ usage \in Usages
    /\ table = [fds |-> <<[fd |-> SelfPipe, events |-> {"Read"}, revents |-> {}]>>,
                cbs |-> [f \in {SelfPipe} |-> [idx |-> 1, cb |-> only("Read", "always")]]]
    /\ phase = "idle" /\ at = 0 /\ left = 0 /\ current = <<0, 0>> /\ clock = 0
    /\ now = 0 /\ time_cbs = {} /\ timeouts = 0
    /\ pipe = << >> /\ async_cbs = << >> /\ async_pending = FALSE /\ running = << >> /\ done = << >>
    /\ flags = [s \in usage.signals |-> 0] /\ owner = [s \in usage.signals |-> "none"]
    /\ handler = [s \in usage.signals |-> "out"]
    /\ signal_pending = FALSE /\ handling = {} /\ woken = FALSE
    /\ arrivals = [s \in usage.signals |-> 0] /\ ops = 0

-----------------------------------------------------------------------------
(***************************************************************************)
(* The descriptors: pollfds_ is what ::poll is given, state_ has the       *)
(* callbacks and the place of a descriptor in pollfds_.                    *)
(***************************************************************************)
fd_cb(t, f, d, k) ==
    IF f \in DOMAIN t.cbs
      THEN [fds |-> [t.fds EXCEPT ![t.cbs[f].idx].events = @ \union {d}],
            cbs |-> [t.cbs EXCEPT ![f].cb[d] = k]]
      ELSE [fds |-> Append(t.fds, [fd |-> f, events |-> {d}, revents |-> {}]),
            cbs |-> [g \in DOMAIN t.cbs \union {f} |->
                       IF g = f THEN [idx |-> Len(t.fds) + 1, cb |-> only(d, k)]
                       ELSE t.cbs[g]]]

\* fd_cb without a callback: the entry stays until the next consolidate().
fd_cb_null(t, f, ds) ==
    IF f \notin DOMAIN t.cbs THEN t
    ELSE [fds |-> [t.fds EXCEPT ![t.cbs[f].idx].events = @ \ ds],
          cbs |-> [t.cbs EXCEPT ![f].cb = [d \in Dirs |-> IF d \in ds THEN "none" ELSE @[d]]]]

\* A callback that is to run once is taken out before it runs.
take_out(t, f, d) == IF t.cbs[f].cb[d] = "once" THEN fd_cb_null(t, f, {d}) ELSE t

Without(t, f) == [g \in DOMAIN t.cbs \ {f} |-> t.cbs[g]]

\* Variant: the entry that moves keeps its old place in state_.
fill_hole_Stale(t, i) ==
    IF t.fds[i].events # {} THEN t
    ELSE [fds |-> Front([t.fds EXCEPT ![i] = Last(t.fds)]), cbs |-> Without(t, t.fds[i].fd)]

\* One step of the second loop: the last entry takes the place of a dead one.
fill_hole(t, i) ==
    IF t.fds[i].events # {} THEN t
    ELSE [fds |-> Front([t.fds EXCEPT ![i] = Last(t.fds)]),
          cbs |-> [Without(t, t.fds[i].fd) EXCEPT ![Last(t.fds).fd].idx = i]]

\* The first loop: dead entries at the end go.
LastAlive(t) == CHOOSE n \in 1 .. Len(t.fds) :
    t.fds[n].events # {} /\ \A m \in n + 1 .. Len(t.fds) : t.fds[m].events = {}

trim(t) ==
    LET kept == SubSeq(t.fds, 1, LastAlive(t)) IN
    [fds |-> kept, cbs |-> [f \in {kept[n].fd : n \in DOMAIN kept} |-> t.cbs[f]]]

\* From the last but one entry down to the first.
consolidate(t) ==
    LET trimmed == trim(t)
        down[i \in 0 .. Len(trimmed.fds) - 1] ==     \* after i steps
          IF i = 0 THEN trimmed ELSE fill_hole(down[i - 1], Len(trimmed.fds) - i)
    IN  down[Len(trimmed.fds) - 1]

-----------------------------------------------------------------------------
(***************************************************************************)
(* Signals.  The handler may be anywhere when the owner changes:           *)
(* signal_owners_lock is held by run_subtype_handlers except while a       *)
(* callback runs, and never by the handler.                                *)
(***************************************************************************)
locked == phase = "signals"

\* The kernel delivers the signal: flag 1 says that a wake-up is in progress.
signal_handler(s) ==
    /\ owner[s] # "none" /\ handler[s] = "out"
    /\ arrivals[s] < usage.maxArrivals
    /\ arrivals' = [arrivals EXCEPT ![s] = @ + 1]
    /\ IF flags[s] # 0
         THEN UNCHANGED <<flags, handler>>
         ELSE flags' = [flags EXCEPT ![s] = 1] /\ handler' = [handler EXCEPT ![s] = "wake"]
    /\ UNCHANGED <<usage, table, loopVars, timeVars, pipe, asyncVars, owner, signal_pending,
                   handling, woken, ops>>

signal_handler_wakes(s) ==
    /\ handler[s] = "wake"
    /\ handler' = [handler EXCEPT ![s] = "leave"]
    /\ pipe' = IF owner[s] = "loop" THEN Append(pipe, Signal) ELSE pipe
    /\ woken' = (woken \/ owner[s] = "other")
    /\ UNCHANGED <<usage, table, loopVars, timeVars, asyncVars, flags, owner, signal_pending,
                   handling, arrivals, ops>>

signal_handler_leaves(s) ==
    /\ handler[s] = "leave"
    /\ handler' = [handler EXCEPT ![s] = "out"]
    /\ flags' = [flags EXCEPT ![s] = 2]
    /\ UNCHANGED <<usage, table, loopVars, timeVars, pipe, asyncVars, owner, signal_pending,
                   handling, woken, arrivals, ops>>

\* Variant: the new owner is not told of a signal that came before.
signal_cb_Silent(s) ==
    /\ owner' = [owner EXCEPT ![s] = "loop"]
    /\ UNCHANGED <<pipe, flags, handler, signal_pending, handling, woken, arrivals>>

\* On the loop's thread.  A signal that is waiting for its former owner is
\* announced to the new one.
signal_cb(s) ==
    /\ owner' = [owner EXCEPT ![s] = "loop"]
    /\ pipe' = IF owner[s] # "loop" /\ flags[s] # 0 THEN Append(pipe, Signal) ELSE pipe
    /\ UNCHANGED <<flags, handler, signal_pending, handling, woken, arrivals>>

\* signal_cb of the other pollset, on a thread of its own.
steal(s) ==
    /\ owner[s] = "loop" /\ ~ locked
    /\ ops < usage.maxOps /\ ops' = ops + 1
    /\ owner' = [owner EXCEPT ![s] = "other"]
    /\ woken' = (woken \/ flags[s] # 0)
    /\ UNCHANGED <<usage, table, loopVars, timeVars, pipe, asyncVars, flags, handler,
                   signal_pending,
                   handling, arrivals>>

\* A wake-up that is in progress is waited for; a signal nobody has seen is
\* raised again, for what the system does with it by default.
erase_signal_cb(s) ==
    /\ owner[s] # "none" /\ flags[s] # 1
    /\ owner' = [owner EXCEPT ![s] = "none"]
    /\ flags' = [flags EXCEPT ![s] = 0]
    /\ UNCHANGED <<pipe, handler, signal_pending, handling, woken, arrivals>>

\* The other pollset's loop: its own round of run_subtype_handlers.
other_handles ==
    /\ woken /\ ~ locked
    /\ \A s \in usage.signals : owner[s] = "other" => flags[s] # 1
    /\ woken' = FALSE
    /\ flags' = [s \in usage.signals |-> IF owner[s] = "other" THEN 0 ELSE flags[s]]
    /\ UNCHANGED <<usage, table, loopVars, timeVars, pipe, asyncVars, owner, handler,
                   signal_pending,
                   handling, arrivals, ops>>

-----------------------------------------------------------------------------
(***************************************************************************)
(* Timeouts and injected callbacks.                                        *)
(***************************************************************************)
Before(x, y) == x[1] < y[1] \/ (x[1] = y[1] /\ x[2] < y[2])
First(S) == CHOOSE x \in S : \A y \in S \ {x} : Before(x, y)

timeout_at(ms) ==
    /\ timeouts' = timeouts + 1
    /\ time_cbs' = time_cbs \union {<<ms, timeouts'>>}
    /\ UNCHANGED now

\* Any that is pending: the one that is running, too.
timeout_cancel(x) ==
    /\ x \in time_cbs
    /\ time_cbs' = time_cbs \ {x}
    /\ UNCHANGED <<timeouts, now>>

timeout_reschedule_at(x, ms) ==
    /\ x \in time_cbs
    /\ timeouts' = timeouts + 1
    /\ time_cbs' = (time_cbs \ {x}) \union {<<ms, timeouts'>>}
    /\ UNCHANGED now

\* On another thread, under async_cbs_lock_.
inject_cb(c) ==
    /\ c \notin Range(async_cbs \o running \o done)
    /\ async_cbs' = Append(async_cbs, c)
    /\ async_pending' = TRUE
    /\ pipe' = IF async_pending THEN pipe ELSE Append(pipe, Normal)
    /\ UNCHANGED <<usage, table, loopVars, timeVars, running, done, signalVars, ops>>

-----------------------------------------------------------------------------
(***************************************************************************)
(* What a callback does, t being the table it finds: nothing, or one call. *)
(***************************************************************************)
call_fd(t) ==
    /\ \E f \in usage.fds :
         \/ \E d \in Dirs, k \in Kinds : table' = fd_cb(t, f, d, k)
         \/ \E ds \in SUBSET Dirs \ {{}} : table' = fd_cb_null(t, f, ds)
    /\ UNCHANGED <<timeVars, pipe, flags, owner, handler, signal_pending, handling, woken,
                   arrivals>>

call_timeout(t) ==
    /\ \E ms \in usage.dues :
         \/ timeout_at(ms)
         \/ \E x \in time_cbs : timeout_reschedule_at(x, ms) \/ timeout_cancel(x)
    /\ table' = t
    /\ UNCHANGED <<pipe, flags, owner, handler, signal_pending, handling, woken, arrivals>>

call_signal(t) ==
    /\ \E s \in usage.signals : signal_cb(s) \/ erase_signal_cb(s)
    /\ table' = t /\ UNCHANGED timeVars

call(t) ==
    \/ /\ table' = t
       /\ UNCHANGED <<timeVars, pipe, signalVars, ops>>
    \/ /\ ops < usage.maxOps /\ ops' = ops + 1
       /\ call_fd(t) \/ call_timeout(t) \/ call_signal(t)

-----------------------------------------------------------------------------
(***************************************************************************)
(* poll().                                                                 *)
(***************************************************************************)
\* pollset_plus keeps its self-pipe among the descriptors.
pending == Len(table.fds) + Cardinality(time_cbs) > 0

\* What ::poll may report: of the self-pipe, whether there is a byte in it.
MayReport ==
    {r \in (DOMAIN table.fds) \X (Dirs \union {"Hup"}) :
        LET e == table.fds[r[1]] IN e.fd # SelfPipe /\ r[2] \in e.events \union {"Hup"}}
MustReport ==
    {<<n, "Read">> : n \in {m \in DOMAIN table.fds : table.fds[m].fd = SelfPipe /\ pipe # << >>}}

reported(R) ==
    [n \in DOMAIN table.fds |->
         [table.fds[n] EXCEPT !.revents = {c \in Reading \union Writing : <<n, c>> \in R}]]

Ready(fds) == {n \in DOMAIN fds : fds[n].revents # {}}

\* Variant: ::poll waits for descriptors only.
next_timeout_Forever == FALSE

\* The call waits no longer than until the first timeout.
next_timeout == \E x \in time_cbs : x[1] <= now

\* run() calls poll(), and ::poll returns.
poll_waits ==
    /\ phase = "idle" /\ pending
    /\ \E R \in SUBSET MayReport :
         LET fds == reported(R \union MustReport) IN
         /\ Ready(fds) # {} \/ next_timeout
         /\ table' = [table EXCEPT !.fds = fds]
         /\ left' = Cardinality(Ready(fds))
    /\ at' = 1 /\ phase' = "read"
    /\ UNCHANGED <<usage, current, clock, timeVars, pipe, asyncVars, signalVars, ops>>

ready(d, conditions) ==
    LET e == table.fds[at] IN e.revents \intersect conditions # {} /\ table.cbs[e.fd].cb[d] # "none"

poll_ends ==
    /\ phase = "read" /\ left = 0
    /\ phase' = "timeouts"
    /\ UNCHANGED <<usage, table, at, left, current, clock, timeVars, pipe, asyncVars,
                   signalVars, ops>>

poll_reads ==
    /\ phase = "read" /\ left > 0
    /\ left' = IF table.fds[at].revents # {} THEN left - 1 ELSE left
    /\ IF ready("Read", Reading) /\ table.fds[at].fd # SelfPipe
         THEN call(take_out(table, table.fds[at].fd, "Read"))
         ELSE UNCHANGED <<table, timeVars, pipe, signalVars, ops>>
    /\ phase' = IF ready("Read", Reading) /\ table.fds[at].fd = SelfPipe THEN "drain" ELSE "write"
    /\ UNCHANGED <<usage, at, current, clock, asyncVars>>

\* The entry is looked up again: the callback may have changed it.
poll_writes ==
    /\ phase = "write"
    /\ IF ready("Write", Writing)
         THEN call(take_out(table, table.fds[at].fd, "Write"))
         ELSE UNCHANGED <<table, timeVars, pipe, signalVars, ops>>
    /\ at' = at + 1 /\ phase' = "read"
    /\ UNCHANGED <<usage, left, current, clock, asyncVars>>

\* run_pending_asyncs, the callback of the self-pipe: empty the pipe, take the
\* injected callbacks, run them.
drain_pipe ==
    /\ phase = "drain"
    /\ signal_pending' = (signal_pending \/ Signal \in Range(pipe))
    /\ pipe' = << >> /\ phase' = "swap"
    /\ UNCHANGED <<usage, table, at, left, current, clock, timeVars, asyncVars, flags, owner,
                   handler,
                   handling, woken, arrivals, ops>>

\* Variant: async_pending_ is left set when the callbacks are taken.
take_asyncs_StaysPending ==
    /\ phase = "swap"
    /\ running' = async_cbs /\ async_cbs' = << >>
    /\ phase' = "asyncs"
    /\ UNCHANGED <<usage, table, at, left, current, clock, timeVars, pipe, async_pending, done,
                   signalVars, ops>>

take_asyncs ==
    /\ phase = "swap"
    /\ async_pending' = FALSE /\ running' = async_cbs /\ async_cbs' = << >>
    /\ phase' = "asyncs"
    /\ UNCHANGED <<usage, table, at, left, current, clock, timeVars, pipe, done, signalVars, ops>>

run_async ==
    /\ phase = "asyncs" /\ running # << >>
    /\ call(table)
    /\ running' = Tail(running) /\ done' = Append(done, Head(running))
    /\ UNCHANGED <<usage, loopVars, async_cbs, async_pending>>

asyncs_end ==
    /\ phase = "asyncs" /\ running = << >>
    /\ phase' = "write"
    /\ UNCHANGED <<usage, table, at, left, current, clock, timeVars, pipe, asyncVars,
                   signalVars, ops>>

\* run_timeouts.  A callback is erased after it has run, and the iterator goes
\* on from there: what callbacks add further on is run in the same round.
goto_timeout(S, time) ==
    LET due == {x \in S : x[1] <= time} IN
    IF due = {} THEN phase' = "subtype" /\ UNCHANGED current
                ELSE phase' = "timeout" /\ current' = First(due)

run_timeouts ==
    /\ phase = "timeouts"
    /\ clock' = now /\ goto_timeout(time_cbs, now)
    /\ UNCHANGED <<usage, table, at, left, timeVars, pipe, asyncVars, signalVars, ops>>

run_timeout ==
    /\ phase = "timeout"
    /\ call(table)
    /\ phase' = "erase"
    /\ UNCHANGED <<usage, at, left, current, clock, asyncVars>>

erase_timeout ==
    /\ phase = "erase" /\ current \in time_cbs
    /\ time_cbs' = time_cbs \ {current}
    /\ goto_timeout({x \in time_cbs : Before(current, x)}, clock)
    /\ UNCHANGED <<usage, table, at, left, clock, now, timeouts, pipe, asyncVars, signalVars, ops>>

\* The callback has cancelled or moved its own timeout: the iterator is that of
\* a node that is gone.
erase_again ==
    /\ phase = "erase" /\ current \notin time_cbs
    /\ phase' = "undefined"
    /\ UNCHANGED <<usage, table, at, left, current, clock, timeVars, pipe, asyncVars,
                   signalVars, ops>>

\* run_subtype_handlers.
collect_signals ==
    /\ phase = "subtype"
    /\ IF signal_pending
         THEN /\ handling' = {s \in usage.signals : owner[s] = "loop" /\ flags[s] # 0}
              /\ phase' = "signals"
         ELSE phase' = "consolidate" /\ UNCHANGED handling
    /\ UNCHANGED <<usage, table, at, left, current, clock, timeVars, pipe, asyncVars, flags, owner,
                   handler, signal_pending, woken, arrivals, ops>>

\* A signal that has been stolen is passed over; a handler is waited for.
handle_signal(s) ==
    /\ phase = "signals" /\ s \in handling
    /\ owner[s] = "loop" => flags[s] # 1
    /\ handling' = handling \ {s}
    /\ flags' = IF owner[s] = "loop" THEN [flags EXCEPT ![s] = 0] ELSE flags
    /\ phase' = IF owner[s] = "loop" THEN "callback" ELSE phase
    /\ UNCHANGED <<usage, table, at, left, current, clock, timeVars, pipe, asyncVars, owner,
                   handler,
                   signal_pending, woken, arrivals, ops>>

run_signal_cb ==
    /\ phase = "callback"
    /\ call(table)
    /\ phase' = "signals"
    /\ UNCHANGED <<usage, at, left, current, clock, asyncVars>>

signals_end ==
    /\ phase = "signals" /\ handling = {}
    /\ signal_pending' = FALSE /\ phase' = "consolidate"
    /\ UNCHANGED <<usage, table, at, left, current, clock, timeVars, pipe, asyncVars, flags, owner,
                   handler, handling, woken, arrivals, ops>>

\* What the entries report is forgotten here: the next ::poll overwrites it.
poll_returns ==
    /\ phase = "consolidate"
    /\ table' = consolidate([table EXCEPT !.fds =
                    [n \in DOMAIN @ |-> [@[n] EXCEPT !.revents = {}]]])
    /\ phase' = "idle" /\ at' = 0 /\ left' = 0 /\ current' = <<0, 0>> /\ clock' = 0
    /\ UNCHANGED <<usage, timeVars, pipe, asyncVars, signalVars, ops>>

\* The program registers its callbacks between two rounds.
between_polls ==
    /\ phase = "idle" /\ call(table)
    /\ UNCHANGED <<usage, loopVars, asyncVars>>

tick ==
    /\ now < usage.maxTime /\ now' = now + 1
    /\ UNCHANGED <<usage, table, loopVars, time_cbs, timeouts, pipe, asyncVars, signalVars, ops>>

Loop ==
    \/ poll_waits \/ poll_ends \/ poll_reads \/ poll_writes
    \/ drain_pipe \/ take_asyncs \/ run_async \/ asyncs_end
    \/ run_timeouts \/ run_timeout \/ erase_timeout \/ erase_again
    \/ collect_signals \/ signals_end \/ run_signal_cb
    \/ \E s \in usage.signals : handle_signal(s)
    \/ poll_returns

Next ==
    \/ Loop \/ between_polls \/ tick \/ other_handles
    \/ \E c \in usage.injects : inject_cb(c)
    \/ \E s \in usage.signals :
         signal_handler(s) \/ signal_handler_wakes(s) \/ signal_handler_leaves(s) \/ steal(s)

\* The loop's thread, the threads signals interrupt and the other pollset's are
\* scheduled; time goes on.
Fairness ==
    /\ WF_vars(Loop) /\ WF_vars(tick) /\ WF_vars(other_handles)
    /\ WF_vars(\E s \in usage.signals : signal_handler_wakes(s))
    /\ WF_vars(\E s \in usage.signals : signal_handler_leaves(s))

Spec == Init /\ [][Next]_vars /\ Fairness

-----------------------------------------------------------------------------
(***************************************************************************)
(* Correctness.                                                            *)
(***************************************************************************)

\* The two views of the descriptors agree, whatever callbacks do to them and
\* wherever consolidate() moves an entry: each descriptor has one entry, state_
\* knows where, and ::poll is asked for exactly the conditions that have a
\* callback (the assertions of fd_cb_helper and ~fd_state, and every at()).
TableIsConsistent ==
    /\ \A f \in DOMAIN table.cbs :
         LET c == table.cbs[f] IN
         /\ c.idx \in DOMAIN table.fds /\ table.fds[c.idx].fd = f
         /\ table.fds[c.idx].events = {d \in Dirs : c.cb[d] # "none"}
    /\ \A n \in DOMAIN table.fds :
         table.fds[n].fd \in DOMAIN table.cbs /\ table.cbs[table.fds[n].fd].idx = n

\* What is to happen in the end is promised unless a timeout has taken itself out.
Undefined == phase = "undefined"

\* A callback injected from another thread runs, however the injection falls
\* between emptying the pipe and taking the callbacks.
InjectedCallbacksRun ==
    \A c \in UNION {u.injects : u \in Usages} :
        c \in Range(async_cbs) ~> c \in Range(done) \/ Undefined

Caught(s) == s \in usage.signals /\ flags[s] # 0

\* A signal that has been caught is handled, by whoever owns it by then: "one
\* can steal a pollset_plus's signals with no risk of signals going uncaught".
SignalsAreHandled ==
    \A s \in UNION {u.signals : u \in Usages} : Caught(s) ~> ~ Caught(s) \/ Undefined

\* A timeout that is not cancelled runs once its time has come, also when it is
\* set by a callback in the middle of a round, and whatever others callbacks
\* cancel or move (run_timeouts, next_timeout).
TimeoutsRun ==
    \A x \in UNION {u.dues \X (1 .. u.maxOps) : u \in Usages} :
        x \in time_cbs ~> x \notin time_cbs \/ Undefined
=============================================================================
