--------------------------- MODULE EventLoopState ----------------------------
(***************************************************************************)
(* The state of the main loop of a thread, and what is promised to its     *)
(* scripts.  EventLoop says how the state changes.                         *)
(***************************************************************************)
EXTENDS Naturals, Sequences

VARIABLES
    at,        \* where the thread is
    waiting,   \* js_std_await has not returned yet
    settled,   \* the promise it waits for is settled
    jobs,      \* number of jobs of the runtime
    timers,    \* ts->os_timers
    handlers,  \* ts->os_rw_handlers
    sigs,      \* ts->os_signal_handlers
    rejected,  \* ts->rejected_promise_list
    pending,   \* os_pending_signals
    clearing,  \* what js_os_poll has read of it, and the signal to clear
    ready,     \* the directions of the descriptors the system reports
    calling,   \* the event whose callback ran last
    owed,      \* history: signals that came and were not answered
    cut,       \* history: js_std_loop left its loop over the jobs at one that threw
    fuel       \* operations left

-----------------------------------------------------------------------------
\* The callback of an event runs only after every job of the scripts that ran
\* before, unless one of those threw, and never while a rejection of theirs is
\* without a handler, which ends the program instead.  That of a signal needs a
\* signal that was not answered.
Quiet ==
    at' = "event" /\ at # "event" =>
        /\ jobs = 0 \/ cut
        /\ rejected = {}
        /\ at = "clear" => clearing[2] \in owed
EventsWhenQuiet == [][Quiet]_<<at, jobs, rejected, clearing, owed, cut>>
==============================================================================
