------------------------------ MODULE ToolCall ------------------------------
(***************************************************************************)
(* One call of ffmpeg or ffprobe: FfmpegMediaAdapter._run of               *)
(* adapters/ffmpeg/media.py.  The tool writes to two pipes of limited      *)
(* size, one thread reads each pipe into a capture of limited size, and    *)
(* the caller waits for the tool, kills it when the time is up, joins the  *)
(* readers for a bounded time and closes the pipes.                        *)
(*                                                                         *)
(* Everything that holds the write end of a pipe keeps its reader waiting: *)
(* the tool, and whatever the tool started.  A reader waits inside         *)
(* BufferedReader.read, which holds the lock that close() needs.           *)
(* Output is counted in chunks of 8192 bytes.                              *)
(***************************************************************************)
EXTENDS Naturals, Sequences

CONSTANTS
    Scripts,     \* what a tool writes: sequences of the pipes it writes to
    PipeSize,    \* chunks a pipe holds before its writer has to wait
    Limit,       \* chunks a capture keeps
    MaxHeirWrites \* bound: chunks written by what the tool started

ASSUME ToolAssumption ==
    /\ Scripts \subseteq Seq({"stdout", "stderr"})
    /\ PipeSize \in Nat \ {0} /\ Limit \in Nat /\ MaxHeirWrites \in Nat

VARIABLES
    tool,      \* the process: state, return code, what it has yet to write
    heir,      \* the process the tool started: it holds both pipes
    pipe,      \* chunks in each pipe
    written,   \* chunks each pipe was ever given
    capture,   \* _Capture of each reader
    reader,    \* the threads: "between" two reads, "inside" one, "done"
    open,      \* the read ends that are not closed
    caller     \* the thread in _run

tcVars == <<tool, heir, pipe, written, capture, reader, open, caller>>

Streams == {"stdout", "stderr"}

TCInit ==
    /\ tool = [state |-> "none", code |-> "none", script |-> <<>>, killable |-> TRUE]
    /\ heir = [state |-> "none", writes |-> 0]
    /\ pipe = [s \in Streams |-> 0]
    /\ written = [s \in Streams |-> 0]
    /\ capture = [s \in Streams |-> [raw |-> 0, truncated |-> FALSE]]
    /\ reader = [s \in Streams |-> "done"]
    /\ open = {}
    /\ caller = [pc |-> "idle", timedOut |-> FALSE, forced |-> FALSE]

CallGoto(pc) == caller' = [caller EXCEPT !.pc = pc]
Held == tool.state = "running" \/ heir.state = "running"

-----------------------------------------------------------------------------
\* What runs outside: a tool that writes, blocks on a full pipe, hangs, fails,
\* and may leave a process behind that inherited the pipes.

Popen ==
    /\ caller.pc = "idle"
    /\ \/ /\ CallGoto("raised")
          /\ UNCHANGED <<tool, open, reader>>
       \/ \E script \in Scripts, killable \in BOOLEAN :
            /\ tool' = [state |-> "running", code |-> "none",
                        script |-> script, killable |-> killable]
            /\ open' = Streams
            /\ reader' = [s \in Streams |-> "between"]
            /\ CallGoto("wait")
    /\ UNCHANGED <<heir, pipe, written, capture>>

\* A chunk for a pipe nobody reads any more is lost.
Fill(s) ==
    /\ pipe[s] < PipeSize \/ s \notin open
    /\ pipe' = [pipe EXCEPT ![s] = IF s \in open THEN @ + 1 ELSE @]
    /\ written' = [written EXCEPT ![s] = @ + 1]

ToolWrites ==
    /\ tool.state = "running" /\ tool.script # <<>>
    /\ Fill(Head(tool.script))
    /\ tool' = [tool EXCEPT !.script = Tail(@)]
    /\ UNCHANGED <<heir, capture, reader, open, caller>>

ToolExits(code) ==
    /\ tool.state = "running"
    /\ code = "zero" => tool.script = <<>>
    /\ tool' = [tool EXCEPT !.state = "gone", !.code = code]
    /\ UNCHANGED <<heir, pipe, written, capture, reader, open, caller>>

ToolForks ==
    /\ tool.state = "running" /\ heir.state = "none"
    /\ heir' = [heir EXCEPT !.state = "running"]
    /\ UNCHANGED <<tool, pipe, written, capture, reader, open, caller>>

HeirWrites(s) ==
    /\ heir.state = "running" /\ heir.writes < MaxHeirWrites
    /\ Fill(s)
    /\ heir' = [heir EXCEPT !.writes = @ + 1]
    /\ UNCHANGED <<tool, capture, reader, open, caller>>

HeirEnds ==
    /\ heir.state = "running"
    /\ heir' = [heir EXCEPT !.state = "gone"]
    /\ UNCHANGED <<tool, pipe, written, capture, reader, open, caller>>

-----------------------------------------------------------------------------
\* A reader: _Capture.consume.  It also ends, silently and with what it has, when
\* the read itself fails with an OSError; the pipes here do not fail so.

EnterRead(s) ==
    /\ reader[s] = "between"
    /\ reader' = [reader EXCEPT ![s] = IF s \in open THEN "inside" ELSE "done"]
    /\ UNCHANGED <<tool, heir, pipe, written, capture, open, caller>>

consume(s) ==
    /\ reader[s] = "inside"
    /\ \/ /\ pipe[s] > 0
          /\ pipe' = [pipe EXCEPT ![s] = @ - 1]
          /\ capture' = IF capture[s].raw < Limit THEN [capture EXCEPT ![s].raw = @ + 1]
                        ELSE [capture EXCEPT ![s].truncated = TRUE]
          /\ reader' = [reader EXCEPT ![s] = "between"]
       \/ /\ pipe[s] = 0 /\ ~Held
          /\ reader' = [reader EXCEPT ![s] = "done"]
          /\ UNCHANGED <<pipe, capture>>
    /\ UNCHANGED <<tool, heir, written, open, caller>>

-----------------------------------------------------------------------------
\* The caller: _run, _join_readers, _finish_readers.

WaitReturns ==
    /\ caller.pc = "wait" /\ tool.state = "gone"
    /\ CallGoto("join")
    /\ UNCHANGED <<tool, heir, pipe, written, capture, reader, open>>

TimesOut ==
    /\ caller.pc = "wait" /\ tool.state = "running"
    /\ caller' = [caller EXCEPT !.pc = "kill", !.timedOut = TRUE]
    /\ UNCHANGED <<tool, heir, pipe, written, capture, reader, open>>

\* kill, and the second wait, which gives up on a process that does not die.
Kill ==
    /\ caller.pc = "kill"
    /\ tool' = IF tool.state = "running" /\ tool.killable
               THEN [tool EXCEPT !.state = "gone", !.code = "killed"] ELSE tool
    /\ CallGoto("join")
    /\ UNCHANGED <<heir, pipe, written, capture, reader, open>>

\* Both joins are bounded: they may end with a reader that still reads.
_join_readers ==
    /\ caller.pc = "join"
    /\ caller' = [caller EXCEPT !.pc = "close stdout",
                            !.forced = \E s \in Streams : reader[s] # "done"]
    /\ UNCHANGED <<tool, heir, pipe, written, capture, reader, open>>

\* close() takes the lock of the pipe's buffer, which a read holds.
Close(s, next) ==
    /\ reader[s] # "inside"
    /\ open' = open \ {s}
    /\ CallGoto(next)
    /\ UNCHANGED <<tool, heir, pipe, written, capture, reader>>

_finish_readers ==
    \/ caller.pc = "close stdout" /\ Close("stdout", "close stderr")
    \/ caller.pc = "close stderr" /\ Close("stderr", "settle")

\* SLIP (breaks OutputIsWhole): readers that had to be forced are not noticed.
SettleUnforced ==
    /\ caller.pc = "settle"
    /\ CallGoto(IF \/ caller.timedOut \/ tool.code # "zero"
                   \/ capture["stdout"].truncated
                THEN "raised" ELSE "returned")
    /\ UNCHANGED <<tool, heir, pipe, written, capture, reader, open>>

Settle ==
    /\ caller.pc = "settle"
    /\ CallGoto(IF \/ caller.timedOut \/ caller.forced \/ tool.code # "zero"
                   \/ capture["stdout"].truncated
                THEN "raised" ELSE "returned")
    /\ UNCHANGED <<tool, heir, pipe, written, capture, reader, open>>

Calling == WaitReturns \/ TimesOut \/ Kill \/ _join_readers \/ _finish_readers \/ Settle
Outside ==
    \/ ToolWrites \/ ToolForks \/ HeirEnds
    \/ \E code \in {"zero", "error"} : ToolExits(code)
    \/ \E s \in Streams : HeirWrites(s)

TCNext == Popen \/ Calling \/ Outside \/ \E s \in Streams : EnterRead(s) \/ consume(s)

\* The caller and the reader threads are scheduled, and clocks go on.  Nothing
\* is assumed of the tool and of what it starts: they may hang for ever.
ToolFairness ==
    /\ WF_tcVars(Calling)
    /\ \A s \in Streams : WF_tcVars(EnterRead(s) \/ consume(s))

ToolSpec == TCInit /\ [][TCNext]_tcVars /\ ToolFairness

-----------------------------------------------------------------------------
\* What a call returns is all that was written to stdout, by a tool that
\* ended by itself with status zero: nothing is cut off by the limit, by a
\* reader that did not come to the end or by a pipe that was closed early.
OutputIsWhole ==
    caller.pc = "returned" =>
        /\ tool.code = "zero" /\ ~caller.timedOut
        /\ ~Held
        /\ capture["stdout"].raw = written["stdout"]

Ended == caller.pc \in {"returned", "raised"}

\* A started call ends, whatever its tool does (what the tests of the adapter
\* claim: live readers are forced out by closing their pipes).  It does not:
\* what holds a pipe for ever holds the call.
EveryCallEnds == caller.pc = "wait" ~> Ended
=============================================================================
