---------------------------- MODULE ProcessRunner ----------------------------
(***************************************************************************)
(* ProcessRunner.run (media/process.py): one ffmpeg or ffprobe process,    *)
(* two daemon threads that drain its stdout and stderr, and the thread     *)
(* that polls it for cancellation, deadline and exit.  The child may       *)
(* write, ignore SIGTERM, exit when it likes, and leave behind a           *)
(* descendant that inherited both pipes.                                   *)
(*                                                                         *)
(* Output is counted in blocks: a pipe holds PipeSize of them, and one     *)
(* stream.read asks for ReadSize.  The read of a BufferedReader holds the  *)
(* lock of the stream until it has that much or the end of file, and close *)
(* waits for the lock.                                                     *)
(***************************************************************************)
EXTENDS Naturals

CONSTANTS
  Streams,       \* stdout and stderr
  First,         \* the stream that is joined and closed first: stdout
  PipeSize, ReadSize,
  MaxWritten,    \* bound: blocks written to one stream
  Workload,      \* blocks the child writes to each stream before it may exit
  Cancellable,   \* is a cancellation event given, and may it be set?
  MayExpire,     \* may the deadline pass?
  MayInherit,    \* may the child leave a descendant with the pipes?
  Hasty          \* may a join give up on a reader that still has data to read?

ASSUME RunnerConstants ==
  /\ First \in Streams
  /\ PipeSize \in Nat \ {0} /\ ReadSize \in Nat \ {0}
  /\ MaxWritten \in Nat /\ Workload \in 0..MaxWritten
  /\ {Cancellable, MayExpire, MayInherit, Hasty} \subseteq BOOLEAN

Last(s) == s # First
ExitCodes == {"zero", "nonzero", "signal"}
Controls == {"start", "cancelled?", "expired?", "poll", "wait_terminated", "wait_killed",
             "join", "alive?", "close", "done"}
ReaderStates == {"unstarted", "idle", "reading", "finished"}

VARIABLES
  pc,         \* what the thread in run does next
  at,         \* the stream it joins or closes
  status,     \* the local variable status
  rc,         \* process.returncode, "none" before it is reaped
  cancelled, expired,
  child,      \* "none", "running", or how it exited
  signal,     \* the signal that is pending: "none", "term" or "kill"
  heir,       \* does a descendant of the child hold the pipes?
  written,    \* stream -> blocks written to it
  pipe,       \* stream -> blocks in the pipe
  buf,        \* stream -> blocks in the current read
  captured,   \* stream -> blocks given to _BoundedCapture.feed
  reader,     \* stream -> state of its reader thread
  closed      \* the streams that run has closed

control == <<pc, at, status, rc>>
process == <<child, signal, heir, written>>
drain == <<buf, captured, reader>>
vars == <<pc, at, status, rc, cancelled, expired, child, signal, heir, written,
          pipe, buf, captured, reader, closed>>

TypeOK ==
  /\ pc \in Controls /\ at \in Streams
  /\ status \in {"none", "completed", "failed", "cancelled", "timed_out"}
  /\ rc \in ExitCodes \cup {"none"}
  /\ cancelled \in BOOLEAN /\ expired \in BOOLEAN /\ heir \in BOOLEAN
  /\ child \in ExitCodes \cup {"none", "running"}
  /\ signal \in {"none", "term", "kill"}
  /\ written \in [Streams -> Nat] /\ pipe \in [Streams -> Nat]
  /\ buf \in [Streams -> Nat] /\ captured \in [Streams -> Nat]
  /\ reader \in [Streams -> ReaderStates]
  /\ closed \subseteq Streams

Init ==
  /\ pc = "start" /\ at = First /\ status = "none" /\ rc = "none"
  /\ cancelled \in {FALSE, Cancellable} /\ expired = FALSE
  /\ child = "none" /\ signal = "none" /\ heir = FALSE
  /\ written = [s \in Streams |-> 0] /\ pipe = [s \in Streams |-> 0]
  /\ buf = [s \in Streams |-> 0] /\ captured = [s \in Streams |-> 0]
  /\ reader = [s \in Streams |-> "unstarted"] /\ closed = {}

(* The write end of the pipes is open.                                     *)
Open == child = "running" \/ heir

-----------------------------------------------------------------------------
(* The thread in run.                                                      *)

Return(st) ==
  /\ pc' = "done" /\ status' = st
  /\ UNCHANGED <<at, rc, cancelled, expired, process, pipe, drain, closed>>

StartCancelled == pc = "start" /\ cancelled /\ Return("cancelled")
LaunchFails == pc = "start" /\ ~cancelled /\ Return("failed")

Launch ==
  /\ pc = "start" /\ ~cancelled
  /\ child' = "running"
  /\ reader' = [s \in Streams |-> "idle"]
  /\ pc' = "cancelled?"
  /\ UNCHANGED <<at, status, rc, cancelled, expired, signal, heir, written, pipe, buf,
                 captured, closed>>

Moves(next, st, sig) ==
  /\ pc' = next /\ status' = st
  /\ signal' = IF child = "running" THEN sig ELSE signal
  /\ UNCHANGED <<at, rc, cancelled, expired, child, heir, written, pipe, drain, closed>>

CheckCancelled ==
  /\ pc = "cancelled?"
  /\ IF cancelled THEN Moves("wait_terminated", "cancelled", "term")
     ELSE Moves("expired?", status, signal)

CheckExpired ==
  /\ pc = "expired?"
  /\ IF expired THEN Moves("wait_killed", "timed_out", "kill")
     ELSE Moves("poll", status, signal)

Reap(next, st) ==
  /\ pc' = next /\ rc' = child /\ status' = st
  /\ UNCHANGED <<at, cancelled, expired, process, pipe, drain, closed>>

BadPollIgnoresNone ==
  /\ pc = "poll"
  /\ Reap("join", IF child = "zero" THEN "completed" ELSE "failed")

Poll ==
  /\ pc = "poll"
  /\ IF child = "running" THEN Moves("cancelled?", status, signal)
     ELSE Reap("join", IF child = "zero" THEN "completed" ELSE "failed")

BadTerminateOnly ==
  /\ pc = "wait_terminated"
  /\ child # "running" /\ Reap("join", status)

(* _terminate_process waits half a second, then kills.                     *)
Terminated ==
  /\ pc = "wait_terminated"
  /\ IF child # "running" THEN Reap("join", status)
     ELSE Moves("wait_killed", status, "kill")

BadKillWithoutWait == pc = "wait_killed" /\ Reap("join", status)

Killed ==
  /\ pc = "wait_killed" /\ child # "running"
  /\ Reap("join", status)

Finished(s) == reader[s] = "finished"
Starved(s) == reader[s] = "reading" /\ pipe[s] = 0 /\ buf[s] < ReadSize /\ Open

(* join(timeout=2) on stdout's reader, then on stderr's.                   *)
NextStream(after) ==
  /\ IF Last(at) THEN pc' = after /\ at' = First
     ELSE pc' = pc /\ at' \in {s \in Streams : Last(s)}
  /\ UNCHANGED <<rc, cancelled, expired, process, pipe, drain>>

Join ==
  /\ pc = "join"
  /\ Finished(at) \/ Hasty \/ Starved(at)
  /\ NextStream("alive?")
  /\ UNCHANGED <<status, closed>>

BadJoinIsEnough == pc = "alive?" /\ Return(status)

CheckAlive ==
  /\ pc = "alive?"
  /\ IF \A s \in Streams : Finished(s) THEN Return(status)
     ELSE Moves("close", status, signal)

(* close() waits for the lock that a read holds.  After both closes, two   *)
(* joins of half a second, and the outcome is built.                       *)
Close ==
  /\ pc = "close" /\ reader[at] # "reading"
  /\ closed' = closed \cup {at}
  /\ NextStream("done")
  /\ status' = IF Last(at) THEN "failed" ELSE status

Runner ==
  \/ StartCancelled \/ LaunchFails \/ Launch \/ CheckCancelled \/ CheckExpired
  \/ Poll \/ Terminated \/ Killed \/ Join \/ CheckAlive \/ Close

-----------------------------------------------------------------------------
(* A reader thread: _drain.                                                *)

BadStartRead(s) ==   \* one stream after the other
  /\ reader[s] = "idle"
  /\ s = First \/ reader[First] = "finished"
  /\ reader' = [reader EXCEPT ![s] = "reading"]
  /\ UNCHANGED <<control, cancelled, expired, process, pipe, buf, captured, closed>>

StartRead(s) ==
  /\ reader[s] = "idle"
  /\ reader' = [reader EXCEPT ![s] = IF s \in closed THEN "finished" ELSE "reading"]
  /\ UNCHANGED <<control, cancelled, expired, process, pipe, buf, captured, closed>>

Receive(s) ==
  /\ reader[s] = "reading" /\ pipe[s] > 0 /\ buf[s] < ReadSize
  /\ pipe' = [pipe EXCEPT ![s] = @ - 1]
  /\ buf' = [buf EXCEPT ![s] = @ + 1]
  /\ UNCHANGED <<control, cancelled, expired, process, captured, reader, closed>>

EndRead(s) ==
  /\ reader[s] = "reading"
  /\ buf[s] = ReadSize \/ (pipe[s] = 0 /\ ~Open)
  /\ captured' = [captured EXCEPT ![s] = @ + buf[s]]
  /\ buf' = [buf EXCEPT ![s] = 0]
  /\ reader' = [reader EXCEPT ![s] = IF buf[s] = 0 THEN "finished" ELSE "idle"]
  /\ UNCHANGED <<control, cancelled, expired, process, pipe, closed>>

Reader(s) == StartRead(s) \/ Receive(s) \/ EndRead(s)

-----------------------------------------------------------------------------
(* The child and its descendant, the caller and the clock.                 *)

Write(s) ==
  /\ Open /\ written[s] < MaxWritten /\ pipe[s] < PipeSize
  /\ written' = [written EXCEPT ![s] = @ + 1]
  /\ pipe' = [pipe EXCEPT ![s] = @ + 1]
  /\ UNCHANGED <<control, cancelled, expired, child, signal, heir, drain, closed>>

Exits(code) ==
  /\ child = "running"
  /\ child' = code
  /\ heir' \in {FALSE, MayInherit}
  /\ UNCHANGED <<control, cancelled, expired, signal, written, pipe, drain, closed>>

Exit == \E code \in {"zero", "nonzero"} :
  Exits(code) /\ \A s \in Streams : written[s] >= Workload

Dies == signal # "none" /\ Exits("signal")

HeirExits ==
  /\ heir
  /\ heir' = FALSE
  /\ UNCHANGED <<control, cancelled, expired, child, signal, written, pipe, drain, closed>>

Cancel ==
  /\ Cancellable /\ ~cancelled
  /\ cancelled' = TRUE
  /\ UNCHANGED <<control, expired, process, pipe, drain, closed>>

Expire ==
  /\ MayExpire /\ ~expired
  /\ expired' = TRUE
  /\ UNCHANGED <<control, cancelled, process, pipe, drain, closed>>

Next ==
  \/ Runner
  \/ \E s \in Streams : Reader(s) \/ Write(s)
  \/ Exit \/ Dies \/ HeirExits \/ Cancel \/ Expire

Spec == Init /\ [][Next]_vars

(* Threads are scheduled, time passes, and SIGKILL kills: after it, Dies   *)
(* stays enabled until the child is gone.  Nothing makes the child write   *)
(* or exit, heed SIGTERM, or its descendant exit.                          *)
DiesOfKill == signal = "kill" /\ Dies
FairSpec ==
  /\ Spec
  /\ WF_vars(Runner) /\ WF_vars(Expire) /\ WF_vars(DiesOfKill)
  /\ \A s \in Streams : WF_vars(Reader(s))

(* A child that does its work, however much it writes, and then exits.     *)
WorkingSpec ==
  /\ FairSpec
  /\ WF_vars(Exit) /\ \A s \in Streams : WF_vars(Write(s))

-----------------------------------------------------------------------------
(* A completed outcome is the whole truth: the child exited with zero and  *)
(* was reaped, nobody can write to its pipes any more, and each capture    *)
(* was fed all that was written to its stream, however the reads were cut  *)
(* and whatever the joins timed out on.                                    *)
CompletedIsWhole ==
  pc = "done" /\ status = "completed" =>
    /\ rc = "zero" /\ ~Open
    /\ \A s \in Streams : captured[s] = written[s]

(* No outcome leaves the child behind as a running process or a zombie.    *)
ChildIsReaped == pc = "done" /\ child # "none" => child # "running" /\ rc = child

(* run returns, whatever the child does with its output and its signals,   *)
(* unless a descendant of the child keeps the pipes open for ever.         *)
Returns == <>(pc = "done") \/ <>[]heir

(* Both pipes are drained at once: a child that fills them before it exits *)
(* does not deadlock with its parent.                                      *)
DrainsEverything ==
  child = "running" ~> pc = "done" /\ \A s \in Streams : captured[s] >= Workload

(* The shutdown of a cancelled process is bounded.                         *)
CancellationIsBounded == status = "cancelled" ~> pc = "done"
=============================================================================
