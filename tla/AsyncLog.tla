------------------------------ MODULE AsyncLog ------------------------------
(***************************************************************************)
(* The log files and the threads that fill them (logging.rs).              *)
(*                                                                         *)
(* An event goes through the layers of the tracing subscriber, on the      *)
(* thread that emits it; a layer with a file hands its line to the         *)
(* channel of the file's writer thread and never waits.  The writer        *)
(* collects lines and writes them when a line finds the buffer full or the *)
(* last write 100 ms ago.  A line that finds the channel full is dropped,  *)
(* and write() emits an event about that, on the same thread, from within  *)
(* the first event; a writer thread emits events about failed writes.      *)
(*                                                                         *)
(* The writer of a file is the actor named like the file.  Filters and the *)
(* order of layers are those of init_logging; the console is left out.     *)
(***************************************************************************)
EXTENDS Naturals, Sequences

CONSTANTS
    Threads,       \* threads that serve requests
    Capacity,      \* lines a channel holds (4096)
    BufferLimit,   \* lines a buffer holds without a write (32 KiB)
    StackDepth,    \* nested events that fit on a stack
    MaxEvents,     \* bound: no thread starts an event after so many
    MaxFaults      \* bound: file-system calls that fail

Files == {"access", "error"}
Actors == Threads \cup Files

ASSUME LogAssumption ==
    /\ Threads \cap Files = {}
    /\ Capacity \in Nat \ {0} /\ BufferLimit \in Nat
    /\ StackDepth \in Nat /\ StackDepth >= 2
    /\ MaxEvents \in Nat /\ MaxFaults \in Nat

VARIABLES
    phase,      \* "init", "up" (subscriber set), "serving", "silent" (init_logging
                \* failed), "aborted", "exited"
    daemon,     \* the server is to be daemonized
    open,       \* files whose AsyncFileWriter exists
    enabled,    \* files that LoggingConfig names
    stack,      \* of every actor: the events it is emitting, innermost last
    count,      \* events so far; it tells lines apart
    chan,       \* mpsc channels
    writer,     \* what a writer thread does: "recv", "write" or "ended"
    buf,        \* lines a writer has taken and not written
    late,       \* the last write of the file is more than 100 ms ago
    file,       \* the file
    faults,     \* failed calls so far
    accepted,   \* history: lines that entered the channel
    lost        \* history: lines that a failed write or a truncation destroyed

startVars == <<phase, daemon, open, enabled>>

vars == <<phase, daemon, open, enabled, stack, count, chan, writer, buf, late, file, faults,
          accepted, lost>>

-----------------------------------------------------------------------------
(* Events.                                                                 *)

\* Kinds of events: "request" (log_access...), "failure" (an error of another
\* module), "full" (the warning of write()), "ioerror" (of a writer task).

\* Mutant: the warning passes the filter of both layers.
Layers_FullEverywhere(kind) ==
    CASE kind = "request" -> {"access"}
      [] kind = "failure" -> {"error"}
      [] OTHER            -> {"access", "error"}

\* The layers that let an event through.  The access layer takes target
\* stryvo::logging from INFO on, which is also the target of the events that
\* logging.rs itself emits; the error layer takes level ERROR.
Layers(kind) ==
    CASE kind \in {"request", "full"} -> {"access"}
      [] kind = "failure"             -> {"error"}
      [] kind = "ioerror"             -> {"access", "error"}

\* The access layer comes first.
NextLayer(todo) == IF "access" \in todo THEN "access" ELSE "error"

\* A new event, with the files it has yet to reach.
Frame(kind) ==
    [line |-> count + 1, todo |-> Layers(kind) \cap enabled]

Top(a) == stack[a][Len(stack[a])]

\* The stack of actor a, with its innermost event past the layer of file f.
Passed(a, f) == [stack[a] EXCEPT ![Len(stack[a])] = [line |-> Top(a).line, todo |-> Top(a).todo \ {f}]]

\* LogMessage is a line, known by the number of its event, or Shutdown.
Shutdown == 0

-----------------------------------------------------------------------------
(* init_logging: access log, error log, subscriber.                        *)

Init ==
    /\ phase = "init"
    /\ daemon \in BOOLEAN
    /\ open = {}
    /\ enabled \in SUBSET Files
    /\ stack = [a \in Actors |-> <<>>]
    /\ count = 0
    /\ chan = [f \in Files |-> <<>>]
    /\ writer = [f \in Files |-> "recv"]
    /\ buf = [f \in Files |-> <<>>]
    /\ late = [f \in Files |-> FALSE]
    /\ file = [f \in Files |-> <<>>]
    /\ faults = 0
    /\ accepted = [f \in Files |-> <<>>]
    /\ lost = [f \in Files |-> {}]

Up == phase \in {"up", "serving"}

Running == phase \in {"init", "silent"} \/ Up

NextToOpen(f) ==
    /\ phase = "init"
    /\ f \in enabled \ open
    /\ f = "error" => "access" \in open \cup (Files \ enabled)

\* AsyncFileWriter::new: the file is created or truncated, its thread started.
NewWriter(f) ==
    /\ NextToOpen(f)
    /\ open' = open \cup {f}
    /\ file' = [file EXCEPT ![f] = <<>>]
    /\ UNCHANGED <<phase, daemon, enabled, stack, count, chan, writer, buf, late, faults, accepted, lost>>

\* The file cannot be created: init_logging fails, no subscriber is set, and
\* Drop of a writer that exists sends it a Shutdown.
NewWriterFails(f) ==
    /\ NextToOpen(f)
    /\ faults < MaxFaults
    /\ faults' = faults + 1
    /\ phase' = "silent"
    /\ chan' = [g \in Files |-> IF g \in open THEN Append(chan[g], Shutdown) ELSE chan[g]]
    /\ UNCHANGED <<daemon, open, enabled, stack, count, writer, buf, late, file, accepted, lost>>

Started ==
    /\ phase = "init"
    /\ open = enabled
    /\ phase' = "up"
    /\ UNCHANGED <<daemon, open, enabled, stack, count, chan, writer, buf, late, file, faults, accepted, lost>>

\* main() hands over to run_forever, which forks when it daemonizes: of all
\* threads only the one that calls it goes on in the new process.
RunForever ==
    /\ phase = "up"
    /\ \A a \in Threads : stack[a] = <<>>
    /\ phase' = "serving"
    /\ writer' = [f \in Files |-> IF daemon THEN "ended" ELSE writer[f]]
    /\ stack' = [a \in Actors |-> IF daemon THEN <<>> ELSE stack[a]]
    /\ UNCHANGED <<daemon, open, enabled, count, chan, buf, late, file, faults, accepted, lost>>

-----------------------------------------------------------------------------
(* Events reach the channels.                                              *)

\* A thread that is not inside an event starts one.
Emit(t, kind) ==
    /\ Up
    /\ stack[t] = <<>>
    /\ count < MaxEvents
    /\ stack' = [stack EXCEPT ![t] = <<Frame(kind)>>]
    /\ count' = count + 1
    /\ UNCHANGED <<startVars, chan, writer, buf, late, file, faults, accepted, lost>>

\* process_access_logging and process_logging: the answer of an upstream is
\* recorded when its header arrives.
LogAccess(t) == phase = "serving" /\ Emit(t, "request")

\* log_error_comprehensive, and errors of other modules from the start on.
LogError(t) == Emit(t, "failure")

\* Mutant: one line too many.
HasRoom_OffByOne(f) == Len(chan[f]) <= Capacity

HasRoom(f) == Len(chan[f]) < Capacity

\* The innermost event of actor a is at the layer of file f.
AtLayer(a, f) ==
    /\ Up
    /\ stack[a] # <<>>
    /\ Top(a).todo # {}
    /\ f = NextLayer(Top(a).todo)

\* AsyncLogWriter::write, try_send succeeds.
Send(a, f) ==
    /\ AtLayer(a, f)
    /\ HasRoom(f)
    /\ chan' = [chan EXCEPT ![f] = Append(@, Top(a).line)]
    /\ accepted' = [accepted EXCEPT ![f] = Append(@, Top(a).line)]
    /\ stack' = [stack EXCEPT ![a] = Passed(a, f)]
    /\ UNCHANGED <<startVars, count, writer, buf, late, file, faults, lost>>

\* AsyncLogWriter::write, the channel is full: the line is dropped and an
\* event emitted from within this one.
Discard(a, f) ==
    /\ AtLayer(a, f)
    /\ ~HasRoom(f)
    /\ Len(stack[a]) < StackDepth
    /\ stack' = [stack EXCEPT ![a] = Append(Passed(a, f), Frame("full"))]
    /\ count' = count + 1
    /\ UNCHANGED <<startVars, chan, writer, buf, late, file, faults, accepted, lost>>

\* The stack does not hold another event, which ends the process.
Overflow(a, f) ==
    /\ AtLayer(a, f)
    /\ ~HasRoom(f)
    /\ Len(stack[a]) = StackDepth
    /\ phase' = "aborted"
    /\ UNCHANGED <<daemon, open, enabled, stack, count, chan, writer, buf, late, file, faults, accepted, lost>>

\* An event has passed all its layers; an outer one goes on.
Return(a) ==
    /\ Up
    /\ stack[a] # <<>>
    /\ Top(a).todo = {}
    /\ stack' = [stack EXCEPT ![a] = SubSeq(@, 1, Len(@) - 1)]
    /\ UNCHANGED <<startVars, count, chan, writer, buf, late, file, faults, accepted, lost>>

-----------------------------------------------------------------------------
(* writer_task_sync (and writer_task, its twin for a tokio runtime).       *)

Tick(f) ==
    /\ Up
    /\ f \in open
    /\ late' = [late EXCEPT ![f] = TRUE]
    /\ UNCHANGED <<startVars, stack, count, chan, writer, buf, file, faults, accepted, lost>>

\* LogMessage::Content.  Whether to write is decided here and only here.
Receive(f) ==
    /\ Running
    /\ writer[f] = "recv" /\ stack[f] = <<>>
    /\ chan[f] # <<>> /\ Head(chan[f]) # Shutdown
    /\ chan' = [chan EXCEPT ![f] = Tail(@)]
    /\ buf' = [buf EXCEPT ![f] = Append(@, Head(chan[f]))]
    /\ LET write == Len(buf[f]) + 1 > BufferLimit \/ late[f]
       IN  /\ writer' = [writer EXCEPT ![f] = IF write THEN "write" ELSE "recv"]
           /\ late' = [late EXCEPT ![f] = @ /\ ~write]
    /\ UNCHANGED <<startVars, stack, count, file, faults, accepted, lost>>

\* Mutant: the buffer is not cleared.
WriteAll_KeepsBuffer(f) ==
    /\ Running
    /\ writer[f] = "write"
    /\ file' = [file EXCEPT ![f] = @ \o buf[f]]
    /\ writer' = [writer EXCEPT ![f] = "recv"]
    /\ UNCHANGED <<startVars, stack, count, chan, buf, late, faults, accepted, lost>>

\* write_all, flush and clear.
WriteAll(f) ==
    /\ Running
    /\ writer[f] = "write"
    /\ file' = [file EXCEPT ![f] = @ \o buf[f]]
    /\ buf' = [buf EXCEPT ![f] = <<>>]
    /\ writer' = [writer EXCEPT ![f] = "recv"]
    /\ UNCHANGED <<startVars, stack, count, chan, late, faults, accepted, lost>>

\* Mutant: the task ends at the first error.
WriteFails_Ends(f) ==
    /\ Running
    /\ writer[f] = "write"
    /\ faults < MaxFaults
    /\ faults' = faults + 1
    /\ lost' = [lost EXCEPT ![f] = @ \cup {buf[f][i] : i \in 1..Len(buf[f])}]
    /\ buf' = [buf EXCEPT ![f] = <<>>]
    /\ writer' = [writer EXCEPT ![f] = "ended"]
    /\ UNCHANGED <<startVars, stack, count, chan, late, file, accepted>>

\* write_all fails after some lines: the rest of the buffer is thrown away,
\* and the writer itself emits an event that may go to its own channel.
WriteFails(f) ==
    /\ Running
    /\ writer[f] = "write"
    /\ faults < MaxFaults
    /\ faults' = faults + 1
    /\ \E k \in 0..(Len(buf[f]) - 1) :
          /\ file' = [file EXCEPT ![f] = @ \o SubSeq(buf[f], 1, k)]
          /\ lost' = [lost EXCEPT ![f] = @ \cup {buf[f][i] : i \in (k + 1)..Len(buf[f])}]
    /\ buf' = [buf EXCEPT ![f] = <<>>]
    /\ writer' = [writer EXCEPT ![f] = "recv"]
    /\ stack' = [stack EXCEPT ![f] = <<Frame("ioerror")>>]
    /\ count' = count + 1
    /\ UNCHANGED <<startVars, chan, late, accepted>>

\* LogMessage::Shutdown: what is left is written, and the thread ends.
ReceiveShutdown(f) ==
    /\ Running
    /\ writer[f] = "recv" /\ stack[f] = <<>>
    /\ chan[f] # <<>> /\ Head(chan[f]) = Shutdown
    /\ chan' = [chan EXCEPT ![f] = Tail(@)]
    /\ file' = [file EXCEPT ![f] = @ \o buf[f]]
    /\ buf' = [buf EXCEPT ![f] = <<>>]
    /\ writer' = [writer EXCEPT ![f] = "ended"]
    /\ UNCHANGED <<startVars, stack, count, late, faults, accepted, lost>>

\* run_forever ends the process when the server has shut down.  The writers
\* belong to the global subscriber, which is never dropped.
Exit ==
    /\ phase \in {"serving", "silent"}
    /\ phase' = "exited"
    /\ UNCHANGED <<daemon, open, enabled, stack, count, chan, writer, buf, late, file, faults, accepted, lost>>

\* A second run of the program with the same files, --validate-configs or
\* --upgrade: its AsyncFileWriter::new truncates them under the first.  What it
\* writes itself is left out.
SecondRun(f) ==
    /\ phase = "serving"
    /\ f \in open
    /\ faults < MaxFaults
    /\ faults' = faults + 1
    /\ lost' = [lost EXCEPT ![f] = @ \cup {file[f][i] : i \in 1..Len(file[f])}]
    /\ file' = [file EXCEPT ![f] = <<>>]
    /\ UNCHANGED <<startVars, stack, count, chan, writer, buf, late, accepted>>

-----------------------------------------------------------------------------

WriterStep(f) == Receive(f) \/ WriteAll(f) \/ WriteFails(f) \/ ReceiveShutdown(f)

EventStep(a) == Return(a) \/ \E f \in Files : Send(a, f) \/ Discard(a, f) \/ Overflow(a, f)

Next ==
    \/ \E f \in Files : NewWriter(f) \/ NewWriterFails(f) \/ Tick(f) \/ WriterStep(f)
                          \/ SecondRun(f)
    \/ Started \/ RunForever
    \/ \E t \in Threads : LogAccess(t) \/ LogError(t)
    \/ \E a \in Actors : EventStep(a)
    \/ Exit

Spec == Init /\ [][Next]_vars

\* Threads run, and file-system calls return.
Fairness == (\A f \in Files : WF_vars(WriterStep(f))) /\ (\A a \in Actors : WF_vars(EventStep(a)))

FairSpec == Spec /\ Fairness

-----------------------------------------------------------------------------
(* Properties.                                                             *)

Line == Nat \ {Shutdown}

FrameType == [line : Line, todo : SUBSET Files]

StartOK ==
    /\ phase \in {"init", "up", "serving", "silent", "aborted", "exited"}
    /\ daemon \in BOOLEAN
    /\ open \subseteq enabled /\ enabled \subseteq Files

StacksOK ==
    /\ stack \in [Actors -> Seq(FrameType)]
    /\ \A a \in Actors : Len(stack[a]) <= StackDepth
    /\ count \in Nat

ChannelsOK ==
    /\ chan \in [Files -> Seq(Nat)]
    /\ \A f \in Files : Len(chan[f]) <= Capacity

WritersOK ==
    /\ writer \in [Files -> {"recv", "write", "ended"}]
    /\ late \in [Files -> BOOLEAN]
    /\ buf \in [Files -> Seq(Line)] /\ file \in [Files -> Seq(Line)]
    /\ accepted \in [Files -> Seq(Line)] /\ lost \in [Files -> SUBSET Line]
    /\ faults \in 0..MaxFaults

\* Types; a channel never holds more than its capacity, nor a stack.
TypeOK == StartOK /\ StacksOK /\ ChannelsOK /\ WritersOK

\* The lines of s are those of all that are not gone, each once and in the
\* same order.
Kept(s, all, gone) ==
    /\ \A p, q \in DOMAIN all : p # q => all[p] # all[q]
    /\ {s[i] : i \in DOMAIN s} = {all[p] : p \in DOMAIN all} \ gone
    /\ \A i, j \in DOMAIN s :
          i < j => \E p, q \in DOMAIN all : p < q /\ all[p] = s[i] /\ all[q] = s[j]

\* The lines in a channel.  Shutdown comes alone: it is sent only when no
\* subscriber has been set.
Waiting(f) == IF chan[f] = <<Shutdown>> THEN <<>> ELSE chan[f]

\* A line that write() accepted is in the channel, in the buffer or in the
\* file, once, in the order of acceptance, unless a write failed with it in
\* the buffer or a second run truncated the file: no other line is lost,
\* doubled or overtaken.
LogAccounted ==
    \A f \in Files : Kept(file[f] \o buf[f] \o Waiting(f), accepted[f], lost[f])

\* Logging brings the process down only while the access log is behind: a
\* full error channel never does, since the event about it goes elsewhere.
AbortedByAccessOnly == phase = "aborted" => ~HasRoom("access")

\* Lines leave a channel, through full channels and failing writes: the
\* writer of a file gets on, or the process ends.  Not so in a daemon, whose
\* writer threads stayed behind in the process that forked it.
Drained ==
    \A f \in Files : (chan[f] # <<>>) ~> (chan[f] = <<>> \/ ~Running \/ daemon)

-----------------------------------------------------------------------------
(* The inductive invariant.                                                *)

\* Nothing is logged without a subscriber, and Shutdown has no company.
Quiet ==
    /\ phase \in {"init", "silent"} =>
          /\ \A a \in Actors : stack[a] = <<>>
          /\ \A f \in Files :
                writer[f] # "write" /\ buf[f] = <<>> /\ file[f] = <<>> /\ accepted[f] = <<>>
    /\ \A f \in Files :
          /\ phase = "init" => chan[f] = <<>>
          /\ phase = "silent" => chan[f] \in {<<>>, <<Shutdown>>}
          /\ \/ chan[f] \in Seq(Line)
             \/ ~Up /\ chan[f] = <<Shutdown>>

\* An event within another one is a warning about a full channel.
Nested == \A a \in Actors : \A i \in DOMAIN stack[a] : i > 1 => stack[a][i].todo \subseteq {"access"}

\* Events are numbered one by one.
Numbered ==
    /\ \A a \in Actors : \A i \in DOMAIN stack[a] : stack[a][i].line <= count
    /\ \A a, b \in Actors : \A i \in DOMAIN stack[a], j \in DOMAIN stack[b] :
          stack[a][i].line = stack[b][j].line => a = b /\ i = j

\* A line that is still to be sent has not been sent, one that is lost has.
Unsent ==
    /\ \A f \in Files : lost[f] \subseteq {accepted[f][p] : p \in DOMAIN accepted[f]}
    /\ \A f \in Files : \A p \in DOMAIN accepted[f] :
          /\ accepted[f][p] <= count
          /\ \A a \in Actors : \A i \in DOMAIN stack[a] :
                f \in stack[a][i].todo => stack[a][i].line # accepted[f][p]

IInv == TypeOK /\ Quiet /\ Nested /\ Numbered /\ Unsent /\ LogAccounted /\ AbortedByAccessOnly
=============================================================================
