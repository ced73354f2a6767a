---------------------------- MODULE CommandDisplay ----------------------------
(***************************************************************************)
(* What a long-running command shows on a terminal.  Its log lines go      *)
(* plainly to stderr until something is worth a live view; then they are   *)
(* buffered for a short while, and a terminal program, started by another  *)
(* goroutine when that while is over, prints them above its footer.  Work, *)
(* timer, driver, program and the user's ctrl+c move on their own.  A      *)
(* recorder sees every line and returns those worth keeping at the end.    *)
(* The program's library is external: the commands it is given run side by *)
(* side, and one that quits does not wait for the others.                  *)
(***************************************************************************)
EXTENDS Naturals, Sequences, FiniteSets, SequencesExt

CONSTANTS
    Stream,                 \* whether lines are shown live, or the footer alone
    Cap,                    \* what the channel to the program holds
    TailLength,                   \* how many lines are kept in case of a failure
    MaxLines                \* bound on a behaviour

VARIABLES
    level,                  \* the level of each line logged so far
    kept, ring, ringAt, failed,     \* the recorder
    state,                  \* "dormant", "armed", "live", "done"
    backlog, channel, closed,       \* lines on their way to the program
    work,                   \* the work: running, its result sent, or finished
    program,                \* the terminal program: its pending commands, what it holds
    driver,                 \* where Run waits
    cancelled,              \* whether the user has interrupted
    out                     \* what stands on the terminal, in order

vars == <<level, kept, ring, ringAt, failed, state, backlog, channel, closed, work, program, driver,
          cancelled, out>>
recorder == <<kept, ring, ringAt, failed>>

Debug == 0
Info == 1
Warn == 2
Error == 3
ShowInDisplay(l) == l >= Info
Keep(l) == l >= Warn
Trigger(l) == l >= Error

Off == [at |-> "off", commands |-> {}, held |-> <<>>, painted |-> FALSE, gateArmed |-> FALSE]
Command(kind, lines) == [kind |-> kind, lines |-> lines]
Recv == Command("recv", <<>>)
Quit == Command("quit", <<>>)
Paint == Command("paint", <<>>)

TypeOK ==
    /\ level \in Seq(Debug .. Error) /\ Len(ring) <= TailLength /\ Len(channel) <= Cap
    /\ state \in {"dormant", "armed", "live", "done"}
    /\ work.at \in {"running", "returned", "finished"}
    /\ program.at \in {"off", "running", "quit"}
    /\ driver.at \in {"waiting", "showing", "collecting", "returned"}

Init ==
    /\ level = <<>> /\ kept = <<>> /\ ring = <<>> /\ ringAt = 1 /\ failed = FALSE
    /\ state = "dormant" /\ backlog = <<>> /\ channel = <<>> /\ closed = FALSE
    /\ work = [at |-> "running", error |-> FALSE]
    /\ program = Off /\ driver = [at |-> "waiting", result |-> "none"]
    /\ cancelled = FALSE /\ out = <<>>

-----------------------------------------------------------------------------
\* The recorder keeps lines at or above a level, and a ring of the last ones.
Observe(n, l) ==
    /\ kept' = IF Keep(l) THEN Append(kept, n) ELSE kept
    /\ ring' = IF Len(ring) < TailLength THEN Append(ring, n) ELSE [ring EXCEPT ![ringAt] = n]
    /\ ringAt' = (ringAt % TailLength) + 1
    /\ failed' = (failed \/ Trigger(l))
Flushed(because) ==
    SetToSortSeq({kept[i] : i \in DOMAIN kept} \cup (IF because THEN {ring[i] : i \in DOMAIN ring} ELSE {}), <)

\* The work logs a line, which goes where the state says.
Log ==
    /\ work.at = "running" /\ Len(level) < MaxLines
    /\ \E l \in Debug .. Error :
        LET n == Len(level) + 1
            surfaceable == Stream /\ ShowInDisplay(l) IN
        /\ level' = Append(level, l)
        /\ Observe(n, l)
        /\ state' = IF state = "dormant" /\ ShowInDisplay(l) THEN "armed" ELSE state
        /\ out' = IF state = "dormant" /\ surfaceable THEN Append(out, n) ELSE out
        /\ backlog' = IF state = "armed" /\ surfaceable THEN Append(backlog, n) ELSE backlog
        /\ channel' = IF state = "live" /\ surfaceable /\ Len(channel) < Cap
                      THEN Append(channel, n) ELSE channel
    /\ UNCHANGED <<closed, work, program, driver, cancelled>>

\* A report of progress that names a stage or a count arms the display as well.
ArmFromProgress ==
    /\ work.at = "running" /\ state = "dormant"
    /\ state' = "armed"
    /\ UNCHANGED <<level, recorder, backlog, channel, closed, work, program, driver, cancelled, out>>

\* Mutant: a timer that fires late goes live over finished work.
FiresLate == state \in {"armed", "done"} /\ driver.at = "waiting"
Fires == state = "armed"
DebounceFired ==
    /\ Fires
    /\ state' = "live"
    /\ UNCHANGED <<level, recorder, backlog, channel, closed, work, program, driver, cancelled, out>>

Return ==
    /\ work.at = "running"
    /\ \E e \in BOOLEAN : work' = [at |-> "returned", error |-> e]
    /\ UNCHANGED <<level, recorder, state, backlog, channel, closed, program, driver, cancelled, out>>
\* Without a program, what is buffered is printed now; with one, the program learns
\* that no more lines come.
FinishWork ==
    /\ work.at = "returned"
    /\ work' = [work EXCEPT !.at = "finished"]
    /\ state' = "done"
    /\ IF state = "live" THEN closed' = TRUE /\ UNCHANGED <<out, backlog>>
       ELSE out' = out \o backlog /\ backlog' = <<>> /\ UNCHANGED closed
    /\ UNCHANGED <<level, recorder, channel, program, driver, cancelled>>

\* ctrl+c: a signal before the program runs, a key once it does; the program quits.
Interrupt ==
    /\ driver.at # "returned"
    /\ cancelled' = TRUE
    /\ program' = IF program.at = "running" THEN [program EXCEPT !.commands = @ \cup {Quit}] ELSE program
    /\ UNCHANGED <<level, recorder, state, backlog, channel, closed, work, driver, out>>

-----------------------------------------------------------------------------
\* The program, started with the backlog.
Started == state = "live" \/ (state = "done" /\ closed)
Start ==
    /\ driver.at = "waiting" /\ Started
    /\ driver' = [driver EXCEPT !.at = "showing"]
    /\ program' = [Off EXCEPT !.at = "running", !.commands = {Recv}, !.held = backlog]
    /\ UNCHANGED <<level, recorder, state, backlog, channel, closed, work, cancelled, out>>
Give(p, commands) == [p EXCEPT !.commands = @ \cup commands]
Took(c) == [program EXCEPT !.commands = @ \ {c}]

\* The terminal tells its size: lines wait a few frames more.
WindowSize ==
    /\ program.at = "running" /\ ~program.gateArmed
    /\ program' = Give([program EXCEPT !.gateArmed = TRUE], {Paint})
    /\ UNCHANGED <<level, recorder, state, backlog, channel, closed, work, driver, cancelled, out>>
FirstPaint ==
    /\ program.at = "running" /\ Paint \in program.commands
    /\ program' = Give([Took(Paint) EXCEPT !.painted = TRUE, !.held = <<>>],
                       IF program.held = <<>> THEN {} ELSE {Command("print", program.held)})
    /\ UNCHANGED <<level, recorder, state, backlog, channel, closed, work, driver, cancelled, out>>
ReceiveLine ==
    /\ program.at = "running" /\ Recv \in program.commands /\ channel # <<>>
    /\ channel' = Tail(channel)
    /\ program' = IF program.painted THEN Give(program, {Command("print", <<Head(channel)>>)})
                  ELSE [program EXCEPT !.held = Append(@, Head(channel))]
    /\ UNCHANGED <<level, recorder, state, backlog, closed, work, driver, cancelled, out>>
\* The end is seen once the channel is drained.
ReceiveEnd ==
    /\ program.at = "running" /\ Recv \in program.commands /\ channel = <<>> /\ closed
    /\ program' = Give(Took(Recv), {Quit})
    /\ UNCHANGED <<level, recorder, state, backlog, channel, closed, work, driver, cancelled, out>>
PrintLine(c) ==
    /\ program.at = "running" /\ c.kind = "print"
    /\ out' = Append(out, Head(c.lines))
    /\ program' = IF Len(c.lines) = 1 THEN Took(c)
                  ELSE Give(Took(c), {Command("print", Tail(c.lines))})
    /\ UNCHANGED <<level, recorder, state, backlog, channel, closed, work, driver, cancelled>>
QuitProgram ==
    /\ program.at = "running" /\ Quit \in program.commands
    /\ program' = [program EXCEPT !.at = "quit", !.commands = {}]
    /\ UNCHANGED <<level, recorder, state, backlog, channel, closed, work, driver, cancelled, out>>

-----------------------------------------------------------------------------
\* Run: what the program never painted is printed after it; no program, no more.
Unpainted ==
    /\ driver.at = "showing" /\ program.at = "quit"
    /\ out' = out \o program.held
    /\ driver' = [driver EXCEPT !.at = "collecting"]
    /\ UNCHANGED <<level, recorder, state, backlog, channel, closed, work, program, cancelled>>
DoneWithout ==
    /\ driver.at = "waiting" /\ state = "done" /\ ~closed
    /\ driver' = [driver EXCEPT !.at = "collecting"]
    /\ UNCHANGED <<level, recorder, state, backlog, channel, closed, work, program, cancelled, out>>
\* Views that showed no lines print the recorder's; an error after an interruption
\* is the interruption.
Result == IF work.error THEN IF cancelled THEN "cancelled" ELSE "error" ELSE "success"
Collect ==
    /\ driver.at = "collecting" /\ work.at # "running"
    /\ driver' = [at |-> "returned", result |-> Result]
    /\ out' = IF Stream THEN out ELSE out \o Flushed(failed \/ work.error)
    /\ UNCHANGED <<level, recorder, state, backlog, channel, closed, work, program, cancelled>>

Next ==
    \/ Log \/ ArmFromProgress \/ DebounceFired \/ Return \/ FinishWork \/ Interrupt
    \/ Start \/ WindowSize \/ FirstPaint \/ ReceiveLine \/ ReceiveEnd \/ QuitProgram
    \/ \E c \in program.commands : PrintLine(c)
    \/ Unpainted \/ DoneWithout \/ Collect
Spec == Init /\ [][Next]_vars

-----------------------------------------------------------------------------
Logged == DOMAIN level
\* No line stands twice on the terminal, whoever printed it: stderr, the program,
\* what it left unpainted, or the recorder.
ShownOnce == IsInjective(out)
\* A view that showed only its footer ends with every warning and error, in order,
\* and after a failure with the last lines of any level.
FooterTellsAtTheEnd ==
    (driver.at = "returned" /\ ~Stream) =>
        LET broke == work.error \/ \E n \in Logged : Trigger(level[n]) IN
        out = SetToSortSeq({n \in Logged : Keep(level[n]) \/ (broke /\ n > Len(level) - TailLength)}, <)
\* What a streaming view prints without a program is all there is, in order.
StreamedPlainly ==
    (driver.at = "returned" /\ Stream /\ program.at = "off") =>
        out = SetToSortSeq({n \in Logged : ShowInDisplay(level[n])}, <)
\* Nobody is left waiting: when the work is over, either the driver is told that no
\* program is needed, or a program is started, reads to the end, and quits.
NobodyWaits ==
    work.at = "finished" =>
        /\ driver.at = "waiting" => state = "done"
        /\ driver.at = "showing" =>
            program.at = "quit" \/ (closed /\ {Recv, Quit} \cap program.commands # {})

\* What coordinator.go says of streaming views.
StreamedAreShown ==
    (driver.at = "returned" /\ Stream) => \A n \in Logged : Keep(level[n]) => \E i \in DOMAIN out : out[i] = n
=============================================================================
