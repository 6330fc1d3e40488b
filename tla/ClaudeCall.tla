----------------------------- MODULE ClaudeCall -----------------------------
(***************************************************************************)
(* One ClaudeCodeAdapter::complete (caw-adapters/src/claude_code.rs): the  *)
(* caller writes the prompt to the claude CLI, a reader thread turns the   *)
(* lines of its stdout into messages of a channel, and the caller takes    *)
(* them under a watchdog until the result event.                           *)
(***************************************************************************)
EXTENDS Naturals, Sequences, SequencesExt

CONSTANTS
    PromptSize,     \* pieces of the prompt
    PipeSize,       \* pieces, or lines, an operating system pipe holds
    MaxEvents       \* bound: lines the child prints

ASSUME CallAssumption ==
    PromptSize \in Nat \ {0} /\ PipeSize \in Nat \ {0} /\ MaxEvents \in Nat \ {0}

VARIABLES
    pc,         \* where the caller is
    unwritten,  \* pieces of the prompt not yet written
    stdin,      \* pieces in the pipe to the child
    child,      \* none, reading, working, hung, exited, killed
    reaped,     \* the child has been waited for
    stdout,     \* lines in the pipe from the child
    printed,    \* lines the child has printed
    lines,      \* lines the reader thread has sent
    reader,     \* none, reading, ended
    outcome     \* what complete returns

callVars == <<pc, unwritten, stdin, child, reaped, stdout, printed, lines, reader, outcome>>

Events == {"tick", "noise", "result", "error result", "bad result"}
Alive == child \in {"reading", "working", "hung"}

CallInit ==
    /\ pc = "start" /\ unwritten = PromptSize /\ stdin = 0
    /\ child = "none" /\ reaped = FALSE
    /\ stdout = << >> /\ printed = 0
    /\ lines = << >> /\ reader = "none" /\ outcome = "none"

Return(result) == pc' = "returned" /\ outcome' = result

-----------------------------------------------------------------------------
(* The caller.                                                             *)
Spawn ==
    /\ pc = "start"
    /\ \/ child' = "reading" /\ pc' = "write" /\ UNCHANGED outcome
       \/ Return("spawn error") /\ UNCHANGED child
    /\ UNCHANGED <<unwritten, stdin, reaped, stdout, printed, lines, reader>>

(* write_all blocks while the pipe is full.  It may fail at any piece, the *)
(* child having closed its end or being gone, and complete returns by `?`: *)
(* nobody kills the child or waits for it.                                 *)
WritePrompt ==
    /\ pc = "write" /\ unwritten > 0
    /\ \/ /\ Alive /\ stdin < PipeSize
          /\ stdin' = stdin + 1 /\ unwritten' = unwritten - 1
          /\ UNCHANGED <<pc, outcome>>
       \/ Return("write error") /\ UNCHANGED <<stdin, unwritten>>
    /\ UNCHANGED <<child, reaped, stdout, printed, lines, reader>>

StartReader ==
    /\ pc = "write" /\ unwritten = 0
    /\ reader' = "reading" /\ pc' = "receive"
    /\ UNCHANGED <<unwritten, stdin, child, reaped, stdout, printed, lines, outcome>>

(* Any line ticks the watchdog; the result event ends the loop.            *)
ReceiveLine ==
    /\ pc = "receive" /\ lines # << >>
    /\ LET line == Head(lines) IN
       CASE line \in {"tick", "noise"} -> UNCHANGED <<pc, child, outcome>>
         [] line = "bad result" -> child' = "killed" /\ Return("bad result")
         [] OTHER -> /\ pc' = "join" /\ UNCHANGED child
                     /\ outcome' = IF line = "result" THEN "answer" ELSE "error"
    /\ lines' = Tail(lines)
    /\ UNCHANGED <<unwritten, stdin, reaped, stdout, printed, reader>>

(* Mutant of Watchdog: the child is left alone.                            *)
WatchdogSparesChild ==
    /\ pc = "receive" /\ lines = << >> /\ reader = "reading"
    /\ pc' = "join killed"
    /\ UNCHANGED <<unwritten, stdin, child, reaped, stdout, printed, lines, reader, outcome>>

(* recv_timeout gives up: the child is killed and the reader joined.       *)
Watchdog ==
    /\ pc = "receive" /\ lines = << >> /\ reader = "reading"
    /\ child' = IF Alive THEN "killed" ELSE child
    /\ pc' = "join killed"
    /\ UNCHANGED <<unwritten, stdin, reaped, stdout, printed, lines, reader, outcome>>

JoinAfterKill ==
    /\ pc = "join killed" /\ reader = "ended"
    /\ Return("stalled")
    /\ UNCHANGED <<unwritten, stdin, child, reaped, stdout, printed, lines, reader>>

(* The channel is disconnected before a result: finalize_error.            *)
StreamEnded ==
    /\ pc = "receive" /\ lines = << >> /\ reader = "ended"
    /\ child' = IF Alive THEN "killed" ELSE child
    /\ reaped' = TRUE /\ Return("ended early")
    /\ UNCHANGED <<unwritten, stdin, stdout, printed, lines, reader>>

(* Mutant of JoinAndWait: the caller returns as soon as it has the result. *)
ReturnWithoutWait ==
    /\ pc = "join"
    /\ pc' = "returned"
    /\ UNCHANGED <<unwritten, stdin, child, reaped, stdout, printed, lines, reader, outcome>>

(* Neither join nor wait is under the watchdog.                            *)
JoinAndWait ==
    /\ pc = "join" /\ reader = "ended" /\ ~Alive
    /\ reaped' = TRUE /\ pc' = "returned"
    /\ UNCHANGED <<unwritten, stdin, child, stdout, printed, lines, reader, outcome>>

Caller ==
    \/ Spawn \/ WritePrompt \/ StartReader \/ ReceiveLine \/ Watchdog
    \/ JoinAfterKill \/ StreamEnded \/ JoinAndWait

-----------------------------------------------------------------------------
(* The reader thread sends what it reads until the child's end is closed,  *)
(* or a line is not UTF-8; both end the stream for the caller.             *)
ReadLine ==
    /\ reader = "reading"
    /\ \/ /\ stdout # << >>
          /\ lines' = Append(lines, Head(stdout)) /\ stdout' = Tail(stdout)
          /\ UNCHANGED reader
       \/ /\ stdout # << >>
          /\ reader' = "ended" /\ stdout' = Tail(stdout) /\ UNCHANGED lines
       \/ /\ stdout = << >> /\ ~Alive
          /\ reader' = "ended" /\ UNCHANGED <<lines, stdout>>
    /\ UNCHANGED <<pc, unwritten, stdin, child, reaped, printed, outcome>>

-----------------------------------------------------------------------------
(* The claude CLI, as the adapter's comments describe it: it reads its     *)
(* prompt to the end, which is where the caller drops its end of the pipe, *)
(* prints events while somebody holds the other end of its stdout, and may *)
(* hang or exit anywhere.                                                  *)
StdoutOpen == reader = "reading" \/ (reader = "none" /\ pc # "returned")

ChildReads ==
    /\ child = "reading"
    /\ \/ stdin > 0 /\ stdin' = stdin - 1 /\ UNCHANGED child
       \/ /\ stdin = 0 /\ (unwritten = 0 \/ pc = "returned")
          /\ child' = "working" /\ UNCHANGED stdin
    /\ UNCHANGED <<pc, unwritten, reaped, stdout, printed, lines, reader, outcome>>

ChildPrints ==
    /\ child = "working" /\ StdoutOpen /\ Len(stdout) < PipeSize /\ printed < MaxEvents
    /\ \E line \in Events : stdout' = Append(stdout, line)
    /\ printed' = printed + 1
    /\ UNCHANGED <<pc, unwritten, stdin, child, reaped, lines, reader, outcome>>

ChildStops ==
    /\ child \in {"reading", "working"}
    /\ child' \in {"hung", "exited"}
    /\ UNCHANGED <<pc, unwritten, stdin, reaped, stdout, printed, lines, reader, outcome>>

Child == ChildReads \/ ChildPrints \/ ChildStops

CallNext == Caller \/ ReadLine \/ Child

(* The threads of the program are scheduled and the clock runs; nothing is *)
(* assumed of the child.                                                   *)
CallFairness == WF_callVars(Caller) /\ WF_callVars(ReadLine)

CallSpec == CallInit /\ [][CallNext]_callVars /\ CallFairness

-----------------------------------------------------------------------------
(* How complete leaves its child, whatever the child does.  Only a failed  *)
(* write of the prompt may leave it running; on every other way out it has *)
(* exited or been killed.  Of these, a result and a stream that ended      *)
(* early have also waited for it; a stalled child and one whose result     *)
(* does not parse are killed and never waited for.                         *)
NoChildOutlivesCall ==
    pc = "returned" =>
        /\ outcome # "write error" => ~Alive
        /\ outcome \in {"answer", "error", "ended early"} => reaped

(* "The main loop does recv_timeout and kills the child if no event        *)
(* arrives": a child that hangs while it owes the result is not waited for *)
(* for ever.  What it may still have printed is read before.               *)
OwesResult == pc = "receive" /\ {"result", "error result"} \cap ToSet(lines \o stdout) = {}
StallIsEnded == (child = "hung" /\ OwesResult) ~> pc = "returned"

=============================================================================
