------------------------------- MODULE TraceSink -------------------------------
(***************************************************************************)
(* The JSONL trace of what is sent to models and received from them        *)
(* (caw-adapters/src/tracing.rs), under the two parallel phases of the     *)
(* bench (caw-bench/src/main.rs): items are answered by one pool of        *)
(* threads, then judged by another.                                        *)
(*                                                                         *)
(* A sink has a counter and a mutex of its own over a file opened to       *)
(* append.  `writeln!` on a File makes two writes, the text and the        *)
(* newline, and other processes or sinks on the same file may write        *)
(* between the two.  The bench builds an adapter per item, and so, when    *)
(* CAW_TRACE_FILE is set, a sink per item on that file; clones of a sink   *)
(* share its counter and its mutex.  An item makes one call of a model per *)
(* phase here; in the code it may make several, one after the other.       *)
(***************************************************************************)
EXTENDS Naturals, Sequences, FiniteSets

CONSTANTS
    Items,
    Concurrency,    \* threads of the pool that answers
    JudgeWorkers,   \* threads of the pool that judges
    SinkPerAdapter  \* TRUE: each adapter opens the file; FALSE: clones of one sink

ASSUME TraceAssumption ==
    /\ Concurrency \in Nat \ {0} /\ JudgeWorkers \in Nat \ {0}
    /\ SinkPerAdapter \in BOOLEAN

VARIABLES
    phase,      \* "answer" or "judge"
    at,         \* item -> where its call of the model is
    results,    \* item -> "none", "pending" (answered, to be judged), "scored", "failed"
    number,     \* item -> seq of the event it is logging
    seq,        \* sink -> the next seq
    lock,       \* sink -> the items that hold its mutex
    file        \* the texts and newlines of the trace

traceVars == <<phase, at, results, number, seq, lock, file>>

Sinks == Items \cup {"shared"}
SinkOf(i) == IF SinkPerAdapter THEN i ELSE "shared"
Newline == [text |-> "newline"]
Text(i, kind) == [text |-> kind, item |-> i, phase |-> phase, seq |-> number[i]]

\* The two events of a call, and the stages of logging one.
Kinds == {"request", "response"}
Logging == [request |-> "log_request", response |-> "log_response"]
Numbered == [request |-> "numbered_request", response |-> "numbered_response"]
Writing == [request |-> "writing_request", response |-> "writing_response"]

Busy == {"log_request", "numbered_request", "writing_request", "asking",
         "log_response", "numbered_response", "writing_response"}
Running == {i \in Items : at[i] \in Busy}

TraceInit ==
    /\ phase = "answer"
    /\ at = [i \in Items |-> "waiting"]
    /\ results = [i \in Items |-> "none"]
    /\ number = [i \in Items |-> 0]
    /\ seq = [s \in Sinks |-> 0]
    /\ lock = [s \in Sinks |-> {}]
    /\ file = << >>

(* A thread of the pool takes an item and builds its adapter; an item the  *)
(* judge finds without an answer is left alone.                            *)
BuildAdapter(i) ==
    /\ at[i] = "waiting"
    /\ Cardinality(Running) < IF phase = "answer" THEN Concurrency ELSE JudgeWorkers
    /\ \/ /\ phase = "judge" => results[i] = "pending"
          /\ at' = [at EXCEPT ![i] = "log_request"]
          /\ seq' = IF SinkPerAdapter THEN [seq EXCEPT ![i] = 0] ELSE seq
          /\ UNCHANGED results
       \/ /\ phase = "answer"       \* error building the adapter: no result
          /\ at' = [at EXCEPT ![i] = "done"]
          /\ results' = [results EXCEPT ![i] = "failed"]
          /\ UNCHANGED seq
       \/ /\ phase = "judge"        \* no judge, or nothing to judge
          /\ at' = [at EXCEPT ![i] = "done"]
          /\ UNCHANGED <<results, seq>>
    /\ UNCHANGED <<phase, number, lock, file>>

\* TraceSink::log takes its number before it takes the mutex.
TakeNumber(i, kind) ==
    /\ at[i] = Logging[kind]
    /\ at' = [at EXCEPT ![i] = Numbered[kind]]
    /\ number' = [number EXCEPT ![i] = seq[SinkOf(i)]]
    /\ seq' = [seq EXCEPT ![SinkOf(i)] = @ + 1]
    /\ UNCHANGED <<phase, results, lock, file>>

\* Mutant of WriteText: the mutex is not waited for.
WriteTextUnlocked(i, kind) ==
    /\ at[i] = Numbered[kind]
    /\ lock' = [lock EXCEPT ![SinkOf(i)] = @ \cup {i}]
    /\ at' = [at EXCEPT ![i] = Writing[kind]]
    /\ file' = Append(file, Text(i, kind))
    /\ UNCHANGED <<phase, results, number, seq>>

WriteText(i, kind) ==
    /\ at[i] = Numbered[kind]
    /\ lock[SinkOf(i)] = {}
    /\ lock' = [lock EXCEPT ![SinkOf(i)] = {i}]
    /\ at' = [at EXCEPT ![i] = Writing[kind]]
    /\ file' = Append(file, Text(i, kind))
    /\ UNCHANGED <<phase, results, number, seq>>

\* The second write, the flush and the end of the guard.
EndLine(i, kind) ==
    /\ at[i] = Writing[kind]
    /\ file' = Append(file, Newline)
    /\ lock' = [lock EXCEPT ![SinkOf(i)] = @ \ {i}]
    /\ at' = [at EXCEPT ![i] = IF kind = "request" THEN "asking" ELSE "done"]
    /\ UNCHANGED <<phase, results, number, seq>>

(* The model answers or fails; either is logged.  A judge that fails       *)
(* leaves the item pending.                                                *)
Answer(i) ==
    /\ at[i] = "asking"
    /\ at' = [at EXCEPT ![i] = "log_response"]
    /\ \E ok \in BOOLEAN :
        results' = [results EXCEPT ![i] =
            IF phase = "answer" THEN IF ok THEN "pending" ELSE "failed"
            ELSE IF ok THEN "scored" ELSE "pending"]
    /\ UNCHANGED <<phase, number, seq, lock, file>>

\* judge_all starts once every answer exists, over the results there are.
StartJudging ==
    /\ phase = "answer"
    /\ \A i \in Items : at[i] = "done"
    /\ \E i \in Items : results[i] = "pending"
    /\ phase' = "judge"
    /\ at' = [i \in Items |-> IF results[i] = "pending" THEN "waiting" ELSE "done"]
    /\ UNCHANGED <<results, number, seq, lock, file>>

TraceNext ==
    \/ StartJudging
    \/ \E i \in Items :
        \/ BuildAdapter(i) \/ Answer(i)
        \/ \E kind \in Kinds :
            TakeNumber(i, kind) \/ WriteText(i, kind) \/ EndLine(i, kind)

TraceSpec == TraceInit /\ [][TraceNext]_traceVars

-----------------------------------------------------------------------------
(* What the module's comment promises of the file: one JSON object per     *)
(* line, so nothing is written between a text and its newline.  The mutex  *)
(* of TraceSink::log sees to it for the clones of one sink, and for        *)
(* nothing else that writes to the file.                                   *)
LinesAreWhole ==
    \A k \in DOMAIN file :
        k < Len(file) => (file[k] = Newline) # (file[k + 1] = Newline)

=============================================================================
