--------------------------------- MODULE Engine --------------------------------
(***************************************************************************)
(* The engine run of `desktop refresh` (internal/desktop/index.go): a      *)
(* client that talks JSON-RPC to a `codex app-server --stdio` process      *)
(* through two pipes.  Four parties take steps of their own: the client    *)
(* (IndexRollouts, call, notify, shutdown), the goroutine that pumps the   *)
(* engine's output into a channel, the goroutine that waits for the        *)
(* process, and the process.                                               *)
(*                                                                         *)
(* The process is not part of the repository.  It reads a request, answers *)
(* it when it likes, writes notifications and requests of its own in       *)
(* between, and may end at any moment; nothing makes it read or answer.    *)
(*                                                                         *)
(* A page of threads is one unit: how many threads a page holds is left    *)
(* out, so listed[k] counts pages.                                         *)
(***************************************************************************)
EXTENDS Naturals, Sequences

CONSTANTS
    Pages,      \* Pages[k]: pages of threads of kind k, see Listing
    InCap,      \* requests the engine's stdin holds unread
    OutCap,     \* lines its stdout holds unread
    ChanCap,    \* lines the channel holds (64 in the code)
    MaxChatter  \* lines the engine writes unasked; bounds the model

Kinds == {"live", "archived"}

\* Two requests are unread at most: "initialized" and the first thread/list.
\* The real pipe holds 64 KiB, several hundred requests.
ASSUME EngineAssumption ==
    /\ Pages \in [Kinds -> Nat \ {0}]
    /\ InCap \in Nat /\ InCap >= 2
    /\ OutCap \in Nat \ {0} /\ ChanCap \in Nat \ {0}
    /\ MaxChatter \in Nat

VARIABLES
    pc,        \* what the client is doing
    at, page,  \* the request in hand: its method or thread kind, its page
    next,      \* id of the last call
    listed,    \* listed[k]: pages counted
    outcome,   \* what IndexRollouts is going to return
    ctx,       \* the caller's context is cancelled
    proc,      \* the engine process
    killed,    \* it has been sent SIGKILL
    asked,     \* the call the engine has read and not answered
    chatter,   \* lines it has written unasked
    stdin,     \* requests written and not read
    stdout,    \* lines written and not read
    held,      \* the line the pump has read and not delivered, or none
    lines,     \* the channel
    closed,    \* the channel is closed
    exited     \* Wait has returned: the read end of stdout is closed too

client == <<pc, at, page, next, listed, outcome, ctx>>
process == <<proc, killed, asked, chatter>>
pipes == <<stdin, stdout>>
pump == <<held, lines, closed>>
vars == <<client, process, pipes, pump, exited>>

Methods == Kinds \cup {"initialize", "initialized"}
Request == [id : Nat, method : Methods, page : Nat]
\* An answer, an error answer, an answer that does not decode, a request of
\* the engine's own (which carries an id too), a notification or noise.
LineKinds == {"answer", "error", "garbled", "ask", "noise"}
Line == [kind : LineKinds, id : Nat, cursor : Nat]
NoCall == [id |-> 0, method |-> "initialized", page |-> 0]
Noise == [kind |-> "noise", id |-> 0, cursor |-> 0]

Steps == {"start", "call", "notify", "wait", "reason", "close", "grace", "reap", "done"}

TypeOK ==
    /\ pc \in Steps
    /\ at \in Kinds \cup {"initialize"} /\ page \in Nat /\ next \in Nat
    /\ listed \in [Kinds -> Nat]
    /\ outcome \in {"none", "ok", "failed"} /\ ctx \in BOOLEAN
    /\ proc \in {"none", "running", "gone"} /\ killed \in BOOLEAN
    /\ asked \in Request /\ chatter \in 0..MaxChatter
    /\ stdin \in Seq(Request) /\ stdout \in Seq(Line)
    /\ held \in Seq(Line) /\ Len(held) <= 1
    /\ lines \in Seq(Line) /\ Len(lines) <= ChanCap /\ closed \in BOOLEAN
    /\ exited \in BOOLEAN

Init ==
    /\ pc = "start" /\ at = "initialize" /\ page = 0 /\ next = 0
    /\ listed = [k \in Kinds |-> 0]
    /\ outcome = "none" /\ ctx = FALSE
    /\ proc = "none" /\ killed = FALSE /\ asked = NoCall /\ chatter = 0
    /\ stdin = <<>> /\ stdout = <<>>
    /\ held = <<>> /\ lines = <<>> /\ closed = FALSE
    /\ exited = FALSE

-----------------------------------------------------------------------------
(* The client *)

Fail(to) == pc' = to /\ outcome' = "failed"

\* startEngine: the process runs, or the binary is missing.
Start ==
    /\ pc = "start"
    /\ \/ pc' = "call" /\ proc' = "running" /\ UNCHANGED outcome
       \/ Fail("done") /\ UNCHANGED proc
    /\ UNCHANGED <<at, page, next, listed, ctx, killed, asked, chatter, pipes, pump, exited>>

\* send: Write blocks while the pipe is full, and fails once no process holds
\* its other end (a child of the engine may) or Wait has closed ours.
CanSend == Len(stdin) < InCap /\ ~exited
CannotSend == proc = "gone"

Call ==
    /\ pc = "call"
    /\ next' = next + 1
    /\ \/ /\ CanSend
          /\ stdin' = Append(stdin, [id |-> next + 1, method |-> at, page |-> page])
          /\ pc' = "wait" /\ UNCHANGED outcome
       \/ /\ CannotSend
          /\ Fail("reason") /\ UNCHANGED stdin
    /\ UNCHANGED <<at, page, listed, ctx, process, stdout, pump, exited>>

Notify ==
    /\ pc = "notify"
    /\ \/ /\ CanSend
          /\ stdin' = Append(stdin, NoCall)
          /\ pc' = "call" /\ UNCHANGED outcome
       \/ /\ CannotSend
          /\ Fail("close") /\ UNCHANGED stdin
    /\ UNCHANGED <<at, page, next, listed, ctx, process, stdout, pump, exited>>

\* Mutant: any answer is taken for the answer to this call.
AnyAnswer(line) == line.kind \in {"answer", "error", "garbled"}

\* call takes a line for its answer when the id is its own and no method is
\* there; every other line is skipped.
Answers(line) == line.id = next /\ line.kind \in {"answer", "error", "garbled"}

\* The next request after an answer that names the next page, or none.
\* The cursor starts over with the archived threads.
Advance(cursor) ==
    IF cursor # 0
    THEN page' = cursor /\ pc' = "call" /\ UNCHANGED <<at, outcome>>
    ELSE IF at = "live"
    THEN at' = "archived" /\ page' = 1 /\ pc' = "call" /\ UNCHANGED outcome
    ELSE pc' = "close" /\ outcome' = "ok" /\ UNCHANGED <<at, page>>

Receive ==
    /\ pc = "wait" /\ lines # <<>>
    /\ lines' = Tail(lines)
    /\ LET line == Head(lines) IN
       \/ /\ ~Answers(line)
          /\ UNCHANGED <<pc, at, page, listed, outcome>>
       \/ /\ Answers(line)
          /\ line.kind = "error" \/ (line.kind = "garbled" /\ at # "initialize")
          /\ Fail("close") /\ UNCHANGED <<at, page, listed>>
       \/ /\ Answers(line) /\ line.kind # "error" /\ at = "initialize"
          /\ pc' = "notify" /\ at' = "live" /\ page' = 1
          /\ UNCHANGED <<listed, outcome>>
       \/ /\ Answers(line) /\ line.kind = "answer" /\ at # "initialize"
          /\ listed' = [listed EXCEPT ![at] = @ + 1]
          /\ Advance(line.cursor)
    /\ UNCHANGED <<next, ctx, process, pipes, held, closed, exited>>

\* The channel is closed and drained: the engine has stopped answering.
NoMoreLines ==
    /\ pc = "wait" /\ closed /\ lines = <<>>
    /\ Fail("reason")
    /\ UNCHANGED <<at, page, next, listed, ctx, process, pipes, pump, exited>>

Cancelled ==
    /\ pc = "wait" /\ ctx
    /\ Fail("close")
    /\ UNCHANGED <<at, page, next, listed, ctx, process, pipes, pump, exited>>

\* requestTimeout.
TimedOut ==
    /\ pc = "wait"
    /\ Fail("close")
    /\ UNCHANGED <<at, page, next, listed, ctx, process, pipes, pump, exited>>

\* exitReason waits for the exit status, for two seconds at most.
ExitReason ==
    /\ pc = "reason"
    /\ pc' = "close"
    /\ UNCHANGED <<at, page, next, listed, outcome, ctx, process, pipes, pump, exited>>

\* shutdown.  A closed stdin tells the engine to end.
CloseStdin ==
    /\ pc = "close"
    /\ pc' = "grace"
    /\ UNCHANGED <<at, page, next, listed, outcome, ctx, process, pipes, pump, exited>>

\* Mutant: shutdown goes on waiting for an engine that does not end.
NeverKill ==
    /\ pc = "grace"
    /\ pc' = "reap"
    /\ UNCHANGED <<at, page, next, listed, outcome, ctx, process, pipes, pump, exited>>

\* shutdownGrace is over.
Kill ==
    /\ pc = "grace"
    /\ killed' = TRUE
    /\ pc' = "reap"
    /\ UNCHANGED <<at, page, next, listed, outcome, ctx, proc, asked, chatter, pipes, pump, exited>>

Return ==
    /\ pc \in {"grace", "reap"} /\ exited
    /\ pc' = "done"
    /\ UNCHANGED <<at, page, next, listed, outcome, ctx, process, pipes, pump, exited>>

\* The caller cancels, as the interface of IndexRollouts allows (the command
\* itself passes context.Background()); CommandContext kills the process.
Cancel ==
    /\ proc # "none" /\ pc # "done" /\ ~ctx
    /\ ctx' = TRUE /\ killed' = TRUE
    /\ UNCHANGED <<pc, at, page, next, listed, outcome, proc, asked, chatter, pipes, pump, exited>>

-----------------------------------------------------------------------------
(* The goroutines *)

PumpRead ==
    /\ proc # "none" /\ ~closed /\ held = <<>> /\ stdout # <<>>
    /\ held' = <<Head(stdout)>>
    /\ stdout' = Tail(stdout)
    /\ UNCHANGED <<client, process, stdin, lines, closed, exited>>

\* Mutant: a channel without a bound.
UnboundedDeliver ==
    /\ held # <<>>
    /\ lines' = Append(lines, Head(held))
    /\ held' = <<>>
    /\ UNCHANGED <<client, process, pipes, closed, exited>>

PumpDeliver ==
    /\ held # <<>> /\ Len(lines) < ChanCap
    /\ lines' = Append(lines, Head(held))
    /\ held' = <<>>
    /\ UNCHANGED <<client, process, pipes, closed, exited>>

\* Every process that holds the write end has ended.
PumpEOF ==
    /\ proc = "gone" /\ ~closed /\ held = <<>> /\ stdout = <<>>
    /\ closed' = TRUE
    /\ UNCHANGED <<client, process, pipes, held, lines, exited>>

\* Wait has closed the read end under the scanner.
PumpClosed ==
    /\ exited /\ ~closed /\ held = <<>> /\ stdout = <<>>
    /\ closed' = TRUE
    /\ UNCHANGED <<client, process, pipes, held, lines, exited>>

\* A line of more than 64 MiB ends the scan, whatever the engine does.
PumpError ==
    /\ proc # "none" /\ ~closed /\ held = <<>>
    /\ closed' = TRUE
    /\ UNCHANGED <<client, process, pipes, held, lines, exited>>

\* Wait closes stdout when the process has ended; of the lines in the pipe
\* those that the scanner has in its buffer survive.
Wait ==
    /\ proc = "gone" /\ ~exited
    /\ exited' = TRUE
    /\ \E n \in 0..Len(stdout) : stdout' = SubSeq(stdout, 1, n)
    /\ UNCHANGED <<client, process, stdin, pump>>

-----------------------------------------------------------------------------
(* The engine process *)

EngineRead ==
    /\ proc = "running" /\ asked = NoCall /\ stdin # <<>>
    /\ asked' = Head(stdin)
    /\ stdin' = Tail(stdin)
    /\ UNCHANGED <<client, proc, killed, chatter, stdout, pump, exited>>

Cursor(request) ==
    IF request.method \in Kinds /\ request.page < Pages[request.method]
    THEN request.page + 1 ELSE 0

EngineAnswer ==
    /\ proc = "running" /\ asked.id # 0 /\ Len(stdout) < OutCap
    /\ \E kind \in {"answer", "error", "garbled"} :
         stdout' = Append(stdout, [kind |-> kind, id |-> asked.id, cursor |-> Cursor(asked)])
    /\ asked' = NoCall
    /\ UNCHANGED <<client, proc, killed, chatter, stdin, pump, exited>>

\* A request of the engine's own may carry an id the client has used, and an
\* earlier call may be answered a second time.
Unasked == {Noise} \cup [kind : {"ask"}, id : 1..next, cursor : {0}]
                   \cup [kind : {"answer"}, id : 1..(next - 1), cursor : {0}]

EngineChat ==
    /\ proc = "running" /\ chatter < MaxChatter /\ Len(stdout) < OutCap
    /\ \E line \in Unasked : stdout' = Append(stdout, line)
    /\ chatter' = chatter + 1
    /\ UNCHANGED <<client, proc, killed, asked, stdin, pump, exited>>

EngineEnds ==
    /\ proc = "running"
    /\ proc' = "gone"
    /\ UNCHANGED <<client, killed, asked, chatter, pipes, pump, exited>>

-----------------------------------------------------------------------------

Client ==
    \/ Start \/ Call \/ Notify \/ Receive \/ NoMoreLines \/ Cancelled \/ ExitReason
    \/ CloseStdin \/ Kill \/ Return
Goroutines == PumpRead \/ PumpDeliver \/ PumpClosed
Process == EngineRead \/ EngineAnswer \/ EngineChat \/ EngineEnds

\* IndexRollouts has returned; the goroutines may go on.
Finished ==
    /\ pc = "done"
    /\ UNCHANGED vars

Next ==
    \/ Client \/ TimedOut \/ Cancel \/ Goroutines \/ PumpEOF \/ PumpError \/ Wait
    \/ Process \/ Finished

Spec == Init /\ [][Next]_vars

\* The goroutines and the client run, the grace period passes, and SIGKILL
\* ends the process.  Nothing makes the engine read, answer or exit by itself,
\* a child of it may keep its stdout open, and the five minutes of a request
\* are left out so that they cannot hide a wait that nothing else would end.
Fairness ==
    /\ WF_vars(Client) /\ WF_vars(PumpRead \/ PumpDeliver) /\ WF_vars(PumpClosed)
    /\ WF_vars(Wait)
    /\ WF_vars(killed /\ EngineEnds)

FairSpec == Spec /\ Fairness

-----------------------------------------------------------------------------

Promise == INSTANCE Listing WITH
    engine <- proc,
    result <- IF pc = "done" THEN outcome ELSE "none"

\* The client keeps the promise of Listing whatever the engine writes and
\* whenever it dies: no page is counted twice, left out of a listing that
\* succeeds or taken from a request of the engine's own, and the engine has
\* gone when IndexRollouts returns (index.go:40, call, shutdown).
KeepsPromise == Promise!Spec

\* IndexRollouts comes to an end by itself, or it waits for the answer of an
\* engine that is alive: the one wait the request timeout has to end
\* (index.go:148-158, :194-233).
EndsUnlessUnanswered == <>(pc = "done") \/ <>[](pc = "wait" /\ proc = "running")
================================================================================
