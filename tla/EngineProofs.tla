------------------------------ MODULE EngineProofs -----------------------------
(***************************************************************************)
(* The client of the engine keeps the promise of Listing, for any number   *)
(* of pages, any capacity of the pipes and the channel, and whatever the   *)
(* engine writes.                                                          *)
(***************************************************************************)
EXTENDS Engine, TLAPS

Asking == pc \in {"call", "notify", "wait"}

\* The pages counted are those before the one asked for.
Position ==
    /\ (Asking \/ pc = "start") /\ at = "initialize" =>
         listed["live"] = 0 /\ listed["archived"] = 0
    /\ Asking /\ at = "live" =>
         /\ page = listed["live"] + 1 /\ page <= Pages["live"]
         /\ listed["archived"] = 0
    /\ Asking /\ at = "archived" =>
         /\ listed["live"] = Pages["live"]
         /\ page = listed["archived"] + 1 /\ page <= Pages["archived"]

\* What IndexRollouts is going to return.
OutcomeInv ==
    /\ outcome = "none" <=> Asking \/ pc = "start"
    /\ outcome = "ok" => listed = Pages

\* The process, as the client knows it.
ProcessInv ==
    /\ pc = "start" => at = "initialize" /\ proc = "none"
    /\ proc = "none" => pc \in {"start", "done"}
    /\ exited => proc = "gone"
    /\ pc = "done" => proc # "running"
    /\ pc = "wait" => next # 0

\* A request that carries the id of the call that waits is that call's.
OwnRequest(r) == r.id <= next /\ (pc = "wait" /\ r.id = next => r.method = at /\ r.page = page)

Requests == OwnRequest(asked) /\ \A i \in 1..Len(stdin) : OwnRequest(stdin[i])

\* An answer that carries it names the page that follows the one asked for.
Current == [id |-> next, method |-> at, page |-> page]
OwnAnswer(l) ==
    l.id <= next /\ (pc = "wait" /\ l.id = next /\ l.kind = "answer" => l.cursor = Cursor(Current))

Answered ==
    /\ \A i \in 1..Len(stdout) : OwnAnswer(stdout[i])
    /\ \A i \in 1..Len(held) : OwnAnswer(held[i])
    /\ \A i \in 1..Len(lines) : OwnAnswer(lines[i])

Inv == TypeOK /\ Position /\ OutcomeInv /\ ProcessInv /\ Requests /\ Answered

-----------------------------------------------------------------------------
LEMMA CursorType == \A r \in Request : Cursor(r) \in Nat
  BY EngineAssumption DEF Request, Cursor

LEMMA NoCallType == NoCall \in Request /\ NoCall.id = 0
  BY DEF NoCall, Request, Methods

LEMMA Appended ==
    ASSUME NEW S, NEW s \in Seq(S), NEW e \in S, NEW t, t = s \/ t = Append(s, e)
    PROVE  /\ t \in Seq(S)
           /\ \A i \in 1..Len(t) : t[i] = e \/ (i \in 1..Len(s) /\ t[i] = s[i])
  OBVIOUS

LEMMA InitInv == Init => Inv
<1> SUFFICES ASSUME Init PROVE Inv
  OBVIOUS
<1>1. TypeOK
  <2>1. pc \in Steps /\ at \in Kinds \cup {"initialize"} /\ listed \in [Kinds -> Nat]
    BY DEF Init, Steps, Kinds
  <2>2. asked \in Request /\ chatter \in 0..MaxChatter
    BY NoCallType, EngineAssumption DEF Init
  <2>3. Len(lines) <= ChanCap /\ Len(held) <= 1
    BY EngineAssumption DEF Init
  <2>4. /\ stdin \in Seq(Request) /\ stdout \in Seq(Line)
        /\ held \in Seq(Line) /\ lines \in Seq(Line)
    BY DEF Init
  <2>5. page \in Nat /\ next \in Nat
    BY DEF Init
  <2>6. /\ outcome \in {"none", "ok", "failed"} /\ ctx \in BOOLEAN
        /\ proc \in {"none", "running", "gone"} /\ killed \in BOOLEAN
        /\ closed \in BOOLEAN /\ exited \in BOOLEAN
    BY DEF Init
  <2> QED
    BY <2>1, <2>2, <2>3, <2>4, <2>5, <2>6 DEF TypeOK
<1>2. Position /\ OutcomeInv /\ ProcessInv
  BY DEF Init, Position, Asking, OutcomeInv, ProcessInv, Kinds
<1>3. Requests /\ Answered
  BY NoCallType DEF Init, Requests, OwnRequest, Answered
<1> QED
  BY <1>1, <1>2, <1>3 DEF Inv

-----------------------------------------------------------------------------
LEMMA StepType ==
    ASSUME TypeOK, [Next]_vars
    PROVE  TypeOK'
<1> USE DEF TypeOK, client, process, pipes, pump
<1>1. CASE Start
  BY <1>1 DEF Start, Fail, Steps
<1>2. CASE Call
  <2> DEFINE new == [id |-> next + 1, method |-> at, page |-> page]
  <2>1. new \in Request
    BY DEF Request, Methods
  <2>2. stdin' = stdin \/ stdin' = Append(stdin, new)
    BY <1>2 DEF Call
  <2>3. stdin' \in Seq(Request)
    <3> HIDE DEF new
    <3> QED
      BY <2>1, <2>2, Appended
  <2>4. pc' \in Steps /\ outcome' \in {"none", "ok", "failed"}
    BY <1>2 DEF Call, Fail, Steps
  <2> QED
    BY <1>2, <2>3, <2>4 DEF Call
<1>3. CASE Notify
  <2>1. stdin' \in Seq(Request)
    <3>1. stdin' = stdin \/ stdin' = Append(stdin, NoCall)
      BY <1>3 DEF Notify
    <3> QED
      BY <3>1, NoCallType, Appended
  <2>2. pc' \in Steps /\ outcome' \in {"none", "ok", "failed"}
    BY <1>3 DEF Notify, Fail, Steps
  <2> QED
    BY <1>3, <2>1, <2>2 DEF Notify
<1>4. CASE Receive
  <2>1. Head(lines) \in Line /\ Tail(lines) \in Seq(Line) /\ Len(Tail(lines)) <= ChanCap
    BY <1>4, EngineAssumption DEF Receive
  <2>2. lines' \in Seq(Line) /\ Len(lines') <= ChanCap
    BY <1>4, <2>1 DEF Receive
  <2>3. Head(lines).cursor \in Nat
    BY <2>1 DEF Line
  <2>4. /\ pc' \in Steps /\ outcome' \in {"none", "ok", "failed"}
        /\ at' \in Kinds \cup {"initialize"} /\ page' \in Nat
        /\ listed' \in [Kinds -> Nat]
    BY <1>4, <2>3 DEF Receive, Advance, Fail, Steps, Kinds
  <2> QED
    BY <1>4, <2>2, <2>4 DEF Receive
<1>5. CASE NoMoreLines \/ Cancelled \/ TimedOut \/ ExitReason \/ CloseStdin \/ Kill \/ Return \/ Cancel
  BY <1>5 DEF NoMoreLines, Cancelled, TimedOut, ExitReason, CloseStdin, Kill, Return, Cancel, Fail, Steps
<1>6. CASE PumpRead
  BY <1>6 DEF PumpRead
<1>7. CASE PumpDeliver
  BY <1>7, EngineAssumption DEF PumpDeliver
<1>8. CASE PumpEOF \/ PumpError \/ PumpClosed
  BY <1>8 DEF PumpEOF, PumpError, PumpClosed
<1>9. CASE Wait
  BY <1>9 DEF Wait
<1>10. CASE EngineRead
  BY <1>10 DEF EngineRead
<1>11. CASE EngineAnswer
  <2>1. \A kind \in {"answer", "error", "garbled"} :
          [kind |-> kind, id |-> asked.id, cursor |-> Cursor(asked)] \in Line
    BY CursorType DEF Line, LineKinds, Request
  <2> QED
    BY <1>11, <2>1, NoCallType DEF EngineAnswer
<1>12. CASE EngineChat
  <2>1. Unasked \subseteq Line
    BY DEF Unasked, Noise, Line, LineKinds
  <2> QED
    BY <1>12, <2>1, EngineAssumption DEF EngineChat
<1>13. CASE EngineEnds
  BY <1>13 DEF EngineEnds
<1>14. CASE UNCHANGED vars
  BY <1>14 DEF vars
<1> QED
  BY <1>1, <1>2, <1>3, <1>4, <1>5, <1>6, <1>7, <1>8, <1>9, <1>10, <1>11, <1>12, <1>13, <1>14
     DEF Next, Client, Goroutines, Process, Finished

-----------------------------------------------------------------------------
LEMMA StepProcess ==
    ASSUME TypeOK, ProcessInv, [Next]_vars
    PROVE  ProcessInv'
<1> USE DEF ProcessInv, TypeOK, client, process, pipes, pump
<1>1. CASE Client
  BY <1>1 DEF Client, Start, Call, Notify, Receive, Advance, NoMoreLines, Cancelled, ExitReason,
     CloseStdin, Kill, Return, Fail
<1>2. CASE TimedOut \/ Cancel \/ Wait \/ PumpEOF \/ PumpError
  BY <1>2 DEF TimedOut, Fail, Cancel, Wait, PumpEOF, PumpError
<1>3. CASE Goroutines \/ Process
  BY <1>3 DEF Goroutines, PumpRead, PumpDeliver, PumpClosed, Process, EngineRead, EngineAnswer,
     EngineChat, EngineEnds
<1>4. CASE UNCHANGED vars
  BY <1>4 DEF vars
<1> QED
  BY <1>1, <1>2, <1>3, <1>4 DEF Next, Finished

\* Only the client moves on, and every step of it but Receive leaves the
\* request in hand and the pages counted alone.
LEMMA StepPosition ==
    ASSUME Inv, [Next]_vars
    PROVE  Position' /\ OutcomeInv'
<1> USE DEF Inv, TypeOK, Position, OutcomeInv, Asking, client
<1>1. CASE Receive
  <2> DEFINE line == Head(lines)
  <2>1. line \in Line /\ OwnAnswer(line)
    BY <1>1 DEF Receive, Answered
  <2>2. CASE ~Answers(line)
    BY <1>1, <2>2 DEF Receive
  <2>3. CASE UNCHANGED listed /\ Fail("close")
    BY <2>3 DEF Fail
  <2>4. CASE at = "initialize" /\ pc' = "notify" /\ at' = "live" /\ page' = 1 /\ UNCHANGED <<listed, outcome>>
    BY <1>1, <2>4, EngineAssumption DEF Receive, Kinds
  <2>5. CASE /\ Answers(line) /\ line.kind = "answer" /\ at # "initialize"
             /\ listed' = [listed EXCEPT ![at] = @ + 1]
             /\ Advance(line.cursor)
    <3>1. at \in Kinds /\ pc = "wait" /\ outcome = "none"
      BY <1>1, <2>5 DEF Receive
    <3>2. line.cursor = IF page < Pages[at] THEN page + 1 ELSE 0
      BY <1>1, <2>1, <2>5, <3>1 DEF Answers, OwnAnswer, Cursor, Current
    <3>3. /\ listed[at] + 1 = page /\ page <= Pages[at]
          /\ listed'[at] = page
          /\ \A k \in Kinds \ {at} : listed'[k] = listed[k]
      BY <2>5, <3>1 DEF Kinds
    <3>4. CASE line.cursor # 0
      BY <2>5, <3>1, <3>2, <3>3, <3>4, EngineAssumption DEF Advance, Kinds
    <3>5. CASE line.cursor = 0 /\ at = "live"
      BY <2>5, <3>1, <3>2, <3>3, <3>5, EngineAssumption DEF Advance, Kinds
    <3>6. CASE line.cursor = 0 /\ at = "archived"
      <4>1. listed' \in [Kinds -> Nat] /\ \A k \in Kinds : listed'[k] = Pages[k]
        BY <2>5, <3>1, <3>2, <3>3, <3>6, EngineAssumption DEF Kinds
      <4>2. listed' = Pages
        BY <4>1, EngineAssumption
      <4> QED
        BY <2>5, <3>6, <4>2 DEF Advance
    <3> QED
      BY <3>1, <3>4, <3>5, <3>6 DEF Kinds
  <2> QED
    BY <1>1, <2>2, <2>3, <2>4, <2>5 DEF Receive
<1>2. CASE Start \/ Call \/ Notify
  BY <1>2 DEF Start, Call, Notify, Fail, ProcessInv
<1>3. CASE NoMoreLines \/ Cancelled \/ TimedOut \/ ExitReason \/ CloseStdin \/ Kill \/ Return \/ Cancel
  BY <1>3 DEF NoMoreLines, Cancelled, TimedOut, ExitReason, CloseStdin, Kill, Return, Cancel, Fail
<1>4. CASE UNCHANGED client
  BY <1>4
<1> QED
  BY <1>1, <1>2, <1>3, <1>4 DEF Next, Client, Goroutines, PumpRead, PumpDeliver, PumpClosed, PumpEOF, PumpError,
     Wait, Process, EngineRead, EngineAnswer, EngineChat, EngineEnds, Finished, vars

-----------------------------------------------------------------------------
\* While the request in hand and its id stay, so do requests and answers.
LEMMA Unchanged ==
    ASSUME TypeOK, UNCHANGED <<at, page, next>>, pc' = "wait" => pc = "wait"
    PROVE  /\ \A r : OwnRequest(r) => OwnRequest(r)'
           /\ \A l : OwnAnswer(l) => OwnAnswer(l)'
  BY DEF OwnRequest, OwnAnswer, Cursor, Current

LEMMA StepRequests ==
    ASSUME Inv, [Next]_vars
    PROVE  Requests'
<1> USE DEF Inv, TypeOK, client, process, pipes, pump
<1>1. CASE Call
  <2> DEFINE new == [id |-> next + 1, method |-> at, page |-> page]
  <2>1. \A r \in Request : OwnRequest(r) => OwnRequest(r)'
    BY <1>1 DEF Call, OwnRequest, Request
  <2>2. next' = next + 1 /\ UNCHANGED <<at, page, asked>>
    BY <1>1 DEF Call
  <2>3. \A r : r = new => OwnRequest(r)'
    BY <2>2 DEF OwnRequest
  <2>4. stdin' = stdin \/ stdin' = Append(stdin, new)
    BY <1>1 DEF Call
  <2>5. new \in Request
    BY DEF Request, Methods
  <2> HIDE DEF new
  <2>6. \A i \in 1..Len(stdin') : stdin'[i] = new \/ (i \in 1..Len(stdin) /\ stdin'[i] = stdin[i])
    BY <2>4, <2>5, Appended
  <2>7. \A i \in 1..Len(stdin) : stdin[i] \in Request
    OBVIOUS
  <2> QED
    BY <2>1, <2>2, <2>3, <2>6, <2>7 DEF Requests
<1>2. CASE Notify
  <2>1. \A r : OwnRequest(r) => OwnRequest(r)'
    BY <1>2, Unchanged DEF Notify, Fail
  <2>2. OwnRequest(NoCall)'
    BY <1>2, NoCallType DEF Notify, Fail, OwnRequest
  <2>3. stdin' = stdin \/ stdin' = Append(stdin, NoCall)
    BY <1>2 DEF Notify
  <2>4. \A i \in 1..Len(stdin') : stdin'[i] = NoCall \/ (i \in 1..Len(stdin) /\ stdin'[i] = stdin[i])
    BY <2>3, NoCallType, Appended
  <2>5. UNCHANGED asked
    BY <1>2 DEF Notify
  <2> QED
    BY <2>1, <2>2, <2>4, <2>5 DEF Requests
<1>3. CASE Receive
  <2>1. \A r \in Request : OwnRequest(r) => OwnRequest(r)'
    BY <1>3 DEF Receive, Advance, Fail, OwnRequest, Request
  <2> QED
    BY <1>3, <2>1 DEF Receive, Requests
<1>4. CASE Start \/ NoMoreLines \/ Cancelled \/ TimedOut \/ ExitReason \/ CloseStdin \/ Kill \/ Return \/ Cancel
  <2>1. UNCHANGED <<at, page, next, stdin, asked>> /\ (pc' = "wait" => pc = "wait")
    BY <1>4 DEF Start, NoMoreLines, Cancelled, TimedOut, ExitReason, CloseStdin, Kill, Return, Cancel, Fail
  <2> QED
    BY <2>1, Unchanged DEF Requests
<1>5. CASE UNCHANGED client /\ UNCHANGED <<stdin, asked>>
  BY <1>5, Unchanged DEF Requests
<1>6. CASE EngineRead
  <2>1. \A r : OwnRequest(r) => OwnRequest(r)'
    BY <1>6, Unchanged DEF EngineRead
  <2>2. /\ OwnRequest(Head(stdin))
        /\ \A i \in 1..Len(Tail(stdin)) : OwnRequest(Tail(stdin)[i])
    BY <1>6 DEF EngineRead, Requests
  <2> QED
    BY <1>6, <2>1, <2>2 DEF EngineRead, Requests
<1>7. CASE EngineAnswer
  <2>1. \A r : OwnRequest(r) => OwnRequest(r)'
    BY <1>7, Unchanged DEF EngineAnswer
  <2>2. NoCall' = NoCall
    BY DEF NoCall
  <2>3. OwnRequest(NoCall)'
    BY <1>7, <2>2, NoCallType DEF EngineAnswer, OwnRequest, ProcessInv
  <2> QED
    BY <1>7, <2>1, <2>2, <2>3 DEF EngineAnswer, Requests
<1> QED
  BY <1>1, <1>2, <1>3, <1>4, <1>5, <1>6, <1>7 DEF Next, Client, Goroutines, PumpRead, PumpDeliver,
     PumpClosed, PumpEOF, PumpError, Wait, Process, EngineChat, EngineEnds, Finished, vars

LEMMA StepAnswered ==
    ASSUME Inv, [Next]_vars
    PROVE  Answered'
<1> USE DEF Inv, TypeOK, client, process, pipes, pump
<1>1. CASE Call
  <2>1. \A l \in Line : OwnAnswer(l) => OwnAnswer(l)'
    BY <1>1 DEF Call, OwnAnswer, Line
  <2>2. UNCHANGED <<stdout, held, lines>>
    BY <1>1 DEF Call
  <2>3. /\ \A i \in 1..Len(stdout) : stdout[i] \in Line
        /\ \A i \in 1..Len(held) : held[i] \in Line
        /\ \A i \in 1..Len(lines) : lines[i] \in Line
    OBVIOUS
  <2> QED
    BY <2>1, <2>2, <2>3 DEF Answered
<1>2. CASE Receive
  <2>1. \A l \in Line : OwnAnswer(l) => OwnAnswer(l)'
    BY <1>2 DEF Receive, Advance, Fail, OwnAnswer, Cursor, Current, Line
  <2>2. \A i \in 1..Len(Tail(lines)) : OwnAnswer(Tail(lines)[i]) /\ Tail(lines)[i] \in Line
    BY <1>2 DEF Receive, Answered
  <2> QED
    BY <1>2, <2>1, <2>2 DEF Receive, Answered
<1>3. CASE \/ Start \/ Notify \/ NoMoreLines \/ Cancelled \/ TimedOut \/ ExitReason \/ CloseStdin
           \/ Kill \/ Return \/ Cancel
  <2>1. UNCHANGED <<at, page, next, stdout, held, lines>> /\ (pc' = "wait" => pc = "wait")
    BY <1>3 DEF Start, Notify, NoMoreLines, Cancelled, TimedOut, ExitReason, CloseStdin, Kill, Return, Cancel, Fail
  <2> QED
    BY <2>1, Unchanged DEF Answered
<1>4. CASE UNCHANGED client
  <2>1. \A l : OwnAnswer(l) => OwnAnswer(l)'
    BY <1>4, Unchanged
  <2>2. CASE UNCHANGED <<stdout, held, lines>>
    BY <2>1, <2>2 DEF Answered
  <2>3. CASE PumpRead
    <3>1. /\ OwnAnswer(Head(stdout))
          /\ \A i \in 1..Len(Tail(stdout)) : OwnAnswer(Tail(stdout)[i])
      BY <2>3 DEF PumpRead, Answered
    <3> QED
      BY <2>1, <2>3, <3>1 DEF PumpRead, Answered
  <2>4. CASE PumpDeliver
    <3>1. Head(held) \in Line /\ OwnAnswer(Head(held))
      BY <2>4 DEF PumpDeliver, Answered
    <3> QED
      BY <2>1, <2>4, <3>1 DEF PumpDeliver, Answered
  <2>5. CASE Wait
    <3>1. PICK n \in 0..Len(stdout) : stdout' = SubSeq(stdout, 1, n)
      BY <2>5 DEF Wait
    <3>2. \A i \in 1..Len(stdout') : i \in 1..Len(stdout) /\ stdout'[i] = stdout[i]
      BY <3>1
    <3> QED
      BY <2>1, <2>5, <3>2 DEF Wait, Answered
  <2>6. CASE EngineAnswer
    <3>1. PICK kind \in {"answer", "error", "garbled"} :
            stdout' = Append(stdout, [kind |-> kind, id |-> asked.id, cursor |-> Cursor(asked)])
      BY <2>6 DEF EngineAnswer
    <3> DEFINE new == [kind |-> kind, id |-> asked.id, cursor |-> Cursor(asked)]
    <3>2. OwnAnswer(new)
      BY DEF OwnAnswer, Requests, OwnRequest, Cursor, Current, Request
    <3>3. new \in Line
      BY CursorType DEF Line, LineKinds, Request
    <3>4. \A i \in 1..Len(stdout') : stdout'[i] = new \/ (i \in 1..Len(stdout) /\ stdout'[i] = stdout[i])
      <4> HIDE DEF new
      <4> QED
        BY <3>1, <3>3, Appended DEF new
    <3>5. held' = held /\ lines' = lines
      BY <2>6 DEF EngineAnswer
    <3> HIDE DEF new
    <3>6. \A i \in 1..Len(stdout') : OwnAnswer(stdout'[i])
      BY <3>2, <3>4 DEF Answered
    <3> QED
      BY <2>1, <3>5, <3>6 DEF Answered
  <2>7. CASE EngineChat
    <3>1. PICK new \in Unasked : stdout' = Append(stdout, new)
      BY <2>7 DEF EngineChat
    <3>2. OwnAnswer(new) /\ new \in Line
      BY <3>1 DEF Unasked, Noise, OwnAnswer, Line, LineKinds
    <3>3. \A i \in 1..Len(stdout') : stdout'[i] = new \/ (i \in 1..Len(stdout) /\ stdout'[i] = stdout[i])
      BY <3>1, <3>2, Appended
    <3>4. held' = held /\ lines' = lines
      BY <2>7 DEF EngineChat
    <3>5. \A i \in 1..Len(stdout') : OwnAnswer(stdout'[i])
      BY <3>2, <3>3 DEF Answered
    <3> QED
      BY <2>1, <3>4, <3>5 DEF Answered
  <2>8. \/ UNCHANGED <<stdout, held, lines>> \/ Call \/ Receive
        \/ PumpRead \/ PumpDeliver \/ Wait \/ EngineAnswer \/ EngineChat
    BY DEF Next, Client, Start, Notify, NoMoreLines, Cancelled, ExitReason, CloseStdin, Kill,
       Return, TimedOut, Cancel, Goroutines, PumpClosed, PumpEOF, PumpError, Process, EngineRead, EngineEnds,
       Finished, vars
  <2> QED
    BY <1>1, <1>2, <2>2, <2>3, <2>4, <2>5, <2>6, <2>7, <2>8
<1> QED
  BY <1>1, <1>2, <1>3, <1>4 DEF Next, Client, Goroutines, PumpRead, PumpDeliver, PumpClosed, PumpEOF, PumpError,
     Wait, Process, EngineRead, EngineAnswer, EngineChat, EngineEnds, Finished, vars

LEMMA StepInv == Inv /\ [Next]_vars => Inv'
  BY StepType, StepProcess, StepPosition, StepRequests, StepAnswered DEF Inv

LEMMA Invariance == Spec => []Inv
  BY InitInv, StepInv, PTL DEF Spec

\* Every variable keeps its type; the channel never holds more than its bound.
THEOREM TypeCorrect == Spec => []TypeOK
<1>1. Inv => TypeOK
  BY DEF Inv
<1> QED
  BY <1>1, Invariance, PTL

-----------------------------------------------------------------------------
LEMMA InitPromise == Init => Promise!Init
  BY DEF Init, Promise!Init, Kinds, Promise!Kinds

LEMMA StepPromise == Inv /\ [Next]_vars => [Promise!Next]_Promise!promise
<1> SUFFICES ASSUME Inv, [Next]_vars PROVE [Promise!Next]_Promise!promise
  OBVIOUS
<1> USE DEF Promise!promise, client, process
<1>1. CASE Start
  BY <1>1 DEF Start, Fail, Inv, TypeOK, ProcessInv, Promise!Next, Promise!StartUp, Promise!Return
<1>2. CASE Receive
  <2>1. CASE UNCHANGED listed
    BY <1>2, <2>1 DEF Receive, Advance, Fail
  <2>2. CASE listed' # listed
    <3>1. /\ listed' = [listed EXCEPT ![at] = @ + 1]
          /\ at \in Kinds /\ pc = "wait" /\ pc' # "done"
          /\ UNCHANGED proc
      BY <1>2, <2>2 DEF Receive, Advance, Fail, Inv, TypeOK
    <3>2. /\ listed[at] < Pages[at]
          /\ at = "archived" => listed["live"] = Pages["live"]
      BY <3>1, EngineAssumption DEF Inv, TypeOK, Position, Asking, Kinds
    <3>3. Promise!Count(at)
      BY <3>1, <3>2 DEF Promise!Count, Inv, ProcessInv
    <3> QED
      BY <3>1, <3>3 DEF Promise!Next, Kinds, Promise!Kinds
  <2> QED
    BY <2>1, <2>2
<1>3. CASE Return
  <2>1. outcome \in {"failed"} \cup (IF listed = Pages THEN {"ok"} ELSE {})
    BY <1>3 DEF Return, Inv, TypeOK, OutcomeInv, Asking
  <2> QED
    BY <1>3, <2>1 DEF Return, Inv, ProcessInv, Promise!Next, Promise!Return, Promise!Complete
<1>4. CASE EngineEnds
  BY <1>4 DEF EngineEnds, Promise!Next, Promise!Exit
<1>5. CASE Call \/ Notify \/ NoMoreLines \/ Cancelled \/ TimedOut \/ ExitReason \/ CloseStdin \/ Kill \/ Cancel
  BY <1>5 DEF Call, Notify, NoMoreLines, Cancelled, TimedOut, ExitReason, CloseStdin, Kill, Cancel, Fail
<1>6. CASE UNCHANGED <<client, proc>>
  BY <1>6
<1> QED
  BY <1>1, <1>2, <1>3, <1>4, <1>5, <1>6 DEF Next, Client, Goroutines, PumpRead, PumpDeliver,
     PumpClosed, PumpEOF, PumpError, Wait, Process, EngineRead, EngineAnswer, EngineChat, Finished, vars

\* Engine implements Listing: a listing that succeeds has counted every page
\* once and in order, and the engine has gone when the call returns.
THEOREM PromiseKept == Spec => KeepsPromise
  BY Invariance, InitPromise, StepPromise, InitInv, PTL DEF Spec, Promise!Spec, KeepsPromise
================================================================================
