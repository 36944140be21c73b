------------------------------ MODULE ToolLoop ------------------------------
(***************************************************************************)
(* LLMService.chatStream(): the model is asked, the calls in its answer are *)
(* checked and executed one after another, their results are put behind the *)
(* answer, and the model is asked again, until it answers without a call.   *)
(*                                                                          *)
(* A call is its id and "what" it does (the tool and its normalised         *)
(* arguments).  The model may reuse an id of an earlier answer, repeat a    *)
(* call under a new id, and call a tool it was not given.                   *)
(***************************************************************************)
EXTENDS Naturals, Sequences, FiniteSets, Subsequence

CONSTANTS What,        \* tools with their arguments
          CallId,      \* ids the provider gives to calls
          Common,      \* those of a tool that exists (COMMON_TOOLS)
          Selections,  \* what may be selected for a question: calls of these tools
          Hollow,      \* those without the arguments they need
          MaxToolIterations,
          MaxCalls     \* bound on the calls in one answer

ASSUME LoopAssumption ==
    /\ Selections \subseteq SUBSET Common /\ Common \subseteq What /\ Hollow \subseteq What
    /\ {MaxToolIterations, MaxCalls} \subseteq Nat \ {0}

VARIABLES selected,  \* the calls that its selectedToolNames allow; none: no tools
          loop,      \* where the call of chatStream() is
          how,       \* how it ended
          iterations,
          batch,     \* currentToolCalls, then those still to be executed
          thread,    \* conversationMessages, from the question on
          taken,     \* ids in allToolCalls
          executed,  \* executedToolCalls: what was executed, with its result
          fails,     \* failedToolCalls
          signal,    \* abortSignal.aborted
          runs,      \* history: the executions, in order, with how they ended
          spelled    \* history: ids of calls that were written into the text

loopVars == <<selected, loop, how, iterations, batch, thread, taken, executed, fails, signal,
              runs, spelled>>

Call == [id : CallId, what : What]
Entry == [kind : {"ai"}, ids : SUBSET CallId] \cup [kind : {"tool"}, ids : SUBSET CallId]
Results == {"ok", "error", "throws"}

LoopTypeOK ==
    /\ selected \in Selections
    /\ loop \in {"head", "stream", "check", "calls", "tool", "over"}
    /\ how \in {"none", "answer", "stuck", "fallback", "aborted", "failed"}
    /\ iterations \in 0 .. MaxToolIterations
    /\ batch \in Seq(Call)
    /\ thread \in Seq(Entry)
    /\ taken \subseteq CallId
    /\ executed \in [What -> {"no", "ok", "error"}]
    /\ fails \in [What -> Nat]
    /\ signal \in BOOLEAN
    /\ runs \in Seq([what : What, late : BOOLEAN, how : {"running"} \cup Results])
    /\ spelled \subseteq CallId

LoopInit ==
    /\ selected \in Selections
    /\ loop = "head" /\ how = "none"
    /\ iterations = 0
    /\ batch = <<>> /\ thread = <<>>
    /\ taken = {}
    /\ executed = [w \in What |-> "no"]
    /\ fails = [w \in What |-> 0]
    /\ signal = FALSE
    /\ runs = <<>> /\ spelled = {}

Ends(outcome) == loop' = "over" /\ how' = outcome
Ids(calls) == {calls[n].id : n \in 1 .. Len(calls)}

---------------------------------------------------------------------------
(* Asking the model.                                                       *)

\* A slip: one question too many.
AskOnceMore ==
    /\ loop = "head"
    /\ IF iterations > MaxToolIterations
       THEN Ends("fallback") /\ UNCHANGED iterations
       ELSE /\ iterations' = iterations + 1
            /\ IF signal THEN Ends("aborted") ELSE loop' = "stream" /\ UNCHANGED how
    /\ UNCHANGED <<batch, thread, taken, executed, fails, signal, runs, spelled>>

Ask ==
    /\ loop = "head"
    /\ IF iterations = MaxToolIterations
       THEN Ends("fallback") /\ UNCHANGED iterations
       ELSE /\ iterations' = iterations + 1
            /\ IF signal THEN Ends("aborted") ELSE loop' = "stream" /\ UNCHANGED how
    /\ UNCHANGED <<batch, thread, taken, executed, fails, signal, runs, spelled>>

\* What the provider may call: the ids of one answer differ
\* (deduplicateToolCalls()).
Answers == {calls \in UNION {[1 .. n -> Call] : n \in 0 .. MaxCalls} :
              \A m, n \in 1 .. Len(calls) : calls[m].id = calls[n].id => m = n}

\* The answer is complete.  Calls written into its text between the "redacted"
\* marks are entered in allToolCalls at once, calls of the protocol are not.
Answer(calls, inText) ==
    /\ loop = "stream"
    /\ batch' = calls
    /\ taken' = IF inText THEN taken \cup Ids(calls) ELSE taken
    /\ IF calls = <<>> THEN Ends("answer") ELSE loop' = "check" /\ UNCHANGED how
    /\ spelled' = IF inText THEN spelled \cup Ids(calls) ELSE spelled
    /\ UNCHANGED <<iterations, thread, executed, fails, signal, runs>>

\* The provider breaks off.  A broken socket ends the loop with the text so far,
\* or goes on with a call of the last chunk; any other error is thrown.
Interrupted(calls, socket) ==
    /\ loop = "stream"
    /\ IF signal THEN Ends("aborted") /\ UNCHANGED batch
       ELSE IF ~socket THEN Ends("failed") /\ UNCHANGED batch
       ELSE IF taken # {} \/ calls = <<>> THEN Ends("answer") /\ UNCHANGED batch
       ELSE loop' = "check" /\ batch' = calls /\ UNCHANGED how
    /\ UNCHANGED <<iterations, thread, taken, executed, fails, signal, runs, spelled>>

\* Seen while chunks arrive.
StopStreaming ==
    /\ loop = "stream" /\ signal
    /\ Ends("aborted")
    /\ UNCHANGED <<iterations, batch, thread, taken, executed, fails, signal, runs, spelled>>

---------------------------------------------------------------------------
(* Checking the calls of the answer.                                       *)

\* With tools selected, a call of another is answered here; its result stands
\* before the answer that made the call.
Refused(call) == selected # {} /\ call.what \notin selected
Valid(call) == ~Refused(call) /\ call.what \notin Hollow
ToolEntry(call) == [kind |-> "tool", ids |-> {call.id}]

CheckCalls ==
    /\ loop = "check"
    /\ LET valid == Subsequence(batch, {n \in 1 .. Len(batch) : Valid(batch[n])})
           refusals == Subsequence(batch, {n \in 1 .. Len(batch) : Refused(batch[n])})
           entries == [n \in 1 .. Len(refusals) |-> ToolEntry(refusals[n])]
       IN  IF signal THEN Ends("aborted") /\ UNCHANGED <<batch, thread>>
           ELSE IF valid = <<>>
           THEN Ends("answer") /\ thread' = thread \o entries /\ UNCHANGED batch
           ELSE /\ thread' = Append(thread \o entries, [kind |-> "ai", ids |-> Ids(valid)])
                /\ batch' = valid
                /\ loop' = "calls" /\ UNCHANGED how
    /\ UNCHANGED <<iterations, taken, executed, fails, signal, runs, spelled>>

---------------------------------------------------------------------------
(* Executing them.                                                         *)

\* A result is put into the thread unless some message has the id already.
Replied(call) ==
    thread' = IF \E n \in 1 .. Len(thread) :
                    thread[n].kind = "tool" /\ call.id \in thread[n].ids
              THEN thread ELSE Append(thread, ToolEntry(call))

AllExecuted ==
    /\ loop = "calls" /\ batch = <<>>
    /\ loop' = "head"
    /\ UNCHANGED <<how, iterations, batch, thread, taken, executed, fails, signal, runs, spelled>>

\* The same tool with the same arguments: the result it had, failed or not.
ReplyAgain ==
    /\ loop = "calls" /\ batch # <<>> /\ executed[Head(batch).what] # "no"
    /\ Replied(Head(batch))
    /\ batch' = Tail(batch)
    /\ UNCHANGED <<loop, how, iterations, taken, executed, fails, signal, runs, spelled>>

\* An id that is in allToolCalls: skipped without a reply.
SkipKnownId ==
    /\ loop = "calls" /\ batch # <<>> /\ executed[Head(batch).what] = "no"
    /\ Head(batch).id \in taken
    /\ batch' = Tail(batch)
    /\ UNCHANGED <<loop, how, iterations, thread, taken, executed, fails, signal, runs, spelled>>

\* A slip: a call that cannot be executed is passed over without a reply.
StartToolSilently ==
    /\ loop = "calls" /\ batch # <<>> /\ executed[Head(batch).what] = "no"
    /\ Head(batch).id \notin taken
    /\ taken' = taken \cup {Head(batch).id}
    /\ IF Head(batch).what \notin Common \/ signal
       THEN batch' = Tail(batch) /\ UNCHANGED <<loop, runs>>
       ELSE /\ runs' = Append(runs, [what |-> Head(batch).what, late |-> signal,
                                     how |-> "running"])
            /\ loop' = "tool" /\ UNCHANGED batch
    /\ UNCHANGED <<how, iterations, thread, executed, fails, signal, spelled>>

\* The tool is looked up (and bound now when nothing was selected), and called
\* unless the request was aborted: that is a failed call, not the end.
StartTool ==
    /\ loop = "calls" /\ batch # <<>> /\ executed[Head(batch).what] = "no"
    /\ Head(batch).id \notin taken
    /\ taken' = taken \cup {Head(batch).id}
    /\ IF Head(batch).what \notin Common \/ signal
       THEN Replied(Head(batch)) /\ batch' = Tail(batch) /\ UNCHANGED <<loop, runs>>
       ELSE /\ runs' = Append(runs, [what |-> Head(batch).what, late |-> signal,
                                     how |-> "running"])
            /\ loop' = "tool" /\ UNCHANGED <<batch, thread>>
    /\ UNCHANGED <<how, iterations, executed, fails, signal, spelled>>

\* A slip: a failed result is not kept, so the call is made again.
ToolEndsForgetful(result) ==
    /\ loop = "tool"
    /\ LET kept == result = "ok" /\ ~signal
       IN  /\ runs' = [runs EXCEPT ![Len(runs)].how = IF signal THEN "throws" ELSE result]
           /\ executed' = IF kept THEN [executed EXCEPT ![Head(batch).what] = result]
                          ELSE executed
           /\ Replied(Head(batch))
           /\ batch' = Tail(batch)
           /\ loop' = "calls" /\ UNCHANGED how
    /\ UNCHANGED <<iterations, taken, fails, signal, spelled>>

\* The result is kept unless the tool threw, or the request was aborted meanwhile.
ToolEnds(result) ==
    /\ loop = "tool"
    /\ LET call == Head(batch)
           kept == result # "throws" /\ ~signal
           count == fails[call.what] + 1
       IN  /\ runs' = [runs EXCEPT ![Len(runs)].how = IF kept THEN result ELSE "throws"]
           /\ executed' = IF kept THEN [executed EXCEPT ![call.what] = result] ELSE executed
           /\ fails' = IF kept /\ result = "error" THEN [fails EXCEPT ![call.what] = count]
                       ELSE fails
           /\ IF kept /\ result = "error" /\ count >= 3
              THEN Ends("stuck") /\ UNCHANGED <<batch, thread>>
              ELSE /\ Replied(call)
                   /\ batch' = Tail(batch)
                   /\ loop' = "calls" /\ UNCHANGED how
    /\ UNCHANGED <<iterations, taken, signal, spelled>>

Abort ==
    /\ ~signal /\ loop # "over"
    /\ signal' = TRUE
    /\ UNCHANGED <<loop, how, iterations, batch, thread, taken, executed, fails, runs, spelled>>

\* The provider answers or breaks off, and tools return.
LoopStep ==
    /\ \/ Ask \/ StopStreaming \/ CheckCalls \/ AllExecuted \/ ReplyAgain \/ SkipKnownId
       \/ StartTool
       \/ \E calls \in Answers :
            \/ \E inText \in BOOLEAN : Answer(calls, inText)
            \/ \E socket \in BOOLEAN : Interrupted(calls, socket)
       \/ \E result \in Results : ToolEnds(result)
    /\ UNCHANGED selected

LoopNext == LoopStep \/ (Abort /\ UNCHANGED selected)

---------------------------------------------------------------------------
(* The same call is executed again only when its last execution threw: a   *)
(* result, failed or not, is never asked for twice (the executedToolCalls   *)
(* map with its normalised arguments, against ids that come and go).       *)
ResultsAreReused ==
    \A m, n \in 1 .. Len(runs) :
        m < n /\ runs[m].what = runs[n].what => runs[m].how = "throws"

(* When the model is asked again, each call of its last answer has a reply  *)
(* behind it, which providers insist on, unless the call came with an id    *)
(* that was used before or was written into the text.                       *)
CallsAreAnswered ==
    loop = "head" =>
      \A n \in 1 .. Len(thread) : \A i \in thread[n].ids :
        thread[n].kind = "ai" =>
          \/ \E m \in n + 1 .. Len(thread) : thread[m] = [kind |-> "tool", ids |-> {i}]
          \/ \E m \in 1 .. n - 1 : i \in thread[m].ids
          \/ i \in spelled

(* chatStream() ends, whatever the model calls and however tools fail.     *)
LoopEnds == <>(loop = "over")
=============================================================================
