--------------------------- MODULE HandlerExecutor ---------------------------
(***************************************************************************)
(* HandlerExecutorService.run(): a user script runs in a forked child      *)
(* taken from a pool, talks to the server by messages, and its run is      *)
(* settled by whichever comes first of its "done", its "error", the exit   *)
(* of the child and the timeout - or at once, if its context cannot be put *)
(* into a message: the child is then given back with the run's listeners   *)
(* and its timer as they are.                                              *)
(*                                                                         *)
(* The listeners of a run take whatever the child sends while they are     *)
(* attached: messages carry no run.  The model adds to each message the    *)
(* run whose code sent it, to say what belongs to whom.                    *)
(***************************************************************************)
EXTENDS Naturals, Sequences, FiniteSets

CONSTANTS Task,      \* calls of run()
          Child,     \* child processes; an id is reused once all of it is gone
          None,
          PoolMax,   \* HANDLER_EXECUTOR_POOL_MAX
          MaxOut,    \* bound on the unread messages of a child
          Faults     \* a subset of AllFaults

(***************************************************************************)
(* "crash":    a child dies by itself (out of memory, process.exit).       *)
(* "detached": a script leaves calls running that it does not await.       *)
(* "unsent":   making or sending the execute message throws.               *)
(***************************************************************************)
AllFaults == {"crash", "detached", "unsent"}

ASSUME ExecutorAssumption ==
    /\ None \notin Task \cup Child
    /\ PoolMax \in Nat \ {0}
    /\ MaxOut \in Nat \ {0}
    /\ Faults \subseteq AllFaults

VARIABLES stage,     \* where each run is: "over" once its promise is settled
          outcome,   \* [how, by]: how it settled, and whose code decided it
          isDone,    \* isDone.value of each run: its timer does nothing more
          on,        \* the child each run was given
          pool,      \* what the pool knows of each child
          listens,   \* the runs whose listeners are attached to each child
          known,     \* the parent has killed the child or seen it disconnect
          alive,     \* the child process exists
          out,       \* messages from each child not yet handled
          script,    \* the run whose code each child executes
          waits,     \* what that code is waiting for
          left,      \* runs that left unawaited calls behind in each child
          dying,     \* the run whose unhandled rejection will end the child
          helpers,   \* calls being executed by the parent
          strayed,   \* history: runs that ever left a call unawaited
          unsent,    \* history: runs whose message could not be sent
          server     \* "down": an unhandled rejection has ended it, and nothing follows

poolVars == <<pool, listens, known>>
childVars == <<alive, script, waits, left, dying, strayed>>
runVars == <<stage, outcome, isDone, on, unsent, server>>
vars == <<stage, outcome, isDone, on, pool, listens, known, alive, out, script,
          waits, left, dying, helpers, strayed, unsent, server>>

Msg == [kind : {"call", "throw", "done", "error"}, by : Task]
          \cup [kind : {"exit"}, by : Task \cup {None}]

\* The result of a call that another listener has answered wakes nobody.
Helper == [by : Task, ctx : Task, child : Child, sub : Task \cup {None}, first : BOOLEAN]
Unsettled == [how |-> "none", by |-> None]

TypeOK ==
    /\ stage \in [Task -> {"idle", "queued", "running", "over"}]
    /\ outcome \in [Task -> [how : {"none", "resolved", "rejected"},
                             by : Task \cup {None}]]
    /\ isDone \in [Task -> BOOLEAN]
    /\ on \in [Task -> Child \cup {None}]
    /\ pool \in [Child -> {"absent", "idle", "lent", "gone"}]
    /\ listens \in [Child -> SUBSET Task]
    /\ known \in [Child -> BOOLEAN]
    /\ alive \in [Child -> BOOLEAN]
    /\ out \in [Child -> Seq(Msg)]
    /\ script \in [Child -> Task \cup {None}]
    /\ waits \in [Child -> {"no", "call", "throw", "refused"}]
    /\ left \in [Child -> SUBSET Task]
    /\ dying \in [Child -> Task \cup {None}]
    /\ helpers \subseteq Helper
    /\ strayed \subseteq Task
    /\ unsent \subseteq Task
    /\ server \in {"up", "down"}

Init ==
    /\ stage = [t \in Task |-> "idle"]
    /\ outcome = [t \in Task |-> Unsettled]
    /\ isDone = [t \in Task |-> FALSE]
    /\ on = [t \in Task |-> None]
    /\ pool = [c \in Child |-> "absent"]
    /\ listens = [c \in Child |-> {}]
    /\ known = [c \in Child |-> FALSE]
    /\ alive = [c \in Child |-> FALSE]
    /\ out = [c \in Child |-> <<>>]
    /\ script = [c \in Child |-> None]
    /\ waits = [c \in Child |-> "no"]
    /\ left = [c \in Child |-> {}]
    /\ dying = [c \in Child |-> None]
    /\ helpers = {}
    /\ strayed = {}
    /\ unsent = {}
    /\ server = "up"

-----------------------------------------------------------------------------
\* A promise settles once: resolve and reject do nothing afterwards.
Settle(S, how, by) ==
    outcome' = [t \in Task |-> IF t \in S /\ outcome[t] = Unsettled
                               THEN [how |-> how, by |-> by] ELSE outcome[t]]

Send(c, kind, by) == /\ Len(out[c]) < MaxOut
                     /\ out' = [out EXCEPT ![c] = Append(@, [kind |-> kind, by |-> by])]

\* The process of child c is no more; the parent will be told.
ProcessEnds(c) ==
    /\ alive' = [alive EXCEPT ![c] = FALSE]
    /\ script' = [script EXCEPT ![c] = None]
    /\ waits' = [waits EXCEPT ![c] = "no"]
    /\ left' = [left EXCEPT ![c] = {}]
    /\ dying' = [dying EXCEPT ![c] = None]

-----------------------------------------------------------------------------
\* The pool, as the code configures it.

InPool == {c \in Child : pool[c] \in {"idle", "lent"}}

\* create(): fork a runner, to keep min children or to serve a waiting run.
Fork(c) ==
    /\ pool[c] = "absent"
    /\ Cardinality(InPool) < PoolMax
    /\ pool' = [pool EXCEPT ![c] = "idle"]
    /\ known' = [known EXCEPT ![c] = FALSE]
    /\ alive' = [alive EXCEPT ![c] = TRUE]
    /\ UNCHANGED <<runVars, listens, out, script, waits, left, dying, helpers, strayed>>

\* destroy(): a lent child leaves the pool, and child.kill(); of a child that
\* is not lent the pool knows nothing, and throws.
Destroy(c) == pool' = [pool EXCEPT ![c] = IF @ = "lent" THEN "gone" ELSE @]

\* An idle child is evicted, or found dead when it is about to be lent.  Its
\* exit is told to the listeners that it still has.
Evict(c) ==
    /\ pool[c] = "idle"
    /\ pool' = [pool EXCEPT ![c] = "gone"]
    /\ ProcessEnds(c)
    /\ out' = IF alive[c] /\ listens[c] # {}
              THEN [out EXCEPT ![c] = Append(@, [kind |-> "exit", by |-> None])] ELSE out
    /\ UNCHANGED <<runVars, listens, known, helpers, strayed>>

\* Nothing is left of a destroyed child: its id stands for the next process.
Forget(c) ==
    /\ pool[c] = "gone"
    /\ ~alive[c]
    /\ out[c] = <<>>
    /\ listens[c] = {}
    /\ \A t \in Task : on[t] = c => isDone[t]
    /\ pool' = [pool EXCEPT ![c] = "absent"]
    /\ on' = [t \in Task |-> IF on[t] = c THEN None ELSE on[t]]
    /\ UNCHANGED <<stage, outcome, isDone, unsent, server, listens, known, childVars, out, helpers>>

-----------------------------------------------------------------------------
\* The parent.

Call(t) ==
    /\ stage[t] = "idle"
    /\ stage' = [stage EXCEPT ![t] = "queued"]
    /\ UNCHANGED <<outcome, isDone, on, unsent, server, poolVars, childVars, out, helpers>>

\* pool.acquire() answers with an idle child that passes validate().
Acquire(t, c) ==
    /\ stage[t] = "queued"
    /\ pool[c] = "idle"
    /\ ~known[c]
    /\ on' = [on EXCEPT ![t] = c]
    /\ listens' = [listens EXCEPT ![c] = @ \cup {t}]

\* Timer, listeners and the execute message follow in the same turn.  A child
\* whose death the parent has not seen yet passes too, and never gets the message.
Start(t, c) ==
    /\ Acquire(t, c)
    /\ stage' = [stage EXCEPT ![t] = "running"]
    /\ pool' = [pool EXCEPT ![c] = "lent"]
    /\ script' = [script EXCEPT ![c] = IF alive[c] THEN t ELSE None]
    /\ waits' = [waits EXCEPT ![c] = "no"]
    /\ UNCHANGED <<outcome, isDone, unsent, server, known, alive, out, left, dying, helpers, strayed>>

\* wrapCtx() or child.send() throws: the child goes back to the pool and the run
\* is rejected, but its timer is set and its listeners are attached.
StartFails(t, c) ==
    /\ "unsent" \in Faults
    /\ Acquire(t, c)
    /\ stage' = [stage EXCEPT ![t] = "over"]
    /\ Settle({t}, "rejected", None)
    /\ unsent' = unsent \cup {t}
    /\ UNCHANGED <<isDone, server, pool, known, childVars, out, helpers>>

\* isDone of the runs S is set, and removeAllListeners() takes everybody's.
Finish(S, c) ==
    /\ isDone' = [t \in Task |-> isDone[t] \/ t \in S]
    /\ listens' = [listens EXCEPT ![c] = {}]

End(S, how, by) ==
    /\ stage' = [t \in Task |-> IF t \in S THEN "over" ELSE stage[t]]
    /\ Settle(S, how, by)

\* Mutation of Timeout: no timer is set.
TimeoutNever(t) == FALSE /\ UNCHANGED vars

\* The timer fires first: kill the child, take it out of the pool, reject.
Timeout(t) ==
    /\ on[t] # None
    /\ ~isDone[t]
    /\ Finish({t}, on[t])
    /\ ProcessEnds(on[t])
    /\ known' = [known EXCEPT ![on[t]] = @ \/ alive[on[t]]]
    /\ Destroy(on[t])
    /\ End({t}, "rejected", None)
    /\ UNCHANGED <<on, unsent, server, out, helpers, strayed>>

Next1(c) == Head(out[c])
Take(c) == out' = [out EXCEPT ![c] = Tail(@)]

\* Nobody listens: the message is lost.  An exit also closes the channel.
Drop(c) ==
    /\ out[c] # <<>>
    /\ listens[c] = {}
    /\ Take(c)
    /\ known' = [known EXCEPT ![c] = @ \/ Next1(c).kind = "exit"]
    /\ UNCHANGED <<runVars, pool, listens, childVars, helpers>>

\* Message m of kind k reaches the runs that listen to child c.
Hears(c, k) ==
    /\ out[c] # <<>>
    /\ listens[c] # {}
    /\ Next1(c).kind = k
    /\ Take(c)

\* Mutation of HandleCall: the call runs with the runs that ever had the child.
HandleCallForFirst(c) ==
    /\ Hears(c, "call")
    /\ helpers' = helpers \cup {[by |-> Next1(c).by, ctx |-> t, child |-> c, sub |-> None,
                                 first |-> TRUE] : t \in {u \in Task : on[u] = c}}
    /\ UNCHANGED <<runVars, poolVars, childVars>>

\* A call runs with the context of each run that listens; it may itself run a
\* script (a write to bootstrap_script_definition does), and then waits for it.
HandleCall(c) ==
    /\ Hears(c, "call")
    /\ \E sub \in [listens[c] -> {s \in Task : stage[s] = "idle"} \cup {None}] :
          /\ \A t, u \in listens[c] : sub[t] = sub[u] => t = u \/ sub[t] = None
          /\ stage' = [s \in Task |-> IF \E t \in listens[c] : sub[t] = s
                                      THEN "queued" ELSE stage[s]]
          /\ helpers' = helpers \cup {[by |-> Next1(c).by, ctx |-> t, child |-> c, sub |-> sub[t],
                                       first |-> TRUE] : t \in listens[c]}
    /\ UNCHANGED <<outcome, isDone, on, unsent, server, poolVars, childVars>>

\* The call returns; its result goes to the child if that is still there, which
\* takes the first result of each call.
HelperReturns(h) ==
    /\ h \in helpers
    /\ h.sub # None => outcome[h.sub] # Unsettled
    /\ LET c == h.child
           woken == h.first /\ alive[c] /\ ~known[c] /\ script[c] = h.by /\ waits[c] = "call"
       IN /\ waits' = IF woken THEN [waits EXCEPT ![c] = "no"] ELSE waits
          /\ helpers' = {IF woken /\ g.child = c /\ g.by = h.by
                         THEN [g EXCEPT !.first = FALSE] ELSE g : g \in helpers \ {h}}
    /\ UNCHANGED <<runVars, poolVars, alive, script, left, dying, out, strayed>>

\* $throw rejects at once and leaves the run going; the error is sent back.
HandleThrow(c) ==
    /\ Hears(c, "throw")
    /\ Settle(listens[c], "rejected", Next1(c).by)
    /\ waits' = [waits EXCEPT ![c] = IF @ = "throw" THEN "refused" ELSE @]
    /\ UNCHANGED <<stage, isDone, on, unsent, server, poolVars, alive, script, left, dying,
                   helpers, strayed>>

\* Mutation of HandleDone: the child goes back with the listeners attached.
HandleDoneKeepsListening(c) ==
    /\ Hears(c, "done")
    /\ isDone' = [t \in Task |-> isDone[t] \/ t \in listens[c]]
    /\ pool' = [pool EXCEPT ![c] = "idle"]
    /\ End(listens[c], "resolved", Next1(c).by)
    /\ UNCHANGED <<on, unsent, server, listens, known, childVars, helpers>>

\* "done": listeners off, timer off, the child goes back to the pool.  Where more
\* than one run listens, the second to give it back throws in a listener, of
\* which nobody awaits the promise, and the run that had the child is not answered.
HandleDone(c) ==
    /\ Hears(c, "done")
    /\ Finish(listens[c], c)
    /\ pool' = [pool EXCEPT ![c] = IF @ = "lent" THEN "idle" ELSE @]
    /\ IF pool[c] = "lent" /\ \A t, u \in listens[c] : t = u
       THEN End(listens[c], "resolved", Next1(c).by) /\ UNCHANGED server
       ELSE server' = "down" /\ UNCHANGED <<stage, outcome>>
    /\ UNCHANGED <<on, unsent, known, childVars, helpers>>

\* Mutation of HandleError: the message is passed on as it came.
HandleErrorAsItCame(c) ==
    /\ Hears(c, "error") \/ Hears(c, "exit")
    /\ Finish(listens[c], c)
    /\ Destroy(c)
    /\ ProcessEnds(c)
    /\ End(listens[c], Next1(c).kind, Next1(c).by)
    /\ UNCHANGED <<on, unsent, server, known, helpers, strayed>>

\* Mutation of HandleError: an exit cleans up and answers nobody.
HandleErrorSilentExit(c) ==
    /\ Hears(c, "error") \/ Hears(c, "exit")
    /\ Finish(listens[c], c)
    /\ Destroy(c)
    /\ ProcessEnds(c)
    /\ IF Next1(c).kind = "exit"
       THEN /\ stage' = [t \in Task |-> IF t \in listens[c] THEN "over" ELSE stage[t]]
            /\ UNCHANGED outcome
       ELSE End(listens[c], "rejected", Next1(c).by)
    /\ known' = [known EXCEPT ![c] = @ \/ Next1(c).kind = "exit"]
    /\ UNCHANGED <<on, unsent, server, helpers, strayed>>

\* "error" or exit: handleChildError() destroys a lent child and rejects.
HandleError(c) ==
    /\ Hears(c, "error") \/ Hears(c, "exit")
    /\ Finish(listens[c], c)
    /\ Destroy(c)
    /\ IF pool[c] = "lent" THEN ProcessEnds(c)
       ELSE UNCHANGED <<alive, script, waits, left, dying>>
    /\ End(listens[c], "rejected", Next1(c).by)
    /\ known' = [known EXCEPT ![c] = @ \/ Next1(c).kind = "exit"]
    /\ UNCHANGED <<on, unsent, server, helpers, strayed>>

-----------------------------------------------------------------------------
\* The child.

Runs(c, t) == alive[c] /\ script[c] = t /\ t # None

\* The script calls a helper, a repository, the cache ..., and awaits it.
ScriptCalls(c, t) ==
    /\ Runs(c, t) /\ waits[c] = "no"
    /\ Send(c, "call", t)
    /\ waits' = [waits EXCEPT ![c] = "call"]
    /\ UNCHANGED <<runVars, poolVars, alive, script, left, dying, helpers, strayed>>

ScriptThrows(c, t) ==
    /\ Runs(c, t) /\ waits[c] = "no"
    /\ Send(c, "throw", t)
    /\ waits' = [waits EXCEPT ![c] = "throw"]
    /\ UNCHANGED <<runVars, poolVars, alive, script, left, dying, helpers, strayed>>

\* The script ends, with "done" or with "error".
ScriptEnds(c, t) ==
    /\ Runs(c, t)
    /\ \/ waits[c] = "no" /\ Send(c, "done", t)
       \/ waits[c] \in {"no", "call", "refused"} /\ Send(c, "error", t)
    /\ script' = [script EXCEPT ![c] = None]
    /\ waits' = [waits EXCEPT ![c] = "no"]
    /\ UNCHANGED <<runVars, poolVars, alive, left, dying, helpers, strayed>>

\* A call or a $throw without await: the script goes on.
ScriptDetaches(c, t) ==
    /\ "detached" \in Faults
    /\ Runs(c, t) /\ waits[c] = "no"
    /\ \E k \in {"call", "throw"} : Send(c, k, t)
    /\ left' = [left EXCEPT ![c] = @ \cup {t}]
    /\ strayed' = strayed \cup {t}
    /\ UNCHANGED <<runVars, poolVars, alive, script, waits, dying, helpers>>

\* What a run left behind calls again, or its promise is rejected and nobody
\* handles that: the runner reports an error and exits 100 ms later.
LeftoverCalls(c, t) ==
    /\ alive[c] /\ t \in left[c]
    /\ Send(c, "call", t)
    /\ UNCHANGED <<runVars, poolVars, childVars, helpers>>

LeftoverFails(c, t) ==
    /\ alive[c] /\ t \in left[c]
    /\ Send(c, "error", t)
    /\ left' = [left EXCEPT ![c] = @ \ {t}]
    /\ dying' = [dying EXCEPT ![c] = t]
    /\ UNCHANGED <<runVars, poolVars, alive, script, waits, helpers, strayed>>

Exits(c) ==
    /\ alive[c]
    /\ "crash" \in Faults \/ dying[c] # None
    /\ out' = [out EXCEPT ![c] = Append(@, [kind |-> "exit", by |-> dying[c]])]
    /\ ProcessEnds(c)
    /\ UNCHANGED <<runVars, poolVars, helpers, strayed>>

Parent(c) == Drop(c) \/ HandleCall(c) \/ HandleThrow(c) \/ HandleDone(c) \/ HandleError(c)

Next ==
    /\ server = "up"
    /\ \/ \E t \in Task : Call(t) \/ Timeout(t)
       \/ \E t \in Task, c \in Child :
             \/ Start(t, c) \/ StartFails(t, c)
             \/ ScriptCalls(c, t) \/ ScriptThrows(c, t) \/ ScriptEnds(c, t)
             \/ ScriptDetaches(c, t) \/ LeftoverCalls(c, t) \/ LeftoverFails(c, t)
       \/ \E c \in Child : Fork(c) \/ Evict(c) \/ Forget(c) \/ Parent(c) \/ Exits(c)
       \/ \E h \in helpers : HelperReturns(h)

Spec == Init /\ [][Next]_vars

\* Timers fire, the event loop delivers, and the pool serves its queue in
\* order.  A script may loop for ever and a helper may never return.
Fairness ==
    /\ \A t \in Task : WF_vars(server = "up" /\ Timeout(t))
    /\ \A t \in Task : SF_vars(server = "up" /\ \E c \in Child : Start(t, c))
    /\ \A c \in Child : /\ WF_vars(server = "up" /\ Parent(c))
                        /\ WF_vars(server = "up" /\ (Fork(c) \/ Forget(c)))
                        /\ WF_vars(server = "up" /\ Evict(c) /\ known[c])

FairSpec == Spec /\ Fairness

-----------------------------------------------------------------------------
(***************************************************************************)
(* A lent child belongs to exactly one run, which is not over and listens: *)
(* a child that nobody watches would be lost to the pool.  Only that run   *)
(* listens, and no child is taken from it - unless the process was given   *)
(* before to a run that could not send it its message: what that run left  *)
(* listens too, and its timer may kill the child under the next one.       *)
(* Nothing else brings the server down.                                    *)
(***************************************************************************)
LendingIsExclusive ==
    /\ \A t, s \in Task : (stage[t] = "running" /\ stage[s] = "running" /\ on[t] = on[s]) => t = s
    /\ \A c \in Child :
          pool[c] = "lent" => \E t \in listens[c] : stage[t] = "running" /\ on[t] = c
    /\ \A c \in Child :
          (\A u \in unsent : on[u] # c) =>
             /\ listens[c] = {t \in Task : stage[t] = "running" /\ on[t] = c}
             /\ listens[c] # {} => pool[c] = "lent"
    /\ \A t \in Task : stage[t] = "running" => ~isDone[t] \/ server = "down"
    /\ server = "down" => unsent # {}

(***************************************************************************)
(* What decides a run, and the context a call runs with, belong to the run *)
(* whose code sent the message, however timeouts, crashes and re-used      *)
(* children fall - unless that code had left calls behind that nobody      *)
(* awaits, or the context is of a run that could not send its message.     *)
(***************************************************************************)
OnlyStraysReachOthers ==
    /\ \A t \in Task : outcome[t].by \notin {t, None} => outcome[t].by \in strayed
    /\ \A h \in helpers : h.by # h.ctx => h.by \in strayed \/ h.ctx \in unsent

(***************************************************************************)
(* A run that is over has settled its promise: no path removes the         *)
(* listeners and the timer and forgets to answer, short of the end of the  *)
(* server.                                                                 *)
(***************************************************************************)
OverIsSettled ==
    \A t \in Task : (stage[t] = "over" \/ isDone[t]) => outcome[t] # Unsettled \/ server = "down"

(***************************************************************************)
(* Every call of run() is over some day: a script that never ends, a child *)
(* that dies before it gets its message, scripts that wait for scripts     *)
(* with the whole pool lent - the timeout gets the child back.             *)
(***************************************************************************)
EveryRunEnds == \A t \in Task : stage[t] = "queued" ~> (stage[t] = "over" \/ server = "down")

(***************************************************************************)
(* "Sandboxed handler execution" (CONTRIBUTING.md): the code of one run    *)
(* never decides the outcome of another one, and its calls never run with  *)
(* the context of another one.                                             *)
(***************************************************************************)
HandlersAreSandboxed ==
    /\ \A t \in Task : outcome[t].by \in {t, None}
    /\ \A h \in helpers : h.by = h.ctx
=============================================================================
