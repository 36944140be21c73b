-------------------------- MODULE BootstrapScripts --------------------------
(***************************************************************************)
(* BootstrapScriptService: each instance, when it has started, runs the    *)
(* enabled scripts one after another, under a lock in Redis whose value is *)
(* the instance and which expires; who does not get it skips the scripts.  *)
(* A script that writes to bootstrap_script_definition has them reloaded,  *)
(* by the instance it runs on: that takes the lock, empties Redis, and runs *)
(* the scripts.  (No other repository is given the service, and nobody     *)
(* listens to the event that is published.)                                *)
(***************************************************************************)
EXTENDS Naturals, FiniteSets

CONSTANTS Starters,      \* instances; one that starts again is another one
          Rounds,        \* executions of withBootstrapLock()
          ScriptCount,   \* enabled scripts
          NoStarter,
          MaxExpiries    \* bound on expiries, crashes and failed queries

ASSUME ScriptsAssumption ==
    NoStarter \notin Starters /\ ScriptCount \in Nat \ {0} /\ MaxExpiries \in Nat

VARIABLES scriptLock,   \* BOOTSTRAP_SCRIPT_EXECUTION_LOCK_KEY
          up,           \* instances that have started, crashed ones too
          round,        \* what each execution is doing
          loose,        \* history: the lock went otherwise than by release()
          broken,       \* history: a crash, or a query that has failed
          expiries

scriptVars == <<scriptLock, up, round, loose, broken, expiries>>

\* "ran" is the number of scripts that have been run.
NotBegun == [at |-> "none", by |-> NoStarter, kind |-> "startup", ran |-> 0]
Asking(i, kind) == [at |-> "asking", by |-> i, kind |-> kind, ran |-> 0]

RoundAt(x, place) == round[x].at = place
Goes(x, place) == round' = [round EXCEPT ![x].at = place]
Mishap == expiries < MaxExpiries /\ expiries' = expiries + 1

\* Rounds are alike: the first that is free is taken.
FreeRound == CHOOSE x \in Rounds : RoundAt(x, "none")
SomeFree == \E x \in Rounds : RoundAt(x, "none")

StartInstance(i) ==
    /\ i \notin up /\ SomeFree
    /\ up' = up \cup {i}
    /\ round' = [round EXCEPT ![FreeRound] = Asking(i, "startup")]
    /\ UNCHANGED <<scriptLock, loose, broken, expiries>>

\* Mutation of Refused: the lock is released all the same.
RefusedReleasing(x) == Goes(x, "release")

Refused(x) == Goes(x, "over")

\* acquire(), and the return when it is refused.
AskForLock(x) ==
    /\ RoundAt(x, "asking")
    /\ IF scriptLock = NoStarter
       THEN /\ scriptLock' = round[x].by
            /\ Goes(x, IF round[x].kind = "reload" THEN "clear" ELSE "read")
       ELSE UNCHANGED scriptLock /\ Refused(x)
    /\ UNCHANGED <<up, loose, broken, expiries>>

\* clearAll() is FLUSHALL.
ClearAll(x) ==
    /\ RoundAt(x, "clear")
    /\ scriptLock' = NoStarter
    /\ loose' = TRUE
    /\ Goes(x, "read")
    /\ UNCHANGED <<up, broken, expiries>>

\* The scripts are read once; when that fails the lock is released.
ReadScripts(x) ==
    /\ RoundAt(x, "read")
    /\ \/ Goes(x, "scripts") /\ UNCHANGED <<broken, expiries>>
       \/ Mishap /\ broken' = TRUE /\ Goes(x, "release")
    /\ UNCHANGED <<scriptLock, up, loose>>

\* A script runs, and may write to the table of scripts.  Its failure is
\* logged; at its timeout the next one runs, and the reload goes on.
ExecuteScript(x) ==
    /\ RoundAt(x, "scripts") /\ round[x].ran < ScriptCount
    /\ LET done == [round EXCEPT ![x].ran = @ + 1]
       IN \/ round' = done
          \/ SomeFree /\ round' = [done EXCEPT ![FreeRound] = Asking(round[x].by, "reload")]
    /\ UNCHANGED <<scriptLock, up, loose, broken, expiries>>

LastScript(x) == /\ RoundAt(x, "scripts") /\ round[x].ran = ScriptCount /\ Goes(x, "release")
                 /\ UNCHANGED <<scriptLock, up, loose, broken, expiries>>

\* release() compares the value, which is the instance's and not the round's.
Released(x) == IF scriptLock = round[x].by THEN NoStarter ELSE scriptLock

ReleaseScripts(x) ==
    /\ RoundAt(x, "release")
    /\ scriptLock' = Released(x)
    /\ Goes(x, "over")
    /\ UNCHANGED <<up, loose, broken, expiries>>

ExpireScripts == /\ scriptLock # NoStarter /\ Mishap
                 /\ scriptLock' = NoStarter /\ loose' = TRUE
                 /\ UNCHANGED <<up, round, broken>>

CrashScripts(i) ==
    /\ i \in up /\ Mishap
    /\ \E x \in Rounds : round[x].by = i /\ ~RoundAt(x, "over")
    /\ round' = [x \in Rounds |-> IF round[x].by = i THEN [round[x] EXCEPT !.at = "over"]
                                                     ELSE round[x]]
    /\ broken' = TRUE
    /\ UNCHANGED <<scriptLock, up, loose>>

ScriptsInit == /\ scriptLock = NoStarter /\ up = {}
               /\ round = [x \in Rounds |-> NotBegun]
               /\ loose = FALSE /\ broken = FALSE /\ expiries = 0

ScriptsNext ==
    \/ \E i \in Starters : StartInstance(i) \/ CrashScripts(i)
    \/ \E x \in Rounds : \/ AskForLock(x) \/ ClearAll(x) \/ ReadScripts(x)
                         \/ ExecuteScript(x) \/ LastScript(x) \/ ReleaseScripts(x)
    \/ ExpireScripts

ScriptsSpec == ScriptsInit /\ [][ScriptsNext]_scriptVars

ScriptsTypeOK ==
    /\ scriptLock \in Starters \cup {NoStarter} /\ up \subseteq Starters
    /\ round \in [Rounds -> [at : {"none", "asking", "clear", "read", "scripts", "release", "over"},
                             by : up \cup {NoStarter}, kind : {"startup", "reload"},
                             ran : 0 .. ScriptCount]]
    /\ loose \in BOOLEAN /\ broken \in BOOLEAN /\ expiries \in Nat

Executing == {x \in Rounds : round[x].at \in {"clear", "read", "scripts"}}

(* Unless the lock has expired or been flushed, one instance executes the  *)
(* scripts at a time, and an execution that refuses to start leaves them to *)
(* one that runs them all: with no crash and no failed query, once nothing *)
(* is going on some execution has run every script                         *)
(* (withBootstrapLock() and its callers).                                  *)
ScriptsHaveOneRunner ==
    /\ ~loose => Cardinality(Executing) <= 1
    /\ (~broken /\ up # {} /\ \A x \in Rounds : round[x].at \in {"none", "over"}) =>
          \E x \in Rounds : round[x].ran = ScriptCount

(* The scripts are executed with the lock: "already have lock from wrapper *)
(* method" (bootstrap-script.service.ts:59).                               *)
ReloadsHaveTheLock ==
    expiries = 0 =>
       \A x \in Rounds : (round[x].at \in {"read", "scripts"}) => scriptLock = round[x].by
=============================================================================
