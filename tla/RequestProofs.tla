---------------------------- MODULE RequestProofs ----------------------------
(***************************************************************************)
(* Theorems about what a request runs into: the pool of children that runs *)
(* its script (HandlerExecutor), for every set of runs and children, every *)
(* size of the pool and every set of faults, and the hooks that write its  *)
(* record with the relations (CascadeWrites), for every set of processes,  *)
(* requests, records, tags and children.                                   *)
(***************************************************************************)
EXTENDS HandlerExecutor, CascadeWrites, FiniteSetTheorems, TLAPS

-----------------------------------------------------------------------------
\* Types.

(***************************************************************************)
(* What a child has sent stays a sequence of messages when one is added    *)
(* and when the oldest is taken.                                           *)
(***************************************************************************)
LEMMA OutTypes ==
    ASSUME NEW q \in Seq(Msg)
    PROVE  /\ \A m \in Msg : Append(q, m) \in Seq(Msg)
           /\ q # <<>> => Tail(q) \in Seq(Msg) /\ Head(q) \in Msg
  OBVIOUS

(***************************************************************************)
(* Sending and taking keep the type of out.                                *)
(***************************************************************************)
LEMMA SendTypes ==
    ASSUME TypeOK, NEW c \in Child, NEW k \in {"call", "throw", "done", "error"},
           NEW t \in Task, Send(c, k, t)
    PROVE  out' \in [Child -> Seq(Msg)]
<1>1. [kind |-> k, by |-> t] \in Msg
  BY DEF Msg
<1>2. Append(out[c], [kind |-> k, by |-> t]) \in Seq(Msg)
  BY <1>1, OutTypes DEF TypeOK
<1> QED BY <1>2 DEF Send, TypeOK

LEMMA TakeTypes ==
    ASSUME TypeOK, NEW c \in Child, out[c] # <<>>, Take(c)
    PROVE  out' \in [Child -> Seq(Msg)] /\ Next1(c) \in Msg
<1>1. Tail(out[c]) \in Seq(Msg) /\ Head(out[c]) \in Msg
  BY OutTypes DEF TypeOK
<1> QED BY <1>1 DEF Take, Next1, TypeOK

LEMMA HelperTypes ==
    ASSUME NEW g \in Helper
    PROVE  [g EXCEPT !.first = FALSE] \in Helper
  BY DEF Helper

LEMMA InitTypeOK == Init => TypeOK
  BY DEF Init, TypeOK, Unsettled

LEMMA NextTypeOK == TypeOK /\ [Next]_vars => TypeOK'
<1> SUFFICES ASSUME TypeOK, [Next]_vars PROVE TypeOK'
  OBVIOUS
<1> USE DEF TypeOK, runVars, poolVars, childVars
<1>1. ASSUME NEW t \in Task, Call(t) PROVE TypeOK'
  BY <1>1 DEF Call
<1>2. ASSUME NEW t \in Task, Timeout(t) PROVE TypeOK'
  BY <1>2 DEF Timeout, Finish, End, Destroy, ProcessEnds, Settle
<1>3. ASSUME NEW t \in Task, NEW c \in Child, Start(t, c) PROVE TypeOK'
  BY <1>3 DEF Start, Acquire
<1>4. ASSUME NEW t \in Task, NEW c \in Child, ScriptCalls(c, t) PROVE TypeOK'
  BY <1>4, SendTypes DEF ScriptCalls
<1>5. ASSUME NEW t \in Task, NEW c \in Child, ScriptThrows(c, t) PROVE TypeOK'
  BY <1>5, SendTypes DEF ScriptThrows
<1>6. ASSUME NEW t \in Task, NEW c \in Child, ScriptEnds(c, t) PROVE TypeOK'
  BY <1>6, SendTypes DEF ScriptEnds
<1>7. ASSUME NEW t \in Task, NEW c \in Child, ScriptDetaches(c, t) PROVE TypeOK'
  BY <1>7, SendTypes DEF ScriptDetaches
<1>8. ASSUME NEW t \in Task, NEW c \in Child, LeftoverCalls(c, t) PROVE TypeOK'
  BY <1>8, SendTypes DEF LeftoverCalls
<1>9. ASSUME NEW t \in Task, NEW c \in Child, LeftoverFails(c, t) PROVE TypeOK'
  BY <1>9, SendTypes DEF LeftoverFails
<1>10. ASSUME NEW c \in Child, Fork(c) \/ Forget(c) PROVE TypeOK'
  BY <1>10 DEF Fork, Forget
<1>11. ASSUME NEW c \in Child, Exits(c) PROVE TypeOK'
  <2>1. [kind |-> "exit", by |-> dying[c]] \in Msg
    BY DEF Msg
  <2>2. out' \in [Child -> Seq(Msg)]
    BY <1>11, <2>1, OutTypes DEF Exits
  <2> QED BY <1>11, <2>2 DEF Exits, ProcessEnds
<1>12. ASSUME NEW c \in Child, Evict(c) PROVE TypeOK'
  <2>1. [kind |-> "exit", by |-> None] \in Msg
    BY DEF Msg
  <2>2. out' \in [Child -> Seq(Msg)]
    BY <1>12, <2>1, OutTypes DEF Evict
  <2> QED BY <1>12, <2>2 DEF Evict, ProcessEnds
<1>13. ASSUME NEW t \in Task, NEW c \in Child, StartFails(t, c) PROVE TypeOK'
  BY <1>13 DEF StartFails, Acquire, Settle
<1>14. ASSUME NEW c \in Child, Drop(c) PROVE TypeOK'
  BY <1>14, TakeTypes DEF Drop
<1>15. ASSUME NEW c \in Child, HandleCall(c) PROVE TypeOK'
  <2>1. out' \in [Child -> Seq(Msg)] /\ Next1(c) \in Msg /\ Next1(c).kind = "call"
    BY <1>15, TakeTypes DEF HandleCall, Hears
  <2>2. Next1(c).by \in Task
    BY <2>1 DEF Msg
  <2>3. PICK sub \in [listens[c] -> {s \in Task : stage[s] = "idle"} \cup {None}] :
           /\ stage' = [s \in Task |-> IF \E t \in listens[c] : sub[t] = s
                                      THEN "queued" ELSE stage[s]]
           /\ helpers' = helpers \cup {[by |-> Next1(c).by, ctx |-> t, child |-> c, sub |-> sub[t],
                                       first |-> TRUE] : t \in listens[c]}
    BY <1>15 DEF HandleCall
  <2>4. ASSUME NEW t \in listens[c]
        PROVE  [by |-> Next1(c).by, ctx |-> t, child |-> c, sub |-> sub[t], first |-> TRUE] \in Helper
    <3>1. sub[t] \in Task \cup {None} /\ t \in Task
      BY <2>3
    <3> QED BY <2>2, <3>1 DEF Helper
  <2>5. helpers' \subseteq Helper
    BY <2>3, <2>4
  <2> QED BY <1>15, <2>1, <2>3, <2>5 DEF HandleCall
<1>16. ASSUME NEW c \in Child, HandleThrow(c) \/ HandleDone(c) \/ HandleError(c) PROVE TypeOK'
  <2>1. out' \in [Child -> Seq(Msg)] /\ Next1(c).by \in Task \cup {None}
    BY <1>16, TakeTypes DEF HandleThrow, HandleDone, HandleError, Hears, Msg
  <2>2. CASE HandleThrow(c)
    BY <2>1, <2>2 DEF HandleThrow, Settle
  <2>3. CASE HandleDone(c)
    BY <2>1, <2>3 DEF HandleDone, Finish, End, Settle
  <2>4. CASE HandleError(c)
    BY <2>1, <2>4 DEF HandleError, Finish, End, Destroy, ProcessEnds, Settle
  <2> QED BY <1>16, <2>2, <2>3, <2>4
<1>17. ASSUME NEW h \in helpers, HelperReturns(h) PROVE TypeOK'
  <2>1. \A g \in helpers : g \in Helper /\ [g EXCEPT !.first = FALSE] \in Helper
    BY HelperTypes
  <2>2. h.child \in Child
    BY DEF Helper
  <2> DEFINE c == h.child
             woken == h.first /\ alive[c] /\ ~known[c] /\ script[c] = h.by /\ waits[c] = "call"
  <2>3. helpers' = {IF woken /\ g.child = c /\ g.by = h.by
                    THEN [g EXCEPT !.first = FALSE] ELSE g : g \in helpers \ {h}}
    BY <1>17 DEF HelperReturns
  <2> HIDE DEF woken
  <2>4. helpers' \subseteq Helper
    <3>1. ASSUME NEW g \in helpers
          PROVE  (IF woken /\ g.child = c /\ g.by = h.by
                  THEN [g EXCEPT !.first = FALSE] ELSE g) \in Helper
      BY <2>1
    <3> QED BY <2>3, <3>1
  <2> QED BY <1>17, <2>2, <2>4 DEF HelperReturns
<1>18. CASE UNCHANGED vars
  BY <1>18 DEF vars
<1> QED BY <1>1, <1>2, <1>3, <1>4, <1>5, <1>6, <1>7, <1>8, <1>9, <1>10, <1>11,
           <1>12, <1>13, <1>14, <1>15, <1>16, <1>17, <1>18 DEF Next, Parent

(***************************************************************************)
(* Every variable keeps its type.                                          *)
(***************************************************************************)
THEOREM TypeCorrect == Spec => []TypeOK
  BY InitTypeOK, NextTypeOK, PTL DEF Spec

-----------------------------------------------------------------------------
\* Lending.

(***************************************************************************)
(* What a step needs to know besides LendingIsExclusive: only a run that   *)
(* has begun has a child, which is lent until it is taken from it; only a  *)
(* run whose message was not sent is over with its timer set; and who      *)
(* listens to a child was given it and has its timer set.                  *)
(***************************************************************************)
RunsAreUnderWay ==
    /\ \A t \in Task : stage[t] \in {"idle", "queued"} => ~isDone[t] /\ on[t] = None
    /\ \A t \in Task : stage[t] = "running" => on[t] \in Child
    /\ \A t \in Task : stage[t] = "running" => pool[on[t]] \in {"lent", "gone"} \/ server = "down"
    /\ \A t \in Task : stage[t] = "over" /\ ~isDone[t] => t \in unsent
    /\ \A t \in unsent : stage[t] = "over" /\ outcome[t] # Unsettled
    /\ \A c \in Child : \A t \in listens[c] :
          on[t] = c /\ ~isDone[t] /\ stage[t] \in {"running", "over"}

LendingInv == TypeOK /\ LendingIsExclusive /\ RunsAreUnderWay

LEMMA InitLending == Init => LendingInv
  BY InitTypeOK, ExecutorAssumption DEF Init, LendingInv, LendingIsExclusive, RunsAreUnderWay

(***************************************************************************)
(* A promise that has been settled stays so.                               *)
(***************************************************************************)
LEMMA SettledStays ==
    ASSUME TypeOK, NEW S \in SUBSET Task, NEW how \in {"resolved", "rejected"}, NEW by,
           Settle(S, how, by)
    PROVE  /\ \A t \in Task : outcome[t] # Unsettled => outcome'[t] = outcome[t]
           /\ \A t \in S : outcome'[t] # Unsettled
           /\ \A t \in Task \ S : outcome'[t] = outcome[t]
  BY DEF Settle, Unsettled, TypeOK

LendingTypes ==
    /\ stage \in [Task -> {"idle", "queued", "running", "over"}]
    /\ isDone \in [Task -> BOOLEAN]
    /\ on \in [Task -> Child \cup {None}]
    /\ pool \in [Child -> {"absent", "idle", "lent", "gone"}]
    /\ listens \in [Child -> SUBSET Task]
    /\ unsent \subseteq Task
    /\ None \notin Task \cup Child

(***************************************************************************)
(* Runs end that were given child c: nobody listens to it any more, and    *)
(* it is lent no more.  A run that has c and does not end is one that a    *)
(* run before it, with no message sent, has the child taken from.          *)
(***************************************************************************)
LEMMA EndingKeepsLending ==
    ASSUME LendingTypes, LendingIsExclusive, RunsAreUnderWay, TypeOK',
           NEW c \in Child, NEW S \in SUBSET Task,
           \A t \in S : on[t] = c /\ ~isDone[t],
           stage' = [t \in Task |-> IF t \in S THEN "over" ELSE stage[t]],
           isDone' = [t \in Task |-> isDone[t] \/ t \in S],
           listens' = [listens EXCEPT ![c] = {}],
           on' = on, unsent' = unsent, server' = server,
           \A d \in Child \ {c} : pool'[d] = pool[d],
           pool'[c] # "lent", pool'[c] = pool[c] \/ pool[c] = "lent",
           \A t \in Task : outcome[t] # Unsettled => outcome'[t] = outcome[t],
           \A t \in Task \ S : stage[t] = "running" /\ on[t] = c =>
              pool'[c] = "gone" /\ \E u \in unsent : on[u] = c
    PROVE  LendingIsExclusive' /\ RunsAreUnderWay'
<1> USE DEF LendingTypes
<1>1. /\ \A t \in Task : stage'[t] = "running" => stage[t] = "running" /\ t \notin S
      /\ \A t \in Task : stage'[t] \in {"idle", "queued"} => stage[t] \in {"idle", "queued"} /\ t \notin S
      /\ \A t \in Task : ~isDone'[t] <=> ~isDone[t] /\ t \notin S
      /\ \A d \in Child \ {c} : listens'[d] = listens[d]
      /\ listens'[c] = {}
  OBVIOUS
<1>2. \A t \in S : stage'[t] = "over" /\ isDone'[t] /\ on[t] \in Child
  OBVIOUS
<1>3. \A d \in Child \ {c} : \A t \in listens[d] : t \notin S
  BY DEF RunsAreUnderWay
<1>4. \A t \in Task : stage[t] = "running" /\ on[t] # c => t \notin S /\ stage'[t] = "running"
  OBVIOUS
<1>5. \A t \in unsent : stage'[t] = "over" /\ outcome'[t] # Unsettled'
  BY DEF RunsAreUnderWay, Unsettled
<1>6. \A t \in Task : stage'[t] = "over" /\ ~isDone'[t] => t \in unsent
  BY <1>1 DEF RunsAreUnderWay
<1>7. \A t \in Task : stage'[t] = "running" => pool'[on[t]] \in {"lent", "gone"} \/ server = "down"
  BY <1>1, <1>4 DEF RunsAreUnderWay
<1>8. \A d \in Child : \A t \in listens'[d] : on[t] = d /\ ~isDone'[t] /\ stage'[t] \in {"running", "over"}
  BY <1>1, <1>3 DEF RunsAreUnderWay
<1>9. RunsAreUnderWay'
  BY <1>1, <1>5, <1>6, <1>7, <1>8 DEF RunsAreUnderWay
<1>10. \A d \in Child : pool'[d] = "lent" => \E t \in listens'[d] : stage'[t] = "running" /\ on[t] = d
  <2>1. ASSUME NEW d \in Child, d # c, pool'[d] = "lent"
        PROVE  \E t \in listens'[d] : stage'[t] = "running" /\ on[t] = d
    <3>1. pool[d] = "lent" /\ listens'[d] = listens[d] /\ listens[d] \subseteq Task
      BY <1>1, <2>1
    <3>2. PICK t \in listens[d] : stage[t] = "running" /\ on[t] = d
      BY <3>1 DEF LendingIsExclusive
    <3> QED BY <1>4, <2>1, <3>1, <3>2
  <2> QED BY <2>1
<1>11. ASSUME NEW d \in Child, \A u \in unsent : on[u] # d
       PROVE  /\ listens'[d] = {t \in Task : stage'[t] = "running" /\ on[t] = d}
              /\ listens'[d] # {} => pool'[d] = "lent"
  <2>1. CASE d = c
    BY <1>1, <1>11, <2>1
  <2>2. CASE d # c
    <3>1. \A t \in Task : on[t] = d => (stage'[t] = "running" <=> stage[t] = "running")
      BY <1>1, <1>4, <2>2
    <3>2. listens'[d] = listens[d] /\ pool'[d] = pool[d]
      BY <1>1, <2>2
    <3> QED BY <1>11, <3>1, <3>2 DEF LendingIsExclusive
  <2> QED BY <2>1, <2>2
<1>12. LendingIsExclusive'
  BY <1>1, <1>10, <1>11 DEF LendingIsExclusive
<1> QED BY <1>9, <1>12

(***************************************************************************)
(* Calls that begin wait for a child and touch none.                       *)
(***************************************************************************)
LEMMA QueueingKeepsLending ==
    ASSUME LendingTypes, LendingIsExclusive, RunsAreUnderWay,
           \A s \in Task : stage'[s] = stage[s] \/ (stage[s] = "idle" /\ stage'[s] = "queued"),
           UNCHANGED <<outcome, isDone, on, unsent, server, pool, listens>>
    PROVE  LendingIsExclusive' /\ RunsAreUnderWay'
<1>1. \A s \in Task :
         /\ stage'[s] = "running" <=> stage[s] = "running"
         /\ stage'[s] = "over" <=> stage[s] = "over"
         /\ stage'[s] \in {"idle", "queued"} => stage[s] \in {"idle", "queued"}
  OBVIOUS
<1>2. \A c \in Child : listens[c] \subseteq Task
  BY DEF LendingTypes
<1>3. unsent \subseteq Task
  BY DEF LendingTypes
<1>4. LendingIsExclusive'
  BY <1>1, <1>2 DEF LendingIsExclusive
<1>5. RunsAreUnderWay'
  BY <1>1, <1>2, <1>3 DEF RunsAreUnderWay, Unsettled
<1> QED BY <1>4, <1>5

LEMMA TimeoutKeepsLending ==
    ASSUME LendingInv, TypeOK', NEW t \in Task, Timeout(t), server = "up"
    PROVE  LendingIsExclusive' /\ RunsAreUnderWay'
<1> DEFINE c == on[t]
<1>1. LendingTypes /\ LendingIsExclusive /\ RunsAreUnderWay /\ TypeOK
  BY ExecutorAssumption DEF LendingInv, TypeOK, LendingTypes
<1>2. c \in Child /\ ~isDone[t] /\ stage[t] \in {"running", "over"}
  BY <1>1 DEF Timeout, LendingTypes, RunsAreUnderWay
<1>3. \A u \in Task \ {t} : stage[u] = "running" /\ on[u] = c =>
         pool[c] \in {"lent", "gone"} /\ \E v \in unsent : on[v] = c
  <2>1. stage[t] = "over" => t \in unsent
    BY <1>1, <1>2 DEF RunsAreUnderWay
  <2> QED BY <1>1, <1>2, <2>1 DEF LendingIsExclusive, RunsAreUnderWay
<1>4. /\ isDone' = [u \in Task |-> isDone[u] \/ u \in {t}]
      /\ listens' = [listens EXCEPT ![c] = {}]
  BY DEF Timeout, Finish
<1>5. /\ stage' = [u \in Task |-> IF u \in {t} THEN "over" ELSE stage[u]]
      /\ Settle({t}, "rejected", None)
  BY DEF Timeout, End
<1>6. on' = on /\ unsent' = unsent /\ server' = server
  BY DEF Timeout
<1>7. pool' = [pool EXCEPT ![c] = IF @ = "lent" THEN "gone" ELSE @]
  BY DEF Timeout, Destroy
<1>8. \A u \in Task : outcome[u] # Unsettled => outcome'[u] = outcome[u]
  BY <1>1, <1>5, SettledStays
<1> HIDE DEF c
<1>9. /\ pool'[c] # "lent" /\ (pool'[c] = pool[c] \/ pool[c] = "lent")
      /\ pool[c] \in {"lent", "gone"} => pool'[c] = "gone"
      /\ \A d \in Child \ {c} : pool'[d] = pool[d]
  BY <1>1, <1>2, <1>7 DEF LendingTypes
<1>10. \A u \in {t} : on[u] = c /\ ~isDone[u]
  BY <1>2 DEF c
<1>11. {t} \in SUBSET Task
  OBVIOUS
<1> QED BY <1>1, <1>2, <1>3, <1>4, <1>5, <1>6, <1>8, <1>9, <1>10, <1>11, EndingKeepsLending

LEMMA DoneKeepsLending ==
    ASSUME LendingInv, TypeOK', NEW c \in Child, HandleDone(c), server = "up"
    PROVE  LendingIsExclusive' /\ RunsAreUnderWay'
<1>1. LendingTypes /\ LendingIsExclusive /\ RunsAreUnderWay /\ TypeOK
  BY ExecutorAssumption DEF LendingInv, TypeOK, LendingTypes
<1>2. /\ isDone' = [u \in Task |-> isDone[u] \/ u \in listens[c]]
      /\ listens' = [listens EXCEPT ![c] = {}]
      /\ on' = on /\ unsent' = unsent
      /\ pool' = [pool EXCEPT ![c] = IF @ = "lent" THEN "idle" ELSE @]
  BY DEF HandleDone, Finish
<1>3. /\ listens[c] \in SUBSET Task /\ listens[c] # {}
      /\ \A u \in listens[c] : on[u] = c /\ ~isDone[u] /\ stage[u] \in {"running", "over"}
  BY <1>1 DEF HandleDone, Hears, LendingTypes, RunsAreUnderWay
<1>4. CASE pool[c] = "lent" /\ \A t, u \in listens[c] : t = u
  <2>1. /\ stage' = [u \in Task |-> IF u \in listens[c] THEN "over" ELSE stage[u]]
        /\ Settle(listens[c], "resolved", Next1(c).by) /\ server' = server
    BY <1>4 DEF HandleDone, End
  <2>2. \A u \in Task : outcome[u] # Unsettled => outcome'[u] = outcome[u]
    BY <1>1, <1>3, <2>1, SettledStays
  <2>3. \A u \in Task \ listens[c] : ~(stage[u] = "running" /\ on[u] = c)
    <3>1. PICK r \in listens[c] : stage[r] = "running" /\ on[r] = c
      BY <1>1, <1>4 DEF LendingIsExclusive
    <3>2. \A u \in Task : stage[u] = "running" /\ on[u] = c => u = r
      BY <1>1, <1>3, <3>1 DEF LendingIsExclusive
    <3> QED BY <3>1, <3>2
  <2>4. /\ pool'[c] = "idle" /\ pool[c] = "lent" /\ \A d \in Child \ {c} : pool'[d] = pool[d]
    BY <1>1, <1>2, <1>4 DEF LendingTypes
  <2>5. pool'[c] # "lent" /\ (pool'[c] = pool[c] \/ pool[c] = "lent")
    BY <2>4
  <2>6. \A u \in listens[c] : on[u] = c /\ ~isDone[u]
    BY <1>3
  <2> QED BY <1>1, <1>2, <1>3, <2>1, <2>2, <2>3, <2>4, <2>5, <2>6, EndingKeepsLending
\* Two runs have listened: the server does not outlive it.
<1>5. CASE ~(pool[c] = "lent" /\ \A t, u \in listens[c] : t = u)
  <2>1. stage' = stage /\ outcome' = outcome /\ server' = "down"
    BY <1>5 DEF HandleDone
  <2>2. \E u \in unsent : on[u] = c
    BY <1>1, <1>3, <1>5 DEF LendingIsExclusive
  <2>3. /\ \A u \in Task : isDone'[u] <=> isDone[u] \/ u \in listens[c]
        /\ \A d \in Child \ {c} : listens'[d] = listens[d] /\ pool'[d] = pool[d]
        /\ listens'[c] = {} /\ pool'[c] # "lent"
    BY <1>1, <1>2 DEF LendingTypes
  <2>4. RunsAreUnderWay'
    <3>1. \A u \in Task : stage[u] \in {"idle", "queued"} => u \notin listens[c]
      BY <1>3
    <3>2. \A d \in Child \ {c} : \A u \in listens[d] : u \notin listens[c]
      BY <1>1, <1>3 DEF RunsAreUnderWay
    <3> QED BY <1>1, <1>2, <2>1, <2>3, <3>1, <3>2 DEF RunsAreUnderWay, Unsettled, LendingTypes
  <2>5. LendingIsExclusive'
    <3>1. \A d \in Child : (\A u \in unsent : on[u] # d) => d # c
      BY <2>2
    <3> QED BY <1>1, <1>2, <2>1, <2>2, <2>3, <3>1 DEF LendingIsExclusive, LendingTypes
  <2> QED BY <2>4, <2>5
<1> QED BY <1>4, <1>5

LEMMA ErrorKeepsLending ==
    ASSUME LendingInv, TypeOK', NEW c \in Child, HandleError(c), server = "up"
    PROVE  LendingIsExclusive' /\ RunsAreUnderWay'
<1>1. LendingTypes /\ LendingIsExclusive /\ RunsAreUnderWay /\ TypeOK
  BY ExecutorAssumption DEF LendingInv, TypeOK, LendingTypes
<1>2. /\ isDone' = [u \in Task |-> isDone[u] \/ u \in listens[c]]
      /\ listens' = [listens EXCEPT ![c] = {}]
      /\ on' = on /\ unsent' = unsent /\ server' = server
  BY DEF HandleError, Finish
<1>3. /\ stage' = [u \in Task |-> IF u \in listens[c] THEN "over" ELSE stage[u]]
      /\ Settle(listens[c], "rejected", Next1(c).by)
  BY DEF HandleError, End
<1>4. pool' = [pool EXCEPT ![c] = IF @ = "lent" THEN "gone" ELSE @]
  BY DEF HandleError, Destroy
<1>5. /\ listens[c] \in SUBSET Task /\ listens[c] # {}
      /\ \A u \in listens[c] : on[u] = c /\ ~isDone[u]
  BY <1>1 DEF HandleError, Hears, LendingTypes, RunsAreUnderWay
<1>6. \A u \in Task : outcome[u] # Unsettled => outcome'[u] = outcome[u]
  BY <1>1, <1>3, <1>5, SettledStays
<1>7. /\ pool'[c] # "lent" /\ (pool'[c] = pool[c] \/ pool[c] = "lent")
      /\ pool[c] \in {"lent", "gone"} => pool'[c] = "gone"
      /\ \A d \in Child \ {c} : pool'[d] = pool[d]
  BY <1>1, <1>4 DEF LendingTypes
<1>8. \A u \in Task \ listens[c] : stage[u] = "running" /\ on[u] = c =>
         pool[c] \in {"lent", "gone"} /\ \E v \in unsent : on[v] = c
  BY <1>1 DEF LendingIsExclusive, RunsAreUnderWay
<1> QED BY <1>1, <1>2, <1>3, <1>5, <1>6, <1>7, <1>8, EndingKeepsLending

LEMMA NextLending == LendingInv /\ [Next]_vars => LendingInv'
<1> SUFFICES ASSUME LendingInv, [Next]_vars
             PROVE  LendingIsExclusive' /\ RunsAreUnderWay'
  BY NextTypeOK DEF LendingInv
<1>0. LendingTypes /\ LendingIsExclusive /\ RunsAreUnderWay /\ TypeOK
  BY ExecutorAssumption DEF LendingInv, TypeOK, LendingTypes
<1>0a. TypeOK'
  BY NextTypeOK DEF LendingInv
<1>1. ASSUME NEW t \in Task, Call(t)
      PROVE  LendingIsExclusive' /\ RunsAreUnderWay'
  <2>1. /\ \A s \in Task : stage'[s] = stage[s] \/ (stage[s] = "idle" /\ stage'[s] = "queued")
        /\ UNCHANGED <<outcome, isDone, on, unsent, server, pool, listens>>
    BY <1>0, <1>1 DEF Call, poolVars, LendingTypes
  <2> QED BY <1>0, <2>1, QueueingKeepsLending
<1>2. ASSUME NEW t \in Task, Timeout(t), server = "up"
      PROVE  LendingIsExclusive' /\ RunsAreUnderWay'
  BY <1>0a, <1>2, TimeoutKeepsLending
<1>11. ASSUME NEW c \in Child, HandleDone(c), server = "up"
       PROVE  LendingIsExclusive' /\ RunsAreUnderWay'
  BY <1>0a, <1>11, DoneKeepsLending
<1>12. ASSUME NEW c \in Child, HandleError(c), server = "up"
       PROVE  LendingIsExclusive' /\ RunsAreUnderWay'
  BY <1>0a, <1>12, ErrorKeepsLending
<1> USE <1>0 DEF LendingTypes, LendingIsExclusive, RunsAreUnderWay
<1>3. ASSUME NEW t \in Task, NEW c \in Child, Start(t, c), server = "up"
      PROVE  LendingIsExclusive' /\ RunsAreUnderWay'
  BY <1>3 DEF Start, Acquire
<1>4. ASSUME NEW t \in Task, NEW c \in Child, StartFails(t, c), server = "up"
      PROVE  LendingIsExclusive' /\ RunsAreUnderWay'
  <2>1. /\ \A u \in Task : outcome[u] # Unsettled => outcome'[u] = outcome[u]
        /\ outcome'[t] # Unsettled
    <3>1. Settle({t}, "rejected", None) /\ {t} \in SUBSET Task
      BY <1>4 DEF StartFails
    <3> HIDE DEF LendingTypes, LendingIsExclusive, RunsAreUnderWay
    <3> QED BY <1>0, <3>1, SettledStays
  <2>2. RunsAreUnderWay'
    BY <1>4, <2>1 DEF StartFails, Acquire, Unsettled
  <2> QED BY <1>4, <2>2 DEF StartFails, Acquire
<1>5. ASSUME NEW t \in Task, NEW c \in Child,
             \/ ScriptCalls(c, t) \/ ScriptThrows(c, t) \/ ScriptEnds(c, t)
             \/ ScriptDetaches(c, t) \/ LeftoverCalls(c, t) \/ LeftoverFails(c, t)
      PROVE  LendingIsExclusive' /\ RunsAreUnderWay'
  BY <1>5 DEF ScriptCalls, ScriptThrows, ScriptEnds, ScriptDetaches, LeftoverCalls,
              LeftoverFails, runVars, poolVars
<1>6. ASSUME NEW c \in Child, Fork(c) \/ Evict(c), server = "up"
      PROVE  LendingIsExclusive' /\ RunsAreUnderWay'
  <2>1. CASE Fork(c)
    BY <1>6, <2>1 DEF Fork, runVars
  <2>2. CASE Evict(c)
    BY <1>6, <2>2 DEF Evict, runVars
  <2> QED BY <1>6, <2>1, <2>2
<1>7. ASSUME NEW c \in Child, Forget(c), server = "up"
      PROVE  LendingIsExclusive' /\ RunsAreUnderWay'
  <2>1. \A t \in Task : stage[t] = "running" => on[t] # c /\ on'[t] = on[t]
    BY <1>7 DEF Forget
  <2>2. \A d \in Child : d # c => \A t \in Task : on'[t] = d <=> on[t] = d
    BY <1>7 DEF Forget
  <2>3. /\ stage' = stage /\ isDone' = isDone /\ outcome' = outcome /\ unsent' = unsent
        /\ server' = server /\ listens' = listens /\ listens[c] = {}
        /\ pool[c] = "gone" /\ pool' = [pool EXCEPT ![c] = "absent"]
    BY <1>7 DEF Forget
  <2>4. RunsAreUnderWay'
    BY <1>7, <2>1, <2>2, <2>3 DEF Forget
  <2> QED BY <2>1, <2>2, <2>3, <2>4
<1>8. ASSUME NEW c \in Child, Exits(c) \/ Drop(c)
      PROVE  LendingIsExclusive' /\ RunsAreUnderWay'
  BY <1>8 DEF Exits, Drop, runVars, poolVars
<1>9. ASSUME NEW c \in Child, HandleCall(c)
      PROVE  LendingIsExclusive' /\ RunsAreUnderWay'
  <2>1. /\ \A s \in Task : stage'[s] = stage[s] \/ (stage[s] = "idle" /\ stage'[s] = "queued")
        /\ UNCHANGED <<outcome, isDone, on, unsent, server, pool, listens>>
    BY <1>9 DEF HandleCall, poolVars
  <2> QED BY <2>1, QueueingKeepsLending
<1>10. ASSUME NEW c \in Child, HandleThrow(c)
       PROVE  LendingIsExclusive' /\ RunsAreUnderWay'
  <2>1. \A u \in Task : outcome[u] # Unsettled => outcome'[u] = outcome[u]
    <3>1. Settle(listens[c], "rejected", Next1(c).by) /\ listens[c] \in SUBSET Task
      BY <1>10 DEF HandleThrow
    <3> HIDE DEF LendingTypes, LendingIsExclusive, RunsAreUnderWay
    <3> QED BY <1>0, <3>1, SettledStays
  <2> QED BY <1>10, <2>1 DEF HandleThrow, poolVars, Unsettled
<1>13. ASSUME NEW h \in helpers, HelperReturns(h)
       PROVE  LendingIsExclusive' /\ RunsAreUnderWay'
  BY <1>13 DEF HelperReturns, runVars, poolVars
<1>14. CASE UNCHANGED vars
  BY <1>14 DEF vars
<1> QED BY <1>1, <1>2, <1>3, <1>4, <1>5, <1>6, <1>7, <1>8, <1>9, <1>10, <1>11,
           <1>12, <1>13, <1>14 DEF Next, Parent

LEMMA LendingAlways == Spec => []LendingInv
  BY InitLending, NextLending, PTL DEF Spec

(***************************************************************************)
(* However the ends of runs, the deaths of children and the pool's own     *)
(* housekeeping fall, a lent child belongs to exactly one run, which is    *)
(* not over and listens.  Nobody else listens, and only that run's own     *)
(* ends take the child from it, unless its process was given before to a   *)
(* run whose message could not be sent; and only such a run's listeners    *)
(* bring the server down.                                                  *)
(***************************************************************************)
THEOREM ExclusiveLending == Spec => []LendingIsExclusive
<1>1. LendingInv => LendingIsExclusive
  BY DEF LendingInv
<1> QED BY <1>1, LendingAlways, PTL

-----------------------------------------------------------------------------
\* Settling.

LEMMA NextSettled == TypeOK /\ OverIsSettled /\ [Next]_vars => OverIsSettled'
<1> SUFFICES ASSUME TypeOK, OverIsSettled, [Next]_vars PROVE OverIsSettled'
  OBVIOUS
<1> USE DEF TypeOK, OverIsSettled
<1>1. ASSUME NEW t \in Task, Call(t) PROVE OverIsSettled'
  BY <1>1 DEF Call
<1>2. ASSUME NEW t \in Task, Timeout(t) PROVE OverIsSettled'
  <2>1. /\ \A u \in Task : outcome[u] # Unsettled => outcome'[u] = outcome[u]
        /\ outcome'[t] # Unsettled
    BY <1>2, SettledStays DEF Timeout, End
  <2> QED BY <1>2, <2>1 DEF Timeout, Finish, End, Unsettled
<1>3. ASSUME NEW t \in Task, NEW c \in Child, Start(t, c) PROVE OverIsSettled'
  BY <1>3 DEF Start
<1>4. ASSUME NEW t \in Task, NEW c \in Child, StartFails(t, c) PROVE OverIsSettled'
  <2>1. /\ \A u \in Task : outcome[u] # Unsettled => outcome'[u] = outcome[u]
        /\ outcome'[t] # Unsettled
    BY <1>4, SettledStays DEF StartFails
  <2> QED BY <1>4, <2>1 DEF StartFails, Unsettled
<1>5. ASSUME NEW t \in Task, NEW c \in Child,
             \/ ScriptCalls(c, t) \/ ScriptThrows(c, t) \/ ScriptEnds(c, t)
             \/ ScriptDetaches(c, t) \/ LeftoverCalls(c, t) \/ LeftoverFails(c, t)
      PROVE  OverIsSettled'
  BY <1>5 DEF ScriptCalls, ScriptThrows, ScriptEnds, ScriptDetaches, LeftoverCalls,
              LeftoverFails, runVars
<1>6. ASSUME NEW c \in Child, Fork(c) \/ Evict(c) \/ Forget(c) \/ Exits(c) \/ Drop(c)
      PROVE  OverIsSettled'
  BY <1>6 DEF Fork, Evict, Forget, Exits, Drop, runVars
<1>7. ASSUME NEW c \in Child, HandleCall(c) PROVE OverIsSettled'
  BY <1>7 DEF HandleCall
<1>8. ASSUME NEW c \in Child, HandleThrow(c) PROVE OverIsSettled'
  <2>1. \A u \in Task : outcome[u] # Unsettled => outcome'[u] = outcome[u]
    BY <1>8, SettledStays DEF HandleThrow
  <2> QED BY <1>8, <2>1 DEF HandleThrow, Unsettled
<1>9. ASSUME NEW c \in Child, HandleDone(c), server' = "down" PROVE OverIsSettled'
  BY <1>9
<1>10. ASSUME NEW c \in Child,
              \/ HandleDone(c) /\ server' # "down"
              \/ HandleError(c)
       PROVE  OverIsSettled'
  <2>1. \E how \in {"resolved", "rejected"} : End(listens[c], how, Next1(c).by)
    BY <1>10 DEF HandleDone, HandleError
  <2>2. /\ \A u \in Task : outcome[u] # Unsettled => outcome'[u] = outcome[u]
        /\ \A u \in listens[c] : outcome'[u] # Unsettled
    BY <2>1, SettledStays DEF End
  <2>3. /\ stage' = [t \in Task |-> IF t \in listens[c] THEN "over" ELSE stage[t]]
        /\ isDone' = [t \in Task |-> isDone[t] \/ t \in listens[c]]
        /\ server' = server
    BY <1>10 DEF HandleDone, HandleError, Finish, End
  <2> QED BY <2>2, <2>3 DEF Unsettled
<1>11. ASSUME NEW h \in helpers, HelperReturns(h) PROVE OverIsSettled'
  BY <1>11 DEF HelperReturns, runVars
<1>12. CASE UNCHANGED vars
  BY <1>12 DEF vars
<1> QED BY <1>1, <1>2, <1>3, <1>4, <1>5, <1>6, <1>7, <1>8, <1>9, <1>10, <1>11, <1>12
   DEF Next, Parent

(***************************************************************************)
(* Whichever of its ends comes first - an answer, an error, the exit of    *)
(* the child, the timeout, a message that cannot be sent - a run that is   *)
(* over has answered, unless the server has come to its own end.           *)
(***************************************************************************)
THEOREM EveryEndAnswers == Spec => []OverIsSettled
<1>1. Init => TypeOK /\ OverIsSettled
  BY InitTypeOK DEF Init, OverIsSettled
<1>2. TypeOK /\ OverIsSettled /\ [Next]_vars => (TypeOK /\ OverIsSettled)'
  BY NextTypeOK, NextSettled
<1> QED BY <1>1, <1>2, PTL DEF Spec

-----------------------------------------------------------------------------
\* Isolation.

Has(t, c) == stage[t] = "running" /\ on[t] = c
OfStray(m) == m.by \in strayed \cup {None}
Heard(c) == pool[c] # "gone" \/ listens[c] # {}

(***************************************************************************)
(* An unread message is of the run that has the child, or of one that had  *)
(* left calls behind; nothing of the same run follows its "done" but such  *)
(* calls.  This is why the next run of a child hears its own code only:    *)
(* when a child goes back to the pool, what is unread is of strays.        *)
(***************************************************************************)
MessagesHaveOwners ==
    \A c \in Child : Heard(c) =>
       /\ \A k \in 1 .. Len(out[c]) : OfStray(out[c][k]) \/ Has(out[c][k].by, c)
       /\ \A k \in 1 .. Len(out[c]) : out[c][k].kind = "done" =>
             /\ Has(out[c][k].by, c) /\ script[c] # out[c][k].by
             /\ \A l \in k + 1 .. Len(out[c]) :
                   out[c][l].by = out[c][k].by => /\ out[c][l].by \in strayed
                                                 /\ out[c][l].kind # "done"

ChildrenInOrder ==
    \A c \in Child :
       /\ pool[c] = "absent" => ~alive[c] /\ out[c] = <<>>
       /\ left[c] \subseteq strayed
       /\ dying[c] \in strayed \cup {None}
       /\ script[c] # None => Has(script[c], c) /\ pool[c] # "gone"

IsolationInv == /\ LendingInv /\ MessagesHaveOwners /\ ChildrenInOrder
                /\ OnlyStraysReachOthers

LEMMA AppendAt ==
    ASSUME NEW q \in Seq(Msg), NEW m \in Msg
    PROVE  /\ Len(Append(q, m)) = Len(q) + 1 /\ Len(q) \in Nat
           /\ \A k \in 1 .. Len(q) : Append(q, m)[k] = q[k]
           /\ Append(q, m)[Len(q) + 1] = m
  OBVIOUS

LEMMA TailAt ==
    ASSUME NEW q \in Seq(Msg), q # <<>>
    PROVE  /\ Head(q) = q[1] /\ 1 \in 1 .. Len(q)
           /\ Len(Tail(q)) = Len(q) - 1 /\ Len(q) \in Nat
           /\ \A k \in 1 .. Len(Tail(q)) : Tail(q)[k] = q[k + 1]
  OBVIOUS

(***************************************************************************)
(* A message may be sent by what a stray left behind, or by the code of    *)
(* the run that has the child, which has not yet said "done".              *)
(***************************************************************************)
LEMMA SendingKeepsOwners ==
    ASSUME NEW c \in Child, NEW m \in Msg,
           LendingInv, MessagesHaveOwners, ChildrenInOrder,
           out' = [out EXCEPT ![c] = Append(@, m)],
           stage' = stage, on' = on, \A d \in Child : Heard(d)' => Heard(d),
           strayed \subseteq strayed',
           \A d \in Child : script'[d] \in {script[d], None},
           \/ m.by \in strayed' \cup {None} /\ m.kind # "done"
           \/ m.by = script[c] /\ m.by # None /\ (m.kind = "done" => script'[c] = None)
    PROVE  MessagesHaveOwners'
<1> DEFINE Mine(u, d) == stage[u] = "running" /\ on[u] = d
           After(q, k, S) == \A l \in k + 1 .. Len(q) : q[l].by = q[k].by =>
                                q[l].by \in S /\ q[l].kind # "done"
<1>1. SUFFICES ASSUME NEW d \in Child, Heard(d)
               PROVE  \A k \in 1 .. Len(out'[d]) :
                         /\ out'[d][k].by \in strayed' \cup {None} \/ Mine(out'[d][k].by, d)
                         /\ out'[d][k].kind = "done" =>
                               /\ Mine(out'[d][k].by, d) /\ script'[d] # out'[d][k].by
                               /\ After(out'[d], k, strayed')
  BY DEF MessagesHaveOwners, Has, OfStray
<1>2. out[d] \in Seq(Msg)
  BY DEF LendingInv, TypeOK
<1>3. \A k \in 1 .. Len(out[d]) : out[d][k].kind = "done" => out[d][k].by # None
  BY <1>2, ExecutorAssumption DEF Msg
<1>4. \A k \in 1 .. Len(out[d]) :
         /\ out[d][k].by \in strayed' \cup {None} \/ Mine(out[d][k].by, d)
         /\ out[d][k].kind = "done" => /\ Mine(out[d][k].by, d) /\ script[d] # out[d][k].by
                                      /\ After(out[d], k, strayed')
  BY <1>1 DEF MessagesHaveOwners, Has, OfStray
<1>5. script[d] # None => Mine(script[d], d)
  BY DEF ChildrenInOrder, Has
<1>6. script'[d] \in {script[d], None}
  OBVIOUS
<1>7. CASE d # c
  <2>1. out'[d] = out[d]
    BY <1>7 DEF LendingInv, TypeOK
  <2>2. \A k \in 1 .. Len(out[d]) : out[d][k].kind = "done" => script'[d] # out[d][k].by
    BY <1>3, <1>4, <1>6
  <2> HIDE DEF Mine, After
  <2> QED BY <1>4, <2>1, <2>2
<1>8. CASE d = c
  <2>1. /\ Len(out'[d]) = Len(out[d]) + 1 /\ Len(out[d]) \in Nat
        /\ \A k \in 1 .. Len(out[d]) : out'[d][k] = out[d][k]
        /\ out'[d][Len(out[d]) + 1] = m
    BY <1>2, <1>8, AppendAt DEF LendingInv, TypeOK
  <2>2. m.by \in strayed' \cup {None} \/ Mine(m.by, d)
    BY <1>5, <1>8
  <2>3. m.kind = "done" => Mine(m.by, d) /\ script'[d] # m.by
    BY <1>5, <1>8
  <2>4. ASSUME NEW k \in 1 .. Len(out[d]), out[d][k].kind = "done"
        PROVE  /\ script'[d] # out[d][k].by
               /\ m.by = out[d][k].by => m.by \in strayed' /\ m.kind # "done"
    <3>1. out[d][k].by # None /\ script[d] # out[d][k].by
      BY <1>3, <1>4, <2>4
    <3> QED BY <1>6, <1>8, <3>1
  <2> HIDE DEF Mine
  <2>5. ASSUME NEW k \in 1 .. Len(out[d])
        PROVE  /\ out'[d][k].by \in strayed' \cup {None} \/ Mine(out'[d][k].by, d)
               /\ out'[d][k].kind = "done" =>
                     /\ Mine(out'[d][k].by, d) /\ script'[d] # out'[d][k].by
                     /\ After(out'[d], k, strayed')
    BY <1>4, <2>1, <2>4
  <2>6. ASSUME NEW k \in 1 .. Len(out'[d]), k = Len(out[d]) + 1
        PROVE  After(out'[d], k, strayed')
    BY <2>1, <2>6
  <2>7. \A k \in 1 .. Len(out'[d]) : k \in 1 .. Len(out[d]) \/ k = Len(out[d]) + 1
    BY <2>1
  <2> HIDE DEF After
  <2> QED BY <2>1, <2>2, <2>3, <2>5, <2>6, <2>7
<1> QED BY <1>7, <1>8
(***************************************************************************)
(* Reading the oldest message of a child, or none, keeps the owners of     *)
(* what is unread where no run loses its child and no script is started.   *)
(***************************************************************************)
LEMMA TakingKeepsOwners ==
    ASSUME NEW c \in Child,
           LendingInv, MessagesHaveOwners,
           out' = out \/ (out[c] # <<>> /\ Take(c)),
           strayed \subseteq strayed',
           \A d \in Child : Heard(d)' =>
              /\ Heard(d) /\ script'[d] \in {script[d], None}
              /\ \A u \in Task : Has(u, d) => Has(u, d)'
    PROVE  MessagesHaveOwners'
<1> DEFINE After(q, k) == \A l \in k + 1 .. Len(q) : q[l].by = q[k].by =>
                             q[l].by \in strayed /\ q[l].kind # "done"
           Owned(q, d) == \A k \in 1 .. Len(q) :
                             /\ OfStray(q[k]) \/ Has(q[k].by, d)
                             /\ q[k].kind = "done" => /\ Has(q[k].by, d) /\ script[d] # q[k].by
                                                      /\ After(q, k)
<1>1. ASSUME NEW d \in Child, Heard(d)' PROVE Owned(out'[d], d)
  <2>1. Owned(out[d], d)
    BY <1>1 DEF MessagesHaveOwners
  <2>2. CASE out' = out \/ d # c
    BY <2>1, <2>2 DEF Take, LendingInv, TypeOK
  <2>3. CASE out' # out /\ d = c
    <3> DEFINE q == out[c]
    <3>1. /\ out'[d] = Tail(q) /\ Len(Tail(q)) = Len(q) - 1 /\ Len(q) \in Nat
          /\ \A k \in 1 .. Len(Tail(q)) : Tail(q)[k] = q[k + 1]
      BY <2>3, TailAt DEF Take, LendingInv, TypeOK
    <3>2. Owned(q, d)
      BY <2>1, <2>3
    <3> HIDE DEF q
    <3>3. ASSUME NEW k \in 1 .. Len(Tail(q))
          PROVE  /\ k + 1 \in 1 .. Len(q) /\ Tail(q)[k] = q[k + 1]
                 /\ After(q, k + 1) => After(Tail(q), k)
      BY <3>1
    <3> HIDE DEF After
    <3> QED BY <3>1, <3>2, <3>3
  <2> QED BY <2>2, <2>3
<1>2. out' \in [Child -> Seq(Msg)]
  BY TakeTypes DEF LendingInv, TypeOK
<1>3. ASSUME NEW d \in Child, Heard(d)', NEW k \in 1 .. Len(out'[d])
      PROVE  /\ out'[d][k].by \in strayed' \cup {None}
                \/ (stage'[out'[d][k].by] = "running" /\ on'[out'[d][k].by] = d)
             /\ out'[d][k].kind = "done" =>
                   /\ stage'[out'[d][k].by] = "running" /\ on'[out'[d][k].by] = d
                   /\ script'[d] # out'[d][k].by
                   /\ \A l \in k + 1 .. Len(out'[d]) : out'[d][l].by = out'[d][k].by =>
                         out'[d][l].by \in strayed' /\ out'[d][l].kind # "done"
  <2> DEFINE m == out'[d][k]
  <2>1. /\ OfStray(m) \/ Has(m.by, d)
        /\ m.kind = "done" => Has(m.by, d) /\ script[d] # m.by /\ After(out'[d], k)
    BY <1>1, <1>3
  <2>2. m.by \in Task \cup {None} /\ (m.kind = "done" => m.by \in Task)
    BY <1>2, <1>3 DEF Msg
  <2>3. After(out'[d], k) => \A l \in k + 1 .. Len(out'[d]) : out'[d][l].by = m.by =>
                                out'[d][l].by \in strayed' /\ out'[d][l].kind # "done"
    OBVIOUS
  <2> HIDE DEF m, After
  <2>4. script'[d] \in {script[d], None} /\ \A u \in Task : Has(u, d) => Has(u, d)'
    BY <1>3
  <2>5. Has(m.by, d) /\ m.by \in Task => stage'[m.by] = "running" /\ on'[m.by] = d
    BY <2>4 DEF Has
  <2>6. None \notin Task
    BY ExecutorAssumption
  <2>7. /\ m.by \in strayed' \cup {None} \/ (stage'[m.by] = "running" /\ on'[m.by] = d)
        /\ m.kind = "done" => /\ stage'[m.by] = "running" /\ on'[m.by] = d
                              /\ script'[d] # m.by /\ After(out'[d], k)
    BY <2>1, <2>2, <2>4, <2>5, <2>6 DEF OfStray
  <2> QED BY <2>3, <2>7 DEF m
<1> QED BY <1>3 DEF MessagesHaveOwners, Has, OfStray
(***************************************************************************)
(* A run hears its own code, and what strays have left behind; a run whose *)
(* message was not sent hears that of the others, but is settled.          *)
(***************************************************************************)
LEMMA HearsItsOwn ==
    ASSUME LendingInv, MessagesHaveOwners, NEW c \in Child, out[c] # <<>>, listens[c] # {}
    PROVE  /\ Next1(c) \in Msg /\ Next1(c) = out[c][1] /\ 1 \in 1 .. Len(out[c])
           /\ OfStray(Next1(c)) \/ Has(Next1(c).by, c)
           /\ \A t \in listens[c] \ unsent : Has(t, c) /\ Next1(c).by \in strayed \cup {None, t}
           /\ \A t \in listens[c] \cap unsent : outcome[t] # Unsettled
           /\ listens[c] \subseteq Task
<1>1. listens[c] \subseteq Task /\ out[c] \in Seq(Msg)
  BY DEF LendingInv, TypeOK
<1>2. Next1(c) \in Msg /\ Next1(c) = out[c][1] /\ 1 \in 1 .. Len(out[c])
  BY <1>1, TailAt, OutTypes DEF Next1
<1>3. OfStray(Next1(c)) \/ Has(Next1(c).by, c)
  BY <1>2 DEF MessagesHaveOwners, Heard
<1>4. \A t \in listens[c] \ unsent : Has(t, c)
  BY <1>1 DEF LendingInv, RunsAreUnderWay, Has
<1>5. \A u, t \in Task : Has(u, c) /\ Has(t, c) => u = t
  BY DEF LendingInv, LendingIsExclusive, Has
<1>6. \A t \in listens[c] \cap unsent : outcome[t] # Unsettled
  BY DEF LendingInv, RunsAreUnderWay
<1>7. Next1(c).by \in Task \cup {None}
  BY <1>2 DEF Msg
<1> QED BY <1>1, <1>2, <1>3, <1>4, <1>5, <1>6, <1>7 DEF OfStray

LEMMA InitIsolation == Init => IsolationInv
<1> SUFFICES ASSUME Init PROVE IsolationInv
  OBVIOUS
<1>1. MessagesHaveOwners /\ ChildrenInOrder
  BY DEF Init, MessagesHaveOwners, ChildrenInOrder
<1>2. OnlyStraysReachOthers
  BY DEF Init, OnlyStraysReachOthers, Unsettled
<1> QED BY <1>1, <1>2, InitLending DEF IsolationInv

LEMMA NextOthers == IsolationInv /\ [Next]_vars => OnlyStraysReachOthers'
<1> SUFFICES ASSUME IsolationInv, [Next]_vars PROVE OnlyStraysReachOthers'
  OBVIOUS
<1> USE DEF OnlyStraysReachOthers, Settle, Unsettled
<1>0. TypeOK /\ LendingInv /\ MessagesHaveOwners /\ OnlyStraysReachOthers
  BY DEF IsolationInv, LendingInv
<1>1. ASSUME NEW t \in Task, Call(t) \/ Timeout(t) PROVE OnlyStraysReachOthers'
  <2>1. CASE Call(t)
    BY <1>0, <2>1 DEF Call, childVars
  <2>2. CASE Timeout(t)
    BY <1>0, <2>2 DEF Timeout, End, TypeOK
  <2> QED BY <1>1, <2>1, <2>2
<1>2. ASSUME NEW t \in Task, NEW c \in Child,
             \/ Start(t, c) \/ StartFails(t, c)
             \/ ScriptCalls(c, t) \/ ScriptThrows(c, t) \/ ScriptEnds(c, t)
             \/ ScriptDetaches(c, t) \/ LeftoverCalls(c, t) \/ LeftoverFails(c, t)
      PROVE  OnlyStraysReachOthers'
  <2>1. CASE StartFails(t, c)
    BY <1>0, <2>1 DEF StartFails, childVars, TypeOK
  <2> QED BY <1>0, <1>2, <2>1 DEF Start, ScriptCalls, ScriptThrows, ScriptEnds, ScriptDetaches,
                    LeftoverCalls, LeftoverFails, runVars, childVars
<1>3. ASSUME NEW c \in Child, Fork(c) \/ Evict(c) \/ Forget(c) \/ Exits(c) \/ Drop(c)
      PROVE  OnlyStraysReachOthers'
  BY <1>0, <1>3 DEF Fork, Evict, Forget, Exits, Drop, runVars, childVars
<1>4. ASSUME NEW c \in Child, HandleCall(c)
      PROVE  OnlyStraysReachOthers'
  <2>1. /\ Next1(c).kind = "call" /\ Next1(c) \in Msg
        /\ \A t \in listens[c] \ unsent : Next1(c).by \in strayed \cup {None, t}
    BY <1>0, <1>4, HearsItsOwn DEF HandleCall, Hears
  <2>2. \A t \in listens[c] : Next1(c).by # t => Next1(c).by \in strayed \/ t \in unsent
    BY <2>1, ExecutorAssumption DEF Msg
  <2>3. \A h \in helpers' : h \in helpers \/ (h.by = Next1(c).by /\ h.ctx \in listens[c])
    BY <1>4 DEF HandleCall
  <2>4. UNCHANGED <<outcome, strayed, unsent>>
    BY <1>4 DEF HandleCall, childVars
  <2> QED BY <1>0, <2>2, <2>3, <2>4
<1>5. ASSUME NEW c \in Child, HandleThrow(c) \/ HandleDone(c) \/ HandleError(c)
      PROVE  OnlyStraysReachOthers'
  <2>1. /\ \A t \in listens[c] \ unsent : Next1(c).by \in strayed \cup {None, t}
        /\ \A t \in listens[c] \cap unsent : outcome[t] # Unsettled
    BY <1>0, <1>5, HearsItsOwn DEF HandleThrow, HandleDone, HandleError, Hears
  <2>2. UNCHANGED <<helpers, strayed, unsent>>
    BY <1>5 DEF HandleThrow, HandleDone, HandleError, childVars
  <2>3. \/ outcome' = outcome
        \/ \E how \in {"resolved", "rejected"} : Settle(listens[c], how, Next1(c).by)
    BY <1>5 DEF HandleThrow, HandleDone, HandleError, End
  <2>4. \A t \in Task :
           /\ t \notin listens[c] => outcome'[t] = outcome[t]
           /\ outcome[t] # Unsettled => outcome'[t] = outcome[t]
           /\ outcome'[t] = outcome[t] \/ outcome'[t].by = Next1(c).by
    <3>1. CASE outcome' = outcome
      BY <3>1
    <3>2. CASE \E how \in {"resolved", "rejected"} : Settle(listens[c], how, Next1(c).by)
      BY <3>2
    <3> QED BY <2>3, <3>1, <3>2
  <2>5. ASSUME NEW t \in Task, outcome'[t].by \notin {t, None}
        PROVE  outcome'[t].by \in strayed
    <3>1. CASE outcome'[t] = outcome[t]
      BY <1>0, <2>5, <3>1
    <3>2. CASE outcome'[t] # outcome[t]
      <4>1. t \in listens[c] /\ outcome[t] = Unsettled /\ outcome'[t].by = Next1(c).by
        BY <2>4, <3>2
      <4>2. Next1(c).by \in strayed \cup {None, t}
        BY <2>1, <4>1
      <4> QED BY <2>5, <4>1, <4>2
    <3> QED BY <3>1, <3>2
  <2> QED BY <1>0, <2>2, <2>5
<1>6. ASSUME NEW h \in helpers, HelperReturns(h) PROVE OnlyStraysReachOthers'
  <2>1. UNCHANGED <<outcome, strayed, unsent>> /\ helpers \subseteq Helper
    BY <1>0, <1>6 DEF HelperReturns, runVars, TypeOK
  <2>2. \A g \in helpers : [g EXCEPT !.first = FALSE].by = g.by /\ [g EXCEPT !.first = FALSE].ctx = g.ctx
    BY <2>1 DEF Helper
  <2> DEFINE c == h.child
             woken == h.first /\ alive[c] /\ ~known[c] /\ script[c] = h.by /\ waits[c] = "call"
  <2>3. helpers' = {IF woken /\ g.child = c /\ g.by = h.by
                    THEN [g EXCEPT !.first = FALSE] ELSE g : g \in helpers \ {h}}
    BY <1>6 DEF HelperReturns
  <2> HIDE DEF woken
  <2>4. \A x \in helpers' : \E g \in helpers : x.by = g.by /\ x.ctx = g.ctx
    BY <2>2, <2>3
  <2> QED BY <1>0, <2>1, <2>4
<1>7. CASE UNCHANGED vars
  BY <1>0, <1>7 DEF vars
<1> QED BY <1>1, <1>2, <1>3, <1>4, <1>5, <1>6, <1>7 DEF Next, Parent
(***************************************************************************)
(* A "done" that is heard is of the run that has the child, whose code has *)
(* ended; nothing of this run is left to be heard but strays.              *)
(***************************************************************************)
LEMMA DoneEndsTheScript ==
    ASSUME LendingInv, MessagesHaveOwners, ChildrenInOrder,
           NEW c \in Child, Hears(c, "done")
    PROVE  /\ script[c] = None
           /\ \A k \in 2 .. Len(out[c]) : OfStray(out[c][k]) /\ out[c][k].kind # "done"
<1>1. Next1(c) = out[c][1] /\ 1 \in 1 .. Len(out[c]) /\ Next1(c) \in Msg /\ Heard(c)
  BY HearsItsOwn DEF Hears, Heard
<1>2. Next1(c).kind = "done"
  BY DEF Hears
<1>3. Next1(c).by \in Task
  BY <1>1, <1>2 DEF Msg
<1>4. out[c] \in Seq(Msg) /\ script[c] \in Task \cup {None}
  BY DEF LendingInv, TypeOK
<1>5. /\ Has(Next1(c).by, c) /\ script[c] # Next1(c).by
      /\ \A l \in 2 .. Len(out[c]) : out[c][l].by = Next1(c).by =>
            out[c][l].by \in strayed /\ out[c][l].kind # "done"
  BY <1>1, <1>2 DEF MessagesHaveOwners
<1>6. \A u \in Task : Has(u, c) => u = Next1(c).by
  BY <1>3, <1>5 DEF LendingInv, LendingIsExclusive, Has
<1>7. script[c] = None
  BY <1>4, <1>5, <1>6 DEF ChildrenInOrder
<1>8. ASSUME NEW k \in 2 .. Len(out[c]) PROVE OfStray(out[c][k]) /\ out[c][k].kind # "done"
  <2>1. k \in 1 .. Len(out[c]) /\ out[c][k] \in Msg
    BY <1>4
  <2>2. out[c][k].by \in Task \cup {None} /\ (out[c][k].kind = "done" => out[c][k].by \in Task)
    BY <2>1 DEF Msg
  <2>3. /\ OfStray(out[c][k]) \/ Has(out[c][k].by, c)
        /\ out[c][k].kind = "done" => Has(out[c][k].by, c)
    BY <1>1, <2>1 DEF MessagesHaveOwners
  <2> QED BY <1>5, <1>6, <2>2, <2>3 DEF OfStray
<1> QED BY <1>7, <1>8

LEMMA NextChildren == IsolationInv /\ [Next]_vars => ChildrenInOrder'
<1> SUFFICES ASSUME IsolationInv, [Next]_vars PROVE ChildrenInOrder'
  OBVIOUS
<1>0. LendingInv /\ MessagesHaveOwners /\ ChildrenInOrder
  BY DEF IsolationInv
<1> USE <1>0, ExecutorAssumption DEF LendingInv, TypeOK, ChildrenInOrder, Has
<1>1. ASSUME NEW t \in Task, Call(t) PROVE ChildrenInOrder'
  BY <1>1 DEF Call, poolVars, childVars
<1>2. ASSUME NEW t \in Task, Timeout(t) PROVE ChildrenInOrder'
  BY <1>2 DEF Timeout, End, Destroy, ProcessEnds
<1>3. ASSUME NEW t \in Task, NEW c \in Child, Start(t, c) \/ StartFails(t, c)
      PROVE  ChildrenInOrder'
  BY <1>3 DEF Start, StartFails, Acquire, childVars
<1>4. ASSUME NEW t \in Task, NEW c \in Child, ScriptCalls(c, t) \/ ScriptThrows(c, t)
      PROVE  ChildrenInOrder'
  BY <1>4 DEF ScriptCalls, ScriptThrows, Runs, Send, runVars, poolVars
<1>5. ASSUME NEW t \in Task, NEW c \in Child, ScriptEnds(c, t) PROVE ChildrenInOrder'
  BY <1>5 DEF ScriptEnds, Runs, Send, runVars, poolVars
<1>6. ASSUME NEW t \in Task, NEW c \in Child, ScriptDetaches(c, t) PROVE ChildrenInOrder'
  BY <1>6 DEF ScriptDetaches, Runs, Send, runVars, poolVars
<1>7. ASSUME NEW t \in Task, NEW c \in Child, LeftoverCalls(c, t) PROVE ChildrenInOrder'
  BY <1>7 DEF LeftoverCalls, Send, runVars, poolVars, childVars
<1>8. ASSUME NEW t \in Task, NEW c \in Child, LeftoverFails(c, t) PROVE ChildrenInOrder'
  BY <1>8 DEF LeftoverFails, Send, runVars, poolVars
<1>9. ASSUME NEW c \in Child, Fork(c) PROVE ChildrenInOrder'
  BY <1>9 DEF Fork, runVars
<1>10. ASSUME NEW c \in Child, Evict(c) PROVE ChildrenInOrder'
  BY <1>10 DEF Evict, ProcessEnds, runVars
<1>11. ASSUME NEW c \in Child, Forget(c), server = "up" PROVE ChildrenInOrder'
  <2>1. \A u \in Task : Has(u, c) => FALSE
    BY <1>11 DEF Forget, LendingIsExclusive
  <2> QED BY <1>11, <2>1 DEF Forget, childVars
<1>12. ASSUME NEW c \in Child, Exits(c) PROVE ChildrenInOrder'
  BY <1>12 DEF Exits, ProcessEnds, runVars, poolVars
<1>13. ASSUME NEW c \in Child, Drop(c) PROVE ChildrenInOrder'
  BY <1>13 DEF Drop, Take, runVars, childVars
<1>14. ASSUME NEW c \in Child, HandleCall(c) PROVE ChildrenInOrder'
  BY <1>14 DEF HandleCall, Hears, Take, poolVars, childVars
<1>15. ASSUME NEW c \in Child, HandleThrow(c) PROVE ChildrenInOrder'
  BY <1>15 DEF HandleThrow, Hears, Take, poolVars
<1>16. ASSUME NEW c \in Child, HandleDone(c) PROVE ChildrenInOrder'
  <2>1. script[c] = None
    BY <1>16, DoneEndsTheScript DEF HandleDone
  <2>2. \A d \in Child \ {c} : \A u \in listens[c] : ~Has(u, d)
    BY DEF RunsAreUnderWay
  <2>3. \A u \in Task \ listens[c] : stage'[u] = stage[u]
    BY <1>16 DEF HandleDone, End
  <2> QED BY <1>16, <2>1, <2>2, <2>3 DEF HandleDone, Hears, Take, childVars
<1>17. ASSUME NEW c \in Child, HandleError(c), server = "up" PROVE ChildrenInOrder'
  <2>1. listens[c] # {} /\ out[c] # <<>>
    BY <1>17 DEF HandleError, Hears
  <2>2. \A d \in Child \ {c} : \A u \in listens[c] : ~Has(u, d)
    BY DEF RunsAreUnderWay
  <2>3. \A u \in Task \ listens[c] : stage'[u] = stage[u]
    BY <1>17 DEF HandleError, End
  <2>4. pool[c] # "lent" => script[c] = None
    BY <1>17 DEF RunsAreUnderWay
  <2>5. CASE pool[c] = "lent"
    BY <1>17, <2>1, <2>2, <2>3, <2>5 DEF HandleError, Hears, Take, Destroy, ProcessEnds
  <2>6. CASE pool[c] # "lent"
    <3>1. UNCHANGED <<pool, alive, script, left, dying, on, strayed>>
      BY <1>17, <2>6 DEF HandleError, Destroy
    <3>2. \A d \in Child \ {c} : out'[d] = out[d]
      BY <1>17 DEF HandleError, Hears, Take
    <3>3. pool[c] # "absent"
      BY <2>1
    <3>4. script[c] = None
      BY <2>4, <2>6
    <3>5. ASSUME NEW d \in Child \ {c}, script[d] # None
          PROVE  stage'[script[d]] = "running" /\ on[script[d]] = d
      <4>1. script[d] \in Task /\ Has(script[d], d)
        BY <3>5
      <4>2. script[d] \notin listens[c]
        BY <2>2, <4>1
      <4> QED BY <2>3, <4>1, <4>2
    <3> QED BY <3>1, <3>2, <3>3, <3>4, <3>5
  <2> QED BY <2>5, <2>6
<1>18. ASSUME NEW h \in helpers, HelperReturns(h) PROVE ChildrenInOrder'
  BY <1>18 DEF HelperReturns, runVars, poolVars
<1>19. CASE UNCHANGED vars
  BY <1>19 DEF vars
<1> QED BY <1>1, <1>2, <1>3, <1>4, <1>5, <1>6, <1>7, <1>8, <1>9, <1>10, <1>11, <1>12,
           <1>13, <1>14, <1>15, <1>16, <1>17, <1>18, <1>19 DEF Next, Parent
LEMMA NextOwners == IsolationInv /\ [Next]_vars => MessagesHaveOwners'
<1> SUFFICES ASSUME IsolationInv, [Next]_vars PROVE MessagesHaveOwners'
  OBVIOUS
<1>0. LendingInv /\ MessagesHaveOwners /\ ChildrenInOrder /\ TypeOK
  BY DEF IsolationInv, LendingInv
<1> USE <1>0
\* Where nothing is sent and no run starts or is done.
<1>1. ASSUME NEW t \in Task, Call(t) PROVE MessagesHaveOwners'
  <2>1. UNCHANGED <<out, strayed, pool, listens, script>>
    BY <1>1 DEF Call, poolVars, childVars
  <2>2. \A u \in Task, d \in Child : (Has(u, d) => Has(u, d)') /\ (Heard(d)' => Heard(d))
    BY <1>1, <2>1 DEF Call, Has, Heard, TypeOK
  <2>3. CASE Child = {}
    BY <2>3 DEF MessagesHaveOwners
  <2>4. CASE Child # {}
    BY <2>1, <2>2, <2>4, TakingKeepsOwners
  <2> QED BY <2>3, <2>4
<1>2. ASSUME NEW t \in Task, Timeout(t), server = "up" PROVE MessagesHaveOwners'
  <2>1. on[t] \in Child /\ (stage[t] = "running" => pool[on[t]] \in {"lent", "gone"})
    BY <1>2 DEF Timeout, LendingInv, RunsAreUnderWay, TypeOK
  <2>2. out' = out /\ strayed' = strayed
    BY <1>2 DEF Timeout
  <2>3. \A d \in Child : Heard(d)' =>
           /\ Heard(d) /\ script'[d] \in {script[d], None}
           /\ \A u \in Task : Has(u, d) => Has(u, d)'
    BY <1>2, <2>1 DEF Timeout, Finish, End, Destroy, ProcessEnds, Has, Heard, TypeOK
  <2> QED BY <2>1, <2>2, <2>3, TakingKeepsOwners
<1>3. ASSUME NEW c \in Child, HandleCall(c) PROVE MessagesHaveOwners'
  <2>1. /\ out[c] # <<>> /\ Take(c) /\ strayed' = strayed /\ pool' = pool /\ script' = script
        /\ on' = on /\ listens' = listens
    BY <1>3 DEF HandleCall, Hears, poolVars, childVars
  <2>2. \A u \in Task, d \in Child : Has(u, d) => Has(u, d)'
    <3>1. \A s \in Task : stage'[s] = stage[s] \/ (stage[s] = "idle" /\ stage'[s] = "queued")
      BY <1>3, ExecutorAssumption DEF HandleCall
    <3> QED BY <2>1, <3>1 DEF Has
  <2> QED BY <2>1, <2>2, TakingKeepsOwners DEF Heard
<1>4. ASSUME NEW c \in Child, HandleThrow(c) PROVE MessagesHaveOwners'
  <2>1. /\ out[c] # <<>> /\ Take(c) /\ strayed' = strayed /\ pool' = pool /\ script' = script
        /\ stage' = stage /\ on' = on /\ listens' = listens
    BY <1>4 DEF HandleThrow, Hears, poolVars
  <2> QED BY <2>1, TakingKeepsOwners DEF Has, Heard
<1>5. ASSUME NEW c \in Child, HandleError(c), server = "up" PROVE MessagesHaveOwners'
  <2>1. out[c] # <<>> /\ Take(c) /\ listens[c] # {} /\ strayed' = strayed /\ on' = on
    BY <1>5 DEF HandleError, Hears
  <2>2. /\ \A u \in Task \ listens[c] : stage'[u] = stage[u]
        /\ \A u \in listens[c] : on[u] = c
        /\ \A u \in Task : Has(u, c) => pool[c] \in {"lent", "gone"}
    BY <1>5 DEF HandleError, End, Has, TypeOK, LendingInv, RunsAreUnderWay
  <2>3. /\ listens'[c] = {} /\ (pool[c] \in {"lent", "gone"} => pool'[c] = "gone")
        /\ pool[c] \notin {"lent", "gone"} => pool'[c] # "gone"
        /\ \A d \in Child \ {c} : pool'[d] = pool[d] /\ listens'[d] = listens[d]
        /\ \A d \in Child : script'[d] \in {script[d], None}
    BY <1>5 DEF HandleError, Finish, Destroy, ProcessEnds, TypeOK
  <2>4. \A d \in Child : Heard(d)' =>
           /\ Heard(d) /\ script'[d] \in {script[d], None}
           /\ \A u \in Task : Has(u, d) => Has(u, d)'
    BY <2>1, <2>2, <2>3 DEF Has, Heard
  <2> QED BY <2>1, <2>4, TakingKeepsOwners
<1>6. ASSUME NEW c \in Child, Drop(c) PROVE MessagesHaveOwners'
  <2>1. /\ out[c] # <<>> /\ Take(c) /\ strayed' = strayed /\ pool' = pool /\ script' = script
        /\ stage' = stage /\ on' = on /\ listens' = listens
    BY <1>6 DEF Drop, runVars, childVars
  <2> QED BY <2>1, TakingKeepsOwners DEF Has, Heard
<1>7. ASSUME NEW c \in Child, Evict(c) PROVE MessagesHaveOwners'
  <2>1. strayed' = strayed /\ stage' = stage /\ on' = on
    BY <1>7 DEF Evict, runVars
  <2>2. \A d \in Child : (Heard(d)' => Heard(d)) /\ script'[d] \in {script[d], None}
    BY <1>7 DEF Evict, ProcessEnds, TypeOK, Heard
  <2>3. CASE out' = out
    BY <2>1, <2>2, <2>3, TakingKeepsOwners DEF Has
  <2>4. CASE out' = [out EXCEPT ![c] = Append(@, [kind |-> "exit", by |-> None])]
    <3> DEFINE m == [kind |-> "exit", by |-> None]
    <3>1. m \in Msg /\ m.kind # "done" /\ m.by \in strayed \cup {None}
      BY DEF Msg
    <3>2. out' = [out EXCEPT ![c] = Append(@, m)]
      BY <2>4
    <3> HIDE DEF m
    <3> QED BY <2>1, <2>2, <3>1, <3>2, SendingKeepsOwners
  <2> QED BY <1>7, <2>3, <2>4 DEF Evict
\* Where something is sent.
<1>8. ASSUME NEW t \in Task, NEW c \in Child, NEW k \in {"call", "throw", "error"},
             Send(c, k, t), Runs(c, t) \/ t \in left[c] \/ t \in strayed',
             stage' = stage, on' = on, pool' = pool, listens' = listens,
             strayed \subseteq strayed',
             \A d \in Child : script'[d] \in {script[d], None}
      PROVE  MessagesHaveOwners'
  <2> DEFINE m == [kind |-> k, by |-> t]
  <2>1. m \in Msg /\ m.by = t /\ m.kind # "done" /\ t # None
    BY ExecutorAssumption DEF Msg
  <2>2. out' = [out EXCEPT ![c] = Append(@, m)]
    BY <1>8 DEF Send
  <2>3. m.by \in strayed' \cup {None} \/ m.by = script[c]
    BY <1>8 DEF Runs, ChildrenInOrder
  <2> HIDE DEF m
  <2>4. \A d \in Child : Heard(d)' => Heard(d)
    BY <1>8 DEF Heard
  <2> QED BY <1>8, <2>1, <2>2, <2>3, <2>4, SendingKeepsOwners
<1>9. ASSUME NEW t \in Task, NEW c \in Child, ScriptEnds(c, t) PROVE MessagesHaveOwners'
  <2>1. /\ stage' = stage /\ on' = on /\ pool' = pool /\ strayed' = strayed /\ script[c] = t
        /\ script'[c] = None /\ \A d \in Child : script'[d] \in {script[d], None}
        /\ \A d \in Child : Heard(d)' => Heard(d)
    BY <1>9 DEF ScriptEnds, Runs, runVars, poolVars, TypeOK, Heard
  <2>2. PICK k \in {"done", "error"} : Send(c, k, t)
    BY <1>9 DEF ScriptEnds
  <2> DEFINE m == [kind |-> k, by |-> t]
  <2>3. m \in Msg /\ m.by = t /\ t # None
    BY ExecutorAssumption DEF Msg
  <2>4. out' = [out EXCEPT ![c] = Append(@, m)]
    BY <2>2 DEF Send
  <2> HIDE DEF m
  <2> QED BY <2>1, <2>3, <2>4, SendingKeepsOwners
<1>10. ASSUME NEW c \in Child, Exits(c) PROVE MessagesHaveOwners'
  <2>1. /\ stage' = stage /\ on' = on /\ pool' = pool /\ strayed' = strayed
        /\ \A d \in Child : script'[d] \in {script[d], None} /\ (Heard(d)' => Heard(d))
    BY <1>10 DEF Exits, ProcessEnds, runVars, poolVars, TypeOK, Heard
  <2> DEFINE m == [kind |-> "exit", by |-> dying[c]]
  <2>2. m \in Msg /\ m.kind # "done" /\ m.by \in strayed \cup {None}
    BY DEF Msg, TypeOK, ChildrenInOrder
  <2>3. out' = [out EXCEPT ![c] = Append(@, m)]
    BY <1>10 DEF Exits
  <2> HIDE DEF m
  <2> QED BY <2>1, <2>2, <2>3, SendingKeepsOwners
\* A child that is new, or that its id is given back, has sent nothing.
<1>11. ASSUME NEW c \in Child, Fork(c) \/ Forget(c) PROVE MessagesHaveOwners'
  <2>1. /\ out[c] = <<>> /\ out' = out /\ strayed' = strayed /\ stage' = stage
        /\ \A u \in Task : on[u] # c => on'[u] = on[u]
        /\ script' = script /\ \A d \in Child \ {c} : pool'[d] = pool[d] /\ listens'[d] = listens[d]
    BY <1>11 DEF Fork, Forget, runVars, childVars, ChildrenInOrder, TypeOK
  <2>2. Len(out[c]) = 0
    BY <2>1
  <2>3. \A d \in Child \ {c} : /\ Heard(d)' => Heard(d)
                               /\ \A u \in Task : Has(u, d) => stage'[u] = "running" /\ on'[u] = d
    BY <2>1 DEF Heard, Has
  <2>4. ASSUME NEW d \in Child \ {c}, Heard(d), NEW k \in 1 .. Len(out[d])
        PROVE  /\ OfStray(out[d][k]) \/ (stage'[out[d][k].by] = "running" /\ on'[out[d][k].by] = d)
               /\ out[d][k].kind = "done" =>
                     /\ stage'[out[d][k].by] = "running" /\ on'[out[d][k].by] = d
                     /\ script[d] # out[d][k].by
                     /\ \A l \in k + 1 .. Len(out[d]) : out[d][l].by = out[d][k].by =>
                           out[d][l].by \in strayed /\ out[d][l].kind # "done"
    <3>1. out[d][k] \in Msg
      BY DEF TypeOK
    <3>2. out[d][k].by \in Task \cup {None} /\ (out[d][k].kind = "done" => out[d][k].by \in Task)
      BY <3>1 DEF Msg
    <3>3. /\ OfStray(out[d][k]) \/ Has(out[d][k].by, d)
          /\ out[d][k].kind = "done" =>
                /\ Has(out[d][k].by, d) /\ script[d] # out[d][k].by
                /\ \A l \in k + 1 .. Len(out[d]) : out[d][l].by = out[d][k].by =>
                      out[d][l].by \in strayed /\ out[d][l].kind # "done"
      BY <2>4 DEF MessagesHaveOwners
    <3> QED BY <2>3, <3>2, <3>3 DEF OfStray
  <2> QED BY <2>1, <2>2, <2>3, <2>4 DEF MessagesHaveOwners, Has, OfStray
\* A child that is lent has strays' messages only, and is left with no others.
<1>12. ASSUME NEW t \in Task, NEW c \in Child, Start(t, c), server = "up"
       PROVE  MessagesHaveOwners'
  <2>1. /\ out' = out /\ strayed' = strayed /\ pool[c] = "idle" /\ stage[t] = "queued" /\ Heard(c)
        /\ \A d \in Child \ {c} : /\ pool'[d] = pool[d] /\ script'[d] = script[d]
                                 /\ listens'[d] = listens[d]
    BY <1>12 DEF Start, Acquire, TypeOK, Heard
  <2>2. \A u \in Task : ~Has(u, c)
    BY <1>12, <2>1 DEF LendingInv, RunsAreUnderWay, Has
  <2>3. \A u \in Task, d \in Child : Has(u, d) => Has(u, d)'
    BY <1>12, <2>1 DEF Start, Acquire, Has, TypeOK
  <2>4. \A d \in Child : \A k \in 1 .. Len(out[d]) :
           /\ out[d][k].by \in Task \cup {None}
           /\ out[d][k].kind = "done" => out[d][k].by \in Task
    <3>1. \A d \in Child : \A k \in 1 .. Len(out[d]) : out[d][k] \in Msg
      BY DEF TypeOK
    <3> QED BY <3>1 DEF Msg
  <2>5. \A k \in 1 .. Len(out[c]) : OfStray(out[c][k]) /\ out[c][k].kind # "done"
    BY <2>1, <2>2, <2>4 DEF MessagesHaveOwners, OfStray
  <2>6. ASSUME NEW d \in Child, d # c, Heard(d), NEW k \in 1 .. Len(out[d])
        PROVE  /\ OfStray(out[d][k]) \/ (stage'[out[d][k].by] = "running" /\ on'[out[d][k].by] = d)
               /\ out[d][k].kind = "done" =>
                     (stage'[out[d][k].by] = "running" /\ on'[out[d][k].by] = d)
    <3>1. OfStray(out[d][k]) \/ Has(out[d][k].by, d)
      BY <2>6 DEF MessagesHaveOwners
    <3>2. out[d][k].kind = "done" => Has(out[d][k].by, d)
      BY <2>6 DEF MessagesHaveOwners
    <3> QED BY <2>3, <2>4, <3>1, <3>2 DEF Has, OfStray
  <2>7. ASSUME NEW d \in Child, d # c, Heard(d), NEW k \in 1 .. Len(out[d]),
               out[d][k].kind = "done"
        PROVE  /\ script'[d] # out[d][k].by
               /\ \A l \in k + 1 .. Len(out[d]) : out[d][l].by = out[d][k].by =>
                     out[d][l].by \in strayed /\ out[d][l].kind # "done"
    BY <2>1, <2>7 DEF MessagesHaveOwners
  <2>8. \A d \in Child : d # c /\ Heard(d)' => Heard(d)
    BY <2>1 DEF Heard
  <2> QED BY <2>1, <2>5, <2>6, <2>7, <2>8 DEF MessagesHaveOwners, Has, OfStray
<1>12a. ASSUME NEW t \in Task, NEW c \in Child, StartFails(t, c) PROVE MessagesHaveOwners'
  <2>1. out' = out /\ strayed' = strayed /\ script' = script /\ pool' = pool /\ stage[t] = "queued"
    BY <1>12a DEF StartFails, Acquire, childVars
  <2>2. \A u \in Task, d \in Child : Has(u, d) => Has(u, d)'
    BY <1>12a, <2>1 DEF StartFails, Acquire, Has, TypeOK
  <2>3. \A d \in Child : Heard(d)' => Heard(d)
    BY <1>12a, <2>1 DEF StartFails, Acquire, Heard, TypeOK
  <2> QED BY <2>1, <2>2, <2>3, TakingKeepsOwners
<1>13. ASSUME NEW c \in Child, HandleDone(c) PROVE MessagesHaveOwners'
  <2>1. /\ script[c] = None /\ \A u \in listens[c] : on[u] = c
        /\ \A k \in 2 .. Len(out[c]) : OfStray(out[c][k]) /\ out[c][k].kind # "done"
    BY <1>13, DoneEndsTheScript DEF HandleDone, LendingInv, RunsAreUnderWay
  <2>2. /\ out[c] # <<>> /\ Take(c) /\ strayed' = strayed /\ script' = script /\ on' = on
        /\ \A d \in Child \ {c} : pool'[d] = pool[d] /\ out'[d] = out[d] /\ listens'[d] = listens[d]
        /\ Heard(c)
    BY <1>13 DEF HandleDone, Hears, Take, Finish, childVars, TypeOK, Heard
  <2>3. \A u \in Task \ listens[c] : stage'[u] = stage[u]
    BY <1>13 DEF HandleDone, End
  <2>4. \A k \in 1 .. Len(out'[c]) : OfStray(out'[c][k]) /\ out'[c][k].kind # "done"
    <3>1. /\ out'[c] = Tail(out[c]) /\ Len(Tail(out[c])) = Len(out[c]) - 1 /\ Len(out[c]) \in Nat
          /\ \A k \in 1 .. Len(Tail(out[c])) : Tail(out[c])[k] = out[c][k + 1]
      BY <2>2, TailAt DEF Take, TypeOK
    <3>2. \A k \in 1 .. Len(Tail(out[c])) : k + 1 \in 2 .. Len(out[c])
      BY <3>1
    <3> QED BY <2>1, <3>1, <3>2
  <2>5. ASSUME NEW d \in Child, d # c, NEW u \in Task, Has(u, d) PROVE stage'[u] = "running" /\ on'[u] = d
    BY <2>1, <2>2, <2>3, <2>5 DEF Has, TypeOK
  <2>6. ASSUME NEW d \in Child, d # c, Heard(d), NEW k \in 1 .. Len(out[d])
        PROVE  /\ OfStray(out[d][k]) \/ Has(out[d][k].by, d)
               /\ out[d][k].kind = "done" =>
                     /\ Has(out[d][k].by, d) /\ script[d] # out[d][k].by
                     /\ \A l \in k + 1 .. Len(out[d]) : out[d][l].by = out[d][k].by =>
                           out[d][l].by \in strayed /\ out[d][l].kind # "done"
    BY <2>6 DEF MessagesHaveOwners
  <2>7. ASSUME NEW d \in Child, d # c, Heard(d), NEW k \in 1 .. Len(out[d])
        PROVE  /\ OfStray(out[d][k]) \/ (stage'[out[d][k].by] = "running" /\ on'[out[d][k].by] = d)
               /\ out[d][k].kind = "done" =>
                     (stage'[out[d][k].by] = "running" /\ on'[out[d][k].by] = d)
    <3>1. out[d][k] \in Msg
      BY DEF TypeOK
    <3>2. out[d][k].by \in Task \cup {None} /\ (out[d][k].kind = "done" => out[d][k].by \in Task)
      BY <3>1 DEF Msg
    <3> QED BY <2>5, <2>6, <2>7, <3>2 DEF OfStray
  <2>8. \A d \in Child : d # c /\ Heard(d)' => Heard(d)
    BY <2>2 DEF Heard
  <2> QED BY <2>2, <2>4, <2>6, <2>7, <2>8 DEF MessagesHaveOwners, Has, OfStray
<1>14. ASSUME NEW h \in helpers, HelperReturns(h) PROVE MessagesHaveOwners'
  BY <1>14 DEF HelperReturns, runVars, poolVars, MessagesHaveOwners, Has, OfStray, Heard
<1>15. CASE UNCHANGED vars
  BY <1>15 DEF vars, MessagesHaveOwners, Has, OfStray, Heard
<1>16. ASSUME NEW t \in Task, NEW c \in Child,
              \/ ScriptCalls(c, t) \/ ScriptThrows(c, t) \/ ScriptDetaches(c, t)
              \/ LeftoverCalls(c, t) \/ LeftoverFails(c, t)
       PROVE  MessagesHaveOwners'
  <2>1. /\ stage' = stage /\ on' = on /\ pool' = pool /\ script' = script
        /\ listens' = listens /\ strayed \subseteq strayed'
    BY <1>16 DEF ScriptCalls, ScriptThrows, ScriptDetaches, LeftoverCalls, LeftoverFails,
                 runVars, poolVars, childVars
  <2>2. Runs(c, t) \/ t \in left[c]
    BY <1>16 DEF ScriptCalls, ScriptThrows, ScriptDetaches, LeftoverCalls, LeftoverFails
  <2>3. \E k \in {"call", "throw", "error"} : Send(c, k, t)
    BY <1>16 DEF ScriptCalls, ScriptThrows, ScriptDetaches, LeftoverCalls, LeftoverFails
  <2> QED BY <1>8, <2>1, <2>2, <2>3
<1> QED BY <1>1, <1>2, <1>3, <1>4, <1>5, <1>6, <1>7, <1>9, <1>10, <1>11, <1>12, <1>12a,
           <1>13, <1>14, <1>15, <1>16 DEF Next, Parent

(***************************************************************************)
(* What settles a run comes from its own code, from the server, or from    *)
(* code that had left calls behind which nobody awaits; and only such code *)
(* has calls made with the context of another run, except with that of a   *)
(* run whose message could not be sent: for every pool, under crashes,     *)
(* timeouts and the re-use of children.                                    *)
(***************************************************************************)
THEOREM Isolation == Spec => []OnlyStraysReachOthers
<1>1. IsolationInv /\ [Next]_vars => IsolationInv'
  BY NextLending, NextOwners, NextChildren, NextOthers DEF IsolationInv
<1>2. IsolationInv => OnlyStraysReachOthers
  BY DEF IsolationInv
<1> QED BY <1>1, <1>2, InitIsolation, PTL DEF Spec

-----------------------------------------------------------------------------
\* Writing a record with its relations: CascadeWrites.

(***************************************************************************)
(* No two requests share a process, a record or a child; what each has     *)
(* done so far is what its place says, and nobody takes it back.           *)
(***************************************************************************)
Place == {"idle", "statement", "untag", "tag", "select", "free", "put", "create", "link", "finish"}
Context == [rec : Nat, body : Body, there : BOOLEAN]
Write == [at : Place, on : Server \cup {NoServer}, new : BOOLEAN, rec : Nat, body : Body,
          see : Context, target : Nat, old : SUBSET Nat, todo : SUBSET Nat, made : SUBSET Nat]

Children == 1 .. Cardinality(DOMAIN parent)
Kids(r) == {k \in DOMAIN parent : parent[k] = r}
TagsOf(r) == {p \in tagged : p[1] = r}

Typed ==
    /\ records \subseteq Nat /\ lastRecord \in Nat /\ tagged \subseteq Nat \X Tags
    /\ IsFiniteSet(DOMAIN parent) /\ DOMAIN parent = Children /\ parent \in [Children -> Nat]
    /\ FirstKids \subseteq Children
    /\ context \in [Server -> Context] /\ write \in [Writes -> Write]
    /\ \A w \in Writes : write[w].at # "idle" => write[w].on \in Server
    /\ shared \in BOOLEAN /\ contended \in BOOLEAN

\* Before its statement a request finds its own relations in the map.
Prepared(f) ==
    /\ f.on \in Server /\ f.made = {}
    /\ context[f.on].rec = f.rec /\ context[f.on].body = f.body /\ context[f.on].there
    /\ IF f.new THEN f.rec = 0 ELSE f.rec \in records

\* From then on it works for its own record, or for none that is known.
Cascading(f) ==
    /\ f.rec \in records /\ f.see.body = f.body
    /\ f.target = f.rec \/ (f.target = 0 /\ f.at \notin {"tag", "free", "put"})

Relating(f) ==
    /\ f.at = "tag" => TagsOf(f.rec) = {}
    /\ f.at \in {"select", "free", "put", "create", "link", "finish"} /\ f.body.tags # {} =>
         {p[2] : p \in TagsOf(f.rec)} = f.body.tags
    /\ f.at \in {"untag", "tag", "select", "free"} => f.made = {}
    /\ f.at = "free" => Kids(f.rec) \subseteq f.old \cup f.body.kids /\ f.todo = f.body.kids
                        /\ f.old \subseteq Kids(f.rec)
    /\ f.at = "put" => /\ Kids(f.rec) \subseteq f.body.kids \cup f.made
                       /\ f.body.kids \ f.todo \subseteq Kids(f.rec) /\ f.made \subseteq Kids(f.rec)
                       /\ f.todo \subseteq f.body.kids
    /\ f.at \in {"create", "link", "finish"} /\ (f.body.kids # {} \/ f.body.born) =>
         Kids(f.rec) = f.body.kids \cup f.made /\ (f.body.born => f.made # {})
    /\ f.at = "finish" /\ f.body.one => f.rec \in partnered

InOrder(f) ==
    /\ f.rec <= lastRecord /\ f.body \in Bodies
    /\ IF f.at = "statement" THEN Prepared(f) ELSE Cascading(f) /\ Relating(f)

Apart == \A v, w \in Busy : v # w =>
            \E f \in {write[v]}, g \in {write[w]} : f.on # g.on /\ ~Contend(f, g)

Peaceful ==
    ~shared /\ ~contended =>
      /\ records \subseteq 1 .. lastRecord /\ \A k \in Children : parent[k] <= lastRecord
      /\ Apart /\ \A w \in Busy : \E f \in {write[w]} : InOrder(f)

WritesInv == Typed /\ Peaceful

(***************************************************************************)
(* What a request has done stays done as long as its record, the children  *)
(* and the tags of it, and what it has put into the map stay.              *)
(***************************************************************************)
LEMMA Kept ==
    ASSUME NEW f, InOrder(f), f.rec \in records => f.rec \in records', lastRecord \in Nat,
           lastRecord' \in Nat, f.rec \in Nat, lastRecord <= lastRecord',
           f.at = "statement" => context'[f.on] = context[f.on],
           f.at # "statement" => /\ TagsOf(f.rec)' = TagsOf(f.rec) /\ Kids(f.rec)' = Kids(f.rec)
                                 /\ f.rec \in partnered => f.rec \in partnered'
    PROVE  InOrder(f)'
<1>1. f.rec <= lastRecord' /\ f.body \in Bodies
  BY DEF InOrder
<1>2. CASE f.at = "statement"
  BY <1>1, <1>2 DEF InOrder, Prepared
<1>3. CASE f.at # "statement"
  <2>1. Cascading(f) /\ Relating(f)
    BY <1>3 DEF InOrder
  <2>2. Cascading(f)'
    BY <2>1 DEF Cascading
  <2>3. Relating(f)'
    BY <1>3, <2>1 DEF Relating
  <2> QED BY <1>1, <1>3, <2>2, <2>3 DEF InOrder
<1> QED BY <1>2, <1>3

LEMMA WriteSet ==
    ASSUME Typed, NEW w \in Writes, NEW f \in Write, Becomes(w, f)
    PROVE  /\ write' \in [Writes -> Write] /\ write'[w] = f
           /\ \A v \in Writes : v # w => write'[v] = write[v]
<1>1. write \in [Writes -> Write] /\ write' = [write EXCEPT ![w] = f]
  BY DEF Typed, Becomes
<1> QED BY <1>1

LEMMA WriteFields ==
    ASSUME Typed, NEW w \in Writes
    PROVE  /\ write[w] \in Write /\ write[w].at \in Place /\ write[w].on \in Server \cup {NoServer}
           /\ write[w].new \in BOOLEAN /\ write[w].rec \in Nat /\ write[w].body \in Body
           /\ write[w].see \in Context /\ write[w].target \in Nat
           /\ write[w].old \subseteq Nat /\ write[w].todo \subseteq Nat /\ write[w].made \subseteq Nat
<1>1. write[w] \in Write
  BY DEF Typed
<1> QED BY <1>1 DEF Write

LEMMA BodyFields ==
    ASSUME NEW b \in Body
    PROVE  /\ b.tags \subseteq Tags /\ b.kids \subseteq FirstKids
           /\ b.born \in BOOLEAN /\ b.one \in BOOLEAN
  BY DEF Body

\* What a request touches, for a record it knows.
LEMMA TouchedIs ==
    ASSUME NEW f
    PROVE  Touched(f) = f.body.kids \cup (IF f.rec # 0 THEN Kids(f.rec) ELSE {})
  BY DEF Touched, Kids

\* The parts of what holds after a step, request by request.
LEMMA PeacefulAgain ==
    ASSUME NEW w \in Busy', NEW f, f = write'[w], InOrder(f)',
           records' \subseteq 1 .. lastRecord', \A k \in Children' : parent'[k] <= lastRecord',
           \A u \in Busy' : u # w =>
              \E g : /\ g = write'[u] /\ InOrder(g)'
                     /\ g.on # f.on /\ ~Contend(g, f)' /\ ~Contend(f, g)',
           \A u, v \in Busy' : u # w /\ v # w /\ u # v =>
              \E g, h : /\ g = write'[u] /\ h = write'[v] /\ g.on # h.on /\ ~Contend(g, h)'
    PROVE  Peaceful'
<1>1. \A u \in Busy' : \E g \in {write'[u]} : InOrder(g)'
  OBVIOUS
<1>2. \A u, v \in Busy' : u # v => \E g \in {write'[u]}, h \in {write'[v]} : g.on # h.on /\ ~Contend(g, h)'
  OBVIOUS
<1>3. Apart'
  BY <1>2 DEF Apart
<1> QED BY <1>1, <1>3 DEF Peaceful

(***************************************************************************)
(* A statement of the cascade of one request: the others are left alone.   *)
(***************************************************************************)
Alike(f, g) == g.on = f.on /\ g.body = f.body /\ g.rec = f.rec /\ g.see = f.see /\ g.target = f.target

LEMMA CascadeStep ==
    ASSUME WritesInv, Typed', NEW w \in Writes, write[w].at \notin {"idle", "statement"},
           NEW f \in Write, Becomes(w, f), Alike(write[w], f), f.at \notin {"idle", "statement"},
           UNCHANGED <<records, lastRecord, context, shared, contended>>,
           ~shared /\ ~contended =>
             /\ \A r \in Nat : r # f.rec => TagsOf(r)' = TagsOf(r)
             /\ partnered \subseteq partnered' /\ Children \subseteq Children'
             /\ \A k \in Children : \/ parent'[k] = parent[k]
                                    \/ k \in Touched(write[w]) /\ parent'[k] \in {0, f.rec}
             /\ \A k \in Children' : k \notin Children => parent'[k] = f.rec
             /\ f.target = f.rec \/ (f.target = 0 /\ f.at \notin {"tag", "free", "put"})
             /\ Relating(f)'
    PROVE  WritesInv'
<1>1. SUFFICES ASSUME ~shared, ~contended PROVE Peaceful'
  BY DEF WritesInv, Peaceful
<1>2. /\ records \subseteq 1 .. lastRecord /\ \A k \in Children : parent[k] <= lastRecord
      /\ \A u \in Busy : InOrder(write[u])
      /\ \A u, v \in Busy : u # v => write[u].on # write[v].on /\ ~Contend(write[u], write[v])
      /\ Typed
  BY <1>1 DEF WritesInv, Peaceful, Apart
<1>3. /\ write'[w] = f /\ \A u \in Writes : u # w => write'[u] = write[u]
  BY <1>2, WriteSet
<1>4. Busy' = Busy /\ w \in Busy
  BY <1>3 DEF Busy, WriteAt
<1>5. /\ InOrder(write[w]) /\ Cascading(write[w])
  <2>1. InOrder(write[w])
    BY <1>2, <1>4
  <2> QED BY <2>1 DEF InOrder
<1>6. f.rec \in records /\ f.rec # 0 /\ f.rec \in Nat /\ f.rec <= lastRecord /\ lastRecord \in Nat
  <2>1. f.rec \in records /\ lastRecord \in Nat
    BY <1>2, <1>5 DEF Cascading, Alike, Typed
  <2>2. f.rec \in 1 .. lastRecord
    BY <1>2, <2>1, Zenon
  <2> QED BY <2>1, <2>2
<1>7. InOrder(f)'
  BY <1>1, <1>5, <1>6 DEF InOrder, Cascading, Alike
<1>8. /\ DOMAIN parent = Children /\ DOMAIN parent' = Children' /\ FirstKids \subseteq Children
      /\ parent \in [Children -> Nat] /\ parent' \in [Children' -> Nat]
  BY <1>2 DEF Typed
<1>9. ASSUME NEW u \in Busy, u # w
      PROVE  \E g : /\ g = write[u] /\ g = write'[u] /\ InOrder(g)'
                    /\ g.on # f.on /\ ~Contend(g, f)' /\ ~Contend(f, g)'
                    /\ Touched(g)' = Touched(g)
  <2>1. PICK g \in Write : g = write[u] /\ g = write'[u] /\ g.rec \in Nat /\ g.body \in Body
    BY <1>2, <1>3, <1>9, WriteFields DEF Busy
  <2>2. InOrder(g) /\ g.on # f.on /\ ~Contend(g, write[w])
    BY <1>2, <1>4, <1>9, <2>1 DEF Alike
  <2>3. /\ g.rec # f.rec /\ Touched(g) \cap Touched(write[w]) = {}
        /\ g.body.kids \subseteq Children
    BY <1>6, <1>8, <2>1, <2>2, BodyFields DEF Contend, Alike
  <2>4. g.at # "statement" => g.rec # 0
    BY <1>2, <2>2 DEF InOrder, Cascading
  <2>5. g.rec # 0 => Kids(g.rec)' = Kids(g.rec)
    <3>1. ASSUME NEW k \in Children', parent'[k] = g.rec, g.rec # 0 PROVE k \in Children /\ parent[k] = g.rec
      BY <1>1, <2>3, <3>1
    <3>2. ASSUME NEW k \in Children, parent[k] = g.rec, g.rec # 0 PROVE k \in Children' /\ parent'[k] = g.rec
      <4>1. k \in Touched(g)
        BY <1>8, <3>2 DEF Touched
      <4> QED BY <1>1, <2>3, <3>2, <4>1
    <3> QED BY <1>8, <3>1, <3>2 DEF Kids
  <2>6. g.at # "statement" => TagsOf(g.rec)' = TagsOf(g.rec) /\ (g.rec \in partnered => g.rec \in partnered')
    BY <1>1, <2>1, <2>3
  <2>7. InOrder(g)'
    BY <1>6, <2>1, <2>2, <2>4, <2>5, <2>6, Kept
  <2>8. Touched(g)' = Touched(g)
    BY <2>5 DEF Touched, Kids
  <2>9. Touched(f)' \cap Touched(g)' = {}
    <3>1. ASSUME NEW k \in Touched(f)' PROVE k \in Touched(write[w]) \/ k \notin Children
      <4>1. k \in f.body.kids \/ (k \in Children' /\ parent'[k] = f.rec)
        BY <1>8, <3>1 DEF Touched
      <4> QED BY <1>1, <1>6, <1>8, <4>1 DEF Touched, Alike
    <3>2. Touched(g) \subseteq Children
      BY <1>8, <2>3 DEF Touched
    <3> QED BY <2>3, <2>8, <3>1, <3>2
  <2>10. ~Contend(g, f)' /\ ~Contend(f, g)'
    BY <2>3, <2>9 DEF Contend
  <2> QED BY <2>1, <2>2, <2>7, <2>8, <2>10
<1>10. records' \subseteq 1 .. lastRecord' /\ \A k \in Children' : parent'[k] <= lastRecord'
  <2>1. records' = records /\ lastRecord' = lastRecord /\ 0 <= lastRecord
    BY <1>6
  <2>2. ASSUME NEW k \in Children' PROVE parent'[k] <= lastRecord
    BY <1>1, <1>2, <1>6, <2>1, <2>2
  <2> QED BY <1>2, <2>1, <2>2
<1>11. ASSUME NEW u \in Busy, NEW v \in Busy, u # w, v # w, u # v
       PROVE  \E g, h : g = write'[u] /\ h = write'[v] /\ g.on # h.on /\ ~Contend(g, h)'
  <2>1. PICK g : g = write[u] /\ g = write'[u] /\ Touched(g)' = Touched(g)
    BY <1>9, <1>11
  <2>2. PICK h : h = write[v] /\ h = write'[v] /\ Touched(h)' = Touched(h)
    BY <1>9, <1>11
  <2>3. g.on # h.on /\ ~Contend(g, h)
    BY <1>2, <1>11, <2>1, <2>2
  <2> QED BY <2>1, <2>2, <2>3 DEF Contend
<1>12. \A u \in Busy' : u # w =>
          \E g : /\ g = write'[u] /\ InOrder(g)'
                 /\ g.on # f.on /\ ~Contend(g, f)' /\ ~Contend(f, g)'
  BY <1>4, <1>9
<1>13. \A u, v \in Busy' : u # w /\ v # w /\ u # v =>
          \E g, h : /\ g = write'[u] /\ h = write'[v] /\ g.on # h.on /\ ~Contend(g, h)'
  BY <1>4, <1>11
<1>14. w \in Busy' /\ f = write'[w]
  BY <1>3, <1>4
<1> QED BY <1>7, <1>10, <1>12, <1>13, <1>14, PeacefulAgain

-----------------------------------------------------------------------------
(***************************************************************************)
(* The statements of a cascade, one by one.                                *)
(***************************************************************************)
\* Of a step of a cascade: what stays, and what the request has.
LEMMA CascadesIs ==
    ASSUME WritesInv, NEW w \in Writes, NEW place \in Place \ {"idle", "statement"}, Cascades(w, place)
    PROVE  /\ write[w].at = place /\ write[w].at \notin {"idle", "statement"} /\ ~Doomed(w)
           /\ UNCHANGED <<dialect, shared, contended, lastRecord, written, context, flaws>>
           /\ write[w] \in Write /\ See(w) \in Body
           /\ ~shared /\ ~contended =>
                /\ See(w) = write[w].body /\ write[w].rec \in records /\ 0 \notin records
                /\ write[w].rec \in Nat /\ write[w].rec # 0 /\ write[w].body \in Body
                /\ write[w].target = write[w].rec
                   \/ (write[w].target = 0 /\ place \notin {"tag", "free", "put"})
                /\ Cascading(write[w]) /\ Relating(write[w])
<1>1. /\ write[w].at = place /\ ~Doomed(w)
      /\ UNCHANGED <<dialect, shared, contended, lastRecord, written, context, flaws>>
  BY DEF Cascades, WriteAt, Past
<1>2. write[w] \in Write /\ See(w) \in Body /\ write[w].rec \in Nat /\ write[w].body \in Body
  BY WriteFields DEF WritesInv, See, Context
<1>3. ASSUME ~shared, ~contended
      PROVE  /\ See(w) = write[w].body /\ write[w].rec \in records /\ 0 \notin records
             /\ write[w].rec # 0
             /\ write[w].target = write[w].rec
                \/ (write[w].target = 0 /\ place \notin {"tag", "free", "put"})
             /\ Cascading(write[w]) /\ Relating(write[w])
  <2>1. w \in Busy
    BY <1>1 DEF Busy, WriteAt
  <2>2. records \subseteq 1 .. lastRecord /\ InOrder(write[w])
    BY <1>3, <2>1 DEF WritesInv, Peaceful
  <2>3. Cascading(write[w]) /\ Relating(write[w])
    BY <1>1, <2>2 DEF InOrder
  <2>4. 0 \notin records
    BY <2>2
  <2> QED BY <1>1, <2>3, <2>4 DEF Cascading, See
<1> QED BY <1>1, <1>2, <1>3

\* A request with another place, and nothing else.
LEMMA OntoIs ==
    ASSUME WritesInv, NEW w \in Writes, NEW place \in Place, Onto(w, place)
    PROVE  \E f \in Write : /\ Becomes(w, f) /\ f.at = place /\ Alike(write[w], f)
                            /\ f.old = write[w].old /\ f.todo = write[w].todo
                            /\ f.made = write[w].made /\ f.new = write[w].new
<1>1. PICK f : f = [write[w] EXCEPT !.at = place]
  OBVIOUS
<1>2. write[w] \in Write
  BY WriteFields DEF WritesInv
<1>3. /\ f \in Write /\ f.at = place /\ Alike(write[w], f)
      /\ f.old = write[w].old /\ f.todo = write[w].todo
      /\ f.made = write[w].made /\ f.new = write[w].new
  BY <1>1, <1>2 DEF Write, Alike
<1>4. Becomes(w, f)
  BY <1>1 DEF Onto
<1> QED BY <1>3, <1>4

LEMMA SameTypes ==
    ASSUME WritesInv, UNCHANGED <<records, lastRecord, context, shared, contended>>,
           NEW w \in Writes, NEW f \in Write, Becomes(w, f), Alike(write[w], f),
           write[w].at # "idle", tagged' \subseteq Nat \X Tags,
           IsFiniteSet(DOMAIN parent'), DOMAIN parent' = Children', parent' \in [Children' -> Nat],
           FirstKids \subseteq Children'
    PROVE  Typed'
<1>1. Typed
  BY DEF WritesInv
<1>2. /\ write' \in [Writes -> Write] /\ write'[w] = f
      /\ \A v \in Writes : v # w => write'[v] = write[v]
  BY <1>1, WriteSet
<1>3. \A v \in Writes : write'[v].at # "idle" => write'[v].on \in Server
  BY <1>1, <1>2 DEF Typed, Alike
<1> QED BY <1>1, <1>2, <1>3 DEF Typed

LEMMA UntagStep == ASSUME WritesInv, NEW w \in Writes, Untag(w) PROVE WritesInv'
<1>1. /\ Cascades(w, "untag") /\ tagged' = {p \in tagged : p[1] # write[w].target}
      /\ Onto(w, "tag") /\ UNCHANGED <<records, parent, partnered>>
  BY DEF Untag, Untagged
<1>2. /\ write[w].at = "untag" /\ ~Doomed(w)
      /\ UNCHANGED <<lastRecord, context, shared, contended>>
      /\ ~shared /\ ~contended =>
           /\ write[w].rec \in Nat
           /\ write[w].target = write[w].rec \/ write[w].target = 0
           /\ Relating(write[w])
  BY <1>1, CascadesIs DEF Place
<1>3. PICK f \in Write : /\ Becomes(w, f) /\ f.at = "tag" /\ Alike(write[w], f)
                         /\ f.made = write[w].made
  BY <1>1, OntoIs DEF Place
<1>4. write[w].target # 0
  BY <1>2 DEF Doomed
<1>5. Typed'
  BY <1>1, <1>2, <1>3, SameTypes DEF WritesInv, Typed, Children
<1>6. ASSUME ~shared, ~contended
      PROVE  /\ \A r \in Nat : r # f.rec => TagsOf(r)' = TagsOf(r)
             /\ f.target = f.rec /\ Relating(f)'
  <2>1. f.target = f.rec /\ write[w].target = f.rec
    BY <1>2, <1>3, <1>4, <1>6 DEF Alike
  <2>2. TagsOf(f.rec)' = {} /\ \A r \in Nat : r # f.rec => TagsOf(r)' = TagsOf(r)
    BY <1>1, <2>1 DEF TagsOf
  <2> QED BY <1>2, <1>3, <1>6, <2>1, <2>2 DEF Relating
<1> QED BY <1>1, <1>2, <1>3, <1>5, <1>6, CascadeStep DEF Children

LEMMA NextPlaces ==
    ASSUME NEW b \in Body
    PROVE  /\ OneOrEnd(b) \in {"create", "finish"} /\ (OneOrEnd(b) = "finish" => ~b.one)
           /\ KidsOn(b) \in {"select", "create", "finish"}
           /\ KidsOn(b) # "select" => b.kids = {} /\ ~b.born
           /\ KidsOn(b) = "finish" => ~b.one
           /\ TagsOn(b) \in {"untag", "select", "create", "finish"}
           /\ TagsOn(b) # "untag" => b.tags = {}
           /\ TagsOn(b) \in {"create", "finish"} => b.kids = {} /\ ~b.born
           /\ TagsOn(b) = "finish" => ~b.one
  BY DEF OneOrEnd, KidsOn, TagsOn

LEMMA TagStep == ASSUME WritesInv, NEW w \in Writes, Tag(w) PROVE WritesInv'
<1>1. /\ Cascades(w, "tag") /\ tagged' = tagged \cup ({write[w].target} \X See(w).tags)
      /\ Onto(w, KidsOn(See(w))) /\ UNCHANGED <<records, parent, partnered>>
  BY DEF Tag
<1>2. /\ write[w].at = "tag" /\ See(w) \in Body /\ write[w].target \in Nat
      /\ UNCHANGED <<lastRecord, context, shared, contended>>
      /\ ~shared /\ ~contended =>
           /\ See(w) = write[w].body /\ write[w].rec \in Nat /\ write[w].target = write[w].rec
           /\ Relating(write[w])
  BY <1>1, CascadesIs, WriteFields DEF Place, WritesInv
<1>3. PICK p \in Place : /\ p = KidsOn(See(w)) /\ p \in {"select", "create", "finish"}
                         /\ p # "select" => See(w).kids = {} /\ ~See(w).born
                         /\ p = "finish" => ~See(w).one
  BY <1>2, NextPlaces DEF Place
<1>4. PICK f \in Write : /\ Becomes(w, f) /\ f.at = p /\ Alike(write[w], f)
                         /\ f.made = write[w].made
  BY <1>1, <1>3, OntoIs
<1>5. Typed'
  <2>1. tagged' \subseteq Nat \X Tags
    BY <1>1, <1>2, BodyFields DEF WritesInv, Typed
  <2> QED BY <1>1, <1>2, <1>4, <2>1, SameTypes DEF WritesInv, Typed, Children
<1>6. ASSUME ~shared, ~contended
      PROVE  /\ \A r \in Nat : r # f.rec => TagsOf(r)' = TagsOf(r)
             /\ f.target = f.rec /\ Relating(f)'
  <2>1. f.target = f.rec /\ write[w].target = f.rec /\ See(w) = f.body
    BY <1>2, <1>4, <1>6 DEF Alike
  <2>2. TagsOf(f.rec) = {} /\ f.made = {}
    BY <1>2, <1>4, <1>6 DEF Relating, Alike
  <2>3. TagsOf(f.rec)' = {f.rec} \X f.body.tags /\ \A r \in Nat : r # f.rec => TagsOf(r)' = TagsOf(r)
    BY <1>1, <2>1, <2>2 DEF TagsOf
  <2>4. {q[2] : q \in TagsOf(f.rec)'} = f.body.tags
    <3>1. PICK S : S = TagsOf(f.rec)'
      OBVIOUS
    <3>2. \A q \in S : q[2] \in f.body.tags
      BY <2>3, <3>1
    <3>3. \A t \in f.body.tags : <<f.rec, t>> \in S /\ <<f.rec, t>>[2] = t
      BY <2>3, <3>1
    <3> QED BY <3>1, <3>2, <3>3
  <2>5. Relating(f)'
    BY <1>3, <1>4, <2>1, <2>2, <2>4 DEF Relating
  <2> QED BY <2>1, <2>3, <2>5
<1> QED BY <1>1, <1>2, <1>3, <1>4, <1>5, <1>6, CascadeStep DEF Children

LEMMA ChildrenAre ==
    ASSUME Typed
    PROVE  Cardinality(DOMAIN parent) \in Nat /\ Children \subseteq Nat /\ 0 \notin Children
<1>1. Cardinality(DOMAIN parent) \in Nat
  BY FS_CardinalityType DEF Typed
<1> QED BY <1>1 DEF Children

LEMMA SelectStep == ASSUME WritesInv, NEW w \in Writes, SelectKids(w) PROVE WritesInv'
<1>1. /\ Cascades(w, "select") /\ UNCHANGED Data
      /\ UNCHANGED <<records, tagged, parent, partnered>>
  BY DEF SelectKids, Data
<1>2. /\ write[w].at = "select" /\ See(w) \in Body /\ write[w].target # 0
      /\ UNCHANGED <<lastRecord, context, shared, contended>> /\ write[w] \in Write
      /\ ~shared /\ ~contended =>
           /\ See(w) = write[w].body /\ write[w].rec \in Nat
           /\ write[w].target = write[w].rec \/ write[w].target = 0
           /\ Relating(write[w])
  BY <1>1, CascadesIs DEF Place, Doomed
<1>3. PICK has : /\ has = Kids(write[w].target)
                 /\ Becomes(w, [write[w] EXCEPT !.at = IF has \subseteq See(w).kids THEN "put" ELSE "free",
                                                !.old = has \ See(w).kids, !.todo = See(w).kids])
  BY DEF SelectKids, Kids
<1>4. PICK p \in {"put", "free"} : p = IF has \subseteq See(w).kids THEN "put" ELSE "free"
  OBVIOUS
<1>5. PICK f : f = [write[w] EXCEPT !.at = p, !.old = has \ See(w).kids, !.todo = See(w).kids]
  OBVIOUS
<1>6. /\ f \in Write /\ f.at = p /\ Alike(write[w], f) /\ f.made = write[w].made
      /\ f.old = has \ See(w).kids /\ f.todo = See(w).kids
  <2>1. has \subseteq Nat
    BY <1>3, ChildrenAre DEF Kids, WritesInv, Typed
  <2>2. See(w).kids \subseteq Nat
    BY <1>2, BodyFields, ChildrenAre DEF WritesInv, Typed
  <2>3. p \in Place
    BY DEF Place
  <2> QED BY <1>2, <1>5, <2>1, <2>2, <2>3 DEF Write, Alike
<1>7. Becomes(w, f)
  BY <1>3, <1>4, <1>5
<1>8. Typed'
  BY <1>1, <1>2, <1>6, <1>7, SameTypes DEF WritesInv, Typed, Children
<1>9. ASSUME ~shared, ~contended
      PROVE  /\ \A r \in Nat : r # f.rec => TagsOf(r)' = TagsOf(r)
             /\ f.target = f.rec /\ Relating(f)'
  <2>1. f.target = f.rec /\ write[w].target = f.rec /\ See(w) = f.body
    BY <1>2, <1>6, <1>9 DEF Alike
  <2>2. \A r : TagsOf(r)' = TagsOf(r) /\ Kids(r)' = Kids(r)
    BY <1>1 DEF TagsOf, Kids
  <2>3. Relating(f)'
    BY <1>2, <1>3, <1>4, <1>6, <1>9, <2>1, <2>2 DEF Relating, Alike
  <2> QED BY <2>1, <2>2, <2>3
<1> QED BY <1>1, <1>2, <1>6, <1>7, <1>8, <1>9, CascadeStep DEF Children

LEMMA FreeStep == ASSUME WritesInv, NEW w \in Writes, FreeKids(w) PROVE WritesInv'
<1>1. /\ Cascades(w, "free") /\ Onto(w, "put") /\ UNCHANGED <<records, tagged, partnered>>
      /\ parent' = [k \in DOMAIN parent |-> IF k \in write[w].old THEN 0 ELSE parent[k]]
  BY DEF FreeKids
<1>2. /\ write[w].at = "free"
      /\ UNCHANGED <<lastRecord, context, shared, contended>>
      /\ ~shared /\ ~contended =>
           /\ write[w].rec \in Nat /\ write[w].rec # 0 /\ write[w].target = write[w].rec
           /\ Relating(write[w])
  BY <1>1, CascadesIs DEF Place
<1>3. PICK f \in Write : /\ Becomes(w, f) /\ f.at = "put" /\ Alike(write[w], f)
                         /\ f.made = write[w].made /\ f.old = write[w].old /\ f.todo = write[w].todo
  BY <1>1, OntoIs DEF Place
<1>4. /\ DOMAIN parent' = DOMAIN parent /\ Children' = Children /\ parent' \in [Children -> Nat]
      /\ DOMAIN parent = Children
      /\ \A k \in Children : parent'[k] = IF k \in f.old THEN 0 ELSE parent[k]
  <2>1. DOMAIN parent' = DOMAIN parent
    BY <1>1
  <2>2. Children' = Children /\ DOMAIN parent = Children /\ parent \in [Children -> Nat]
    BY <2>1 DEF Children, WritesInv, Typed
  <2> QED BY <1>1, <1>3, <2>1, <2>2
<1>5. Typed'
  BY <1>1, <1>2, <1>3, <1>4, SameTypes DEF WritesInv, Typed
<1>6. ASSUME ~shared, ~contended
      PROVE  /\ \A r \in Nat : r # f.rec => TagsOf(r)' = TagsOf(r)
             /\ f.target = f.rec /\ Relating(f)'
             /\ \A k \in Children : \/ parent'[k] = parent[k]
                                    \/ k \in Touched(write[w]) /\ parent'[k] \in {0, f.rec}
  <2>1. f.target = f.rec /\ f.rec \in Nat /\ f.rec # 0 /\ f.rec = write[w].rec
    BY <1>2, <1>3, <1>6 DEF Alike
  <2>2. /\ Kids(f.rec) \subseteq f.old \cup f.body.kids /\ f.todo = f.body.kids
        /\ f.old \subseteq Kids(f.rec) /\ f.made = {}
        /\ f.body.tags # {} => {p[2] : p \in TagsOf(f.rec)} = f.body.tags
    BY <1>2, <1>3, <1>6, <2>1 DEF Relating, Alike
  <2>3. \A r : TagsOf(r)' = TagsOf(r)
    BY <1>1 DEF TagsOf
  <2>4. Kids(f.rec)' \subseteq f.body.kids
    BY <1>4, <2>1, <2>2 DEF Kids
  <2>5. Relating(f)'
    BY <1>3, <2>2, <2>3, <2>4 DEF Relating
  <2>6. \A k \in Children : k \in f.old => k \in Touched(write[w])
    BY <1>4, <2>1, <2>2 DEF Touched, Kids
  <2> QED BY <1>4, <2>1, <2>3, <2>5, <2>6
<1> QED BY <1>1, <1>2, <1>3, <1>4, <1>5, <1>6, CascadeStep

LEMMA PutStep == ASSUME WritesInv, NEW w \in Writes, PutKid(w) PROVE WritesInv'
<1>1. /\ Cascades(w, "put") /\ UNCHANGED <<records, tagged, partnered>>
  BY DEF PutKid
<1>2. PICK k \in write[w].todo :
         /\ parent' = [parent EXCEPT ![k] = write[w].target]
         /\ Becomes(w, [write[w] EXCEPT !.todo = @ \ {k}])
  BY DEF PutKid
<1>3. /\ write[w].at = "put" /\ write[w] \in Write /\ write[w].target \in Nat
      /\ UNCHANGED <<lastRecord, context, shared, contended>>
      /\ ~shared /\ ~contended =>
           /\ write[w].rec \in Nat /\ write[w].rec # 0 /\ write[w].target = write[w].rec
           /\ Relating(write[w]) /\ write[w].body \in Body
  BY <1>1, CascadesIs, WriteFields DEF Place, WritesInv
<1>4. PICK f : f = [write[w] EXCEPT !.todo = @ \ {k}]
  OBVIOUS
<1>5. /\ f \in Write /\ f.at = "put" /\ Alike(write[w], f) /\ f.made = write[w].made
      /\ f.todo = write[w].todo \ {k}
  BY <1>3, <1>4 DEF Write, Alike
<1>6. Becomes(w, f)
  BY <1>2, <1>4
<1>7. /\ DOMAIN parent' = DOMAIN parent /\ Children' = Children /\ parent' \in [Children -> Nat]
      /\ DOMAIN parent = Children
      /\ \A j \in Children : parent'[j] = IF j = k THEN f.target ELSE parent[j]
  <2>1. DOMAIN parent' = DOMAIN parent /\ f.target = write[w].target
    BY <1>2, <1>5 DEF Alike
  <2>2. Children' = Children /\ DOMAIN parent = Children /\ parent \in [Children -> Nat]
    BY <2>1 DEF Children, WritesInv, Typed
  <2> QED BY <1>2, <1>3, <2>1, <2>2
<1>8. Typed'
  BY <1>1, <1>3, <1>5, <1>6, <1>7, SameTypes DEF WritesInv, Typed
<1>9. ASSUME ~shared, ~contended
      PROVE  /\ \A r \in Nat : r # f.rec => TagsOf(r)' = TagsOf(r)
             /\ f.target = f.rec /\ Relating(f)'
             /\ \A j \in Children : \/ parent'[j] = parent[j]
                                    \/ j \in Touched(write[w]) /\ parent'[j] \in {0, f.rec}
  <2>1. f.target = f.rec /\ f.rec \in Nat /\ f.rec # 0 /\ f.rec = write[w].rec /\ f.body = write[w].body
    BY <1>3, <1>5, <1>9 DEF Alike
  <2>2. /\ Kids(f.rec) \subseteq f.body.kids \cup f.made
        /\ f.body.kids \ write[w].todo \subseteq Kids(f.rec) /\ f.made \subseteq Kids(f.rec)
        /\ write[w].todo \subseteq f.body.kids
        /\ f.body.tags # {} => {p[2] : p \in TagsOf(f.rec)} = f.body.tags
    BY <1>3, <1>5, <1>9, <2>1 DEF Relating
  <2>3. k \in f.body.kids /\ k \in Children
    BY <1>3, <1>9, <2>1, <2>2, BodyFields DEF WritesInv, Typed
  <2>4. \A r : TagsOf(r)' = TagsOf(r)
    BY <1>1 DEF TagsOf
  <2>5. Kids(f.rec)' = Kids(f.rec) \cup {k}
    BY <1>7, <2>1, <2>3 DEF Kids
  <2>6. Relating(f)'
    BY <1>5, <2>2, <2>3, <2>4, <2>5 DEF Relating
  <2>7. k \in Touched(write[w])
    BY <2>1, <2>3 DEF Touched
  <2> QED BY <1>7, <2>1, <2>4, <2>6, <2>7
<1> QED BY <1>1, <1>3, <1>5, <1>6, <1>7, <1>8, <1>9, CascadeStep

\* A child that is created has a number of its own.
LEMMA NewChild ==
    ASSUME Typed, NEW n, n = Cardinality(DOMAIN parent), NEW k, k = n + 1, NEW r \in Nat,
           parent' = [j \in DOMAIN parent \cup {k} |-> IF j = k THEN r ELSE parent[j]]
    PROVE  /\ DOMAIN parent' = Children' /\ IsFiniteSet(DOMAIN parent')
           /\ Children' = Children \cup {k} /\ k \notin Children /\ k \in Nat
           /\ DOMAIN parent = Children
           /\ parent' \in [Children' -> Nat] /\ parent'[k] = r
           /\ \A j \in Children : parent'[j] = parent[j]
<1>1. n \in Nat /\ DOMAIN parent = 1 .. n /\ Children = 1 .. n /\ parent \in [1 .. n -> Nat]
  BY ChildrenAre DEF Typed, Children
<1>2. 1 .. k = (1 .. n) \cup {k} /\ k \notin 1 .. n /\ k \in Nat
  BY <1>1
<1>3. DOMAIN parent' = 1 .. k
  BY <1>1, <1>2
<1>4. IsFiniteSet(1 .. k) /\ Cardinality(1 .. k) = k
  BY <1>1, <1>2, FS_Interval
<1>5. Children' = 1 .. k
  BY <1>3, <1>4 DEF Children
<1>6. /\ parent' \in [1 .. k -> Nat] /\ parent'[k] = r
      /\ \A j \in 1 .. n : parent'[j] = parent[j]
  BY <1>1, <1>2
<1> QED BY <1>1, <1>2, <1>3, <1>4, <1>5, <1>6

LEMMA NewStep == ASSUME WritesInv, NEW w \in Writes, NewKid(w) PROVE WritesInv'
<1>1. /\ Cascades(w, "put") /\ UNCHANGED <<records, tagged, partnered>> /\ write[w].made = {}
  BY DEF NewKid
<1>2. PICK k : /\ k = Cardinality(DOMAIN parent) + 1
               /\ parent' = [j \in DOMAIN parent \cup {k} |->
                               IF j = k THEN write[w].target ELSE parent[j]]
               /\ Becomes(w, [write[w] EXCEPT !.made = {k}])
  BY DEF NewKid
<1>3. /\ write[w].at = "put" /\ write[w] \in Write /\ write[w].target \in Nat /\ Typed
      /\ UNCHANGED <<lastRecord, context, shared, contended>>
      /\ ~shared /\ ~contended =>
           /\ write[w].rec \in Nat /\ write[w].rec # 0 /\ write[w].target = write[w].rec
           /\ Relating(write[w])
  BY <1>1, CascadesIs, WriteFields DEF Place, WritesInv
<1>4. /\ DOMAIN parent' = Children' /\ IsFiniteSet(DOMAIN parent')
      /\ Children' = Children \cup {k} /\ k \notin Children /\ k \in Nat
      /\ DOMAIN parent = Children
      /\ parent' \in [Children' -> Nat] /\ parent'[k] = write[w].target
      /\ \A j \in Children : parent'[j] = parent[j]
  BY <1>2, <1>3, NewChild
<1>5. PICK f : f = [write[w] EXCEPT !.made = {k}]
  OBVIOUS
<1>6. /\ f \in Write /\ f.at = "put" /\ Alike(write[w], f) /\ f.made = {k}
      /\ f.todo = write[w].todo
  BY <1>3, <1>4, <1>5 DEF Write, Alike
<1>7. Becomes(w, f)
  BY <1>2, <1>5
<1>8. Typed'
  BY <1>1, <1>3, <1>4, <1>6, <1>7, SameTypes DEF WritesInv, Typed
<1>9. ASSUME ~shared, ~contended
      PROVE  /\ \A r \in Nat : r # f.rec => TagsOf(r)' = TagsOf(r)
             /\ f.target = f.rec /\ Relating(f)' /\ write[w].target = f.rec
  <2>1. f.target = f.rec /\ f.rec = write[w].rec /\ f.body = write[w].body /\ write[w].target = f.rec
    BY <1>3, <1>6, <1>9 DEF Alike
  <2>2. /\ Kids(f.rec) \subseteq f.body.kids
        /\ f.body.kids \ f.todo \subseteq Kids(f.rec) /\ f.todo \subseteq f.body.kids
        /\ f.body.tags # {} => {p[2] : p \in TagsOf(f.rec)} = f.body.tags
    BY <1>1, <1>3, <1>6, <1>9, <2>1 DEF Relating
  <2>3. \A r : TagsOf(r)' = TagsOf(r)
    BY <1>1 DEF TagsOf
  <2>4. Kids(f.rec)' = Kids(f.rec) \cup {k}
    BY <1>4, <2>1 DEF Kids
  <2>5. Relating(f)'
    BY <1>6, <2>2, <2>3, <2>4 DEF Relating
  <2> QED BY <2>1, <2>3, <2>5
<1> QED BY <1>1, <1>3, <1>4, <1>6, <1>7, <1>8, <1>9, CascadeStep

LEMMA DoneStep == ASSUME WritesInv, NEW w \in Writes, KidsDone(w) PROVE WritesInv'
<1>1. /\ Cascades(w, "put") /\ Onto(w, OneOrEnd(See(w))) /\ write[w].todo = {}
      /\ See(w).born => write[w].made # {}
      /\ UNCHANGED <<records, tagged, parent, partnered>>
  BY DEF KidsDone, Data
<1>2. /\ write[w].at = "put" /\ See(w) \in Body
      /\ UNCHANGED <<lastRecord, context, shared, contended>>
      /\ ~shared /\ ~contended =>
           /\ See(w) = write[w].body /\ write[w].rec \in Nat /\ write[w].target = write[w].rec
           /\ Relating(write[w])
  BY <1>1, CascadesIs DEF Place
<1>3. PICK p \in Place : /\ p = OneOrEnd(See(w)) /\ p \in {"create", "finish"}
                         /\ p = "finish" => ~See(w).one
  BY <1>2, NextPlaces DEF Place
<1>4. PICK f \in Write : /\ Becomes(w, f) /\ f.at = p /\ Alike(write[w], f)
                         /\ f.made = write[w].made /\ f.todo = write[w].todo
  BY <1>1, <1>3, OntoIs
<1>5. Typed'
  BY <1>1, <1>2, <1>4, SameTypes DEF WritesInv, Typed, Children
<1>6. ASSUME ~shared, ~contended
      PROVE  /\ \A r \in Nat : r # f.rec => TagsOf(r)' = TagsOf(r)
             /\ f.target = f.rec /\ Relating(f)'
  <2>1. f.target = f.rec /\ f.rec = write[w].rec /\ f.body = write[w].body /\ f.body = See(w)
    BY <1>2, <1>4, <1>6 DEF Alike
  <2>2. /\ Kids(f.rec) = f.body.kids \cup f.made
        /\ f.body.tags # {} => {q[2] : q \in TagsOf(f.rec)} = f.body.tags
    <3>1. /\ Kids(f.rec) \subseteq f.body.kids \cup f.made
          /\ f.body.kids \ {} \subseteq Kids(f.rec) /\ f.made \subseteq Kids(f.rec)
          /\ f.body.tags # {} => {q[2] : q \in TagsOf(f.rec)} = f.body.tags
      BY <1>1, <1>2, <1>4, <1>6, <2>1 DEF Relating
    <3> QED BY <3>1
  <2>3. \A r : TagsOf(r)' = TagsOf(r) /\ Kids(r)' = Kids(r)
    BY <1>1 DEF TagsOf, Kids
  <2>4. Relating(f)'
    BY <1>1, <1>3, <1>4, <2>1, <2>2, <2>3 DEF Relating
  <2> QED BY <2>1, <2>3, <2>4
<1> QED BY <1>1, <1>2, <1>3, <1>4, <1>5, <1>6, CascadeStep DEF Children

LEMMA OneStep == ASSUME WritesInv, NEW w \in Writes, CreateOne(w) \/ LinkOne(w) PROVE WritesInv'
<1>1. PICK from \in {"create", "link"}, p \in {"link", "finish"} :
         /\ Cascades(w, from) /\ Onto(w, p) /\ UNCHANGED <<records, tagged, parent>>
         /\ from = "create" => p = "link" /\ UNCHANGED partnered
         /\ from = "link" => partnered' = partnered \cup ({write[w].target} \cap records)
  BY DEF CreateOne, LinkOne, Data
<1>2. /\ write[w].at = from /\ ~Doomed(w)
      /\ UNCHANGED <<lastRecord, context, shared, contended>>
      /\ ~shared /\ ~contended =>
           /\ write[w].rec \in records /\ write[w].rec \in Nat
           /\ write[w].target = write[w].rec \/ write[w].target = 0
           /\ Relating(write[w])
  BY <1>1, CascadesIs DEF Place
<1>3. PICK f \in Write : /\ Becomes(w, f) /\ f.at = p /\ Alike(write[w], f)
                         /\ f.made = write[w].made
  BY <1>1, OntoIs DEF Place
<1>4. Typed'
  BY <1>1, <1>2, <1>3, SameTypes DEF WritesInv, Typed, Children
<1>5. ASSUME ~shared, ~contended
      PROVE  /\ \A r \in Nat : r # f.rec => TagsOf(r)' = TagsOf(r)
             /\ f.target = f.rec \/ f.target = 0
             /\ partnered \subseteq partnered' /\ Relating(f)'
  <2>1. /\ f.target = write[w].target
        /\ f.target = f.rec \/ f.target = 0
        /\ f.rec = write[w].rec /\ f.body = write[w].body /\ f.rec \in records
    BY <1>2, <1>3, <1>5 DEF Alike
  <2>2. \A r : TagsOf(r)' = TagsOf(r) /\ Kids(r)' = Kids(r)
    BY <1>1 DEF TagsOf, Kids
  <2>3. p = "finish" => f.rec \in partnered'
    <3>1. ASSUME p = "finish" PROVE from = "link" /\ f.target # 0
      <4>1. from = "link" /\ write[w].at = "link"
        BY <1>1, <1>2, <3>1
      <4> QED BY <1>2, <2>1, <4>1 DEF Doomed
    <3> QED BY <1>1, <2>1, <3>1
  <2>4. Relating(f)'
    BY <1>1, <1>2, <1>3, <1>5, <2>1, <2>2, <2>3 DEF Relating
  <2> QED BY <1>1, <2>1, <2>2, <2>4
<1> QED BY <1>1, <1>2, <1>3, <1>4, <1>5, CascadeStep DEF Children

-----------------------------------------------------------------------------
(***************************************************************************)
(* The hooks around the statement, and how requests end.                   *)
(***************************************************************************)
LEMMA BusyIs ==
    ASSUME WritesInv, ~shared, ~contended
    PROVE  /\ records \subseteq 1 .. lastRecord /\ lastRecord \in Nat
           /\ \A k \in Children : parent[k] <= lastRecord
           /\ \A u \in Busy : write[u] \in Write /\ write[u].rec \in Nat /\ write[u].body \in Body
                              /\ write[u].on \in Server /\ InOrder(write[u])
           /\ \A u, v \in Busy : u # v => write[u].on # write[v].on /\ ~Contend(write[u], write[v])
<1>1. Typed /\ Peaceful
  BY DEF WritesInv
<1>2. \A u \in Busy : write[u] \in Write /\ write[u].rec \in Nat /\ write[u].body \in Body
                      /\ write[u].on \in Server
  BY <1>1, WriteFields DEF Typed, Busy, WriteAt
<1>3. /\ records \subseteq 1 .. lastRecord /\ \A k \in Children : parent[k] <= lastRecord
      /\ \A u \in Busy : InOrder(write[u])
      /\ \A u, v \in Busy : u # v => write[u].on # write[v].on /\ ~Contend(write[u], write[v])
  BY <1>1 DEF Peaceful, Apart
<1> QED BY <1>1, <1>2, <1>3 DEF Typed

\* A request whose record, children and entry of the map are left alone.
LEMMA StillInOrder ==
    ASSUME WritesInv, ~shared, ~contended, NEW u \in Busy, NEW g, g = write[u], g = write'[u],
           lastRecord' \in Nat, lastRecord <= lastRecord',
           g.at = "statement" => context'[g.on] = context[g.on],
           g.rec \in records => g.rec \in records',
           g.rec # 0 => /\ TagsOf(g.rec)' = TagsOf(g.rec) /\ Kids(g.rec)' = Kids(g.rec)
                        /\ g.rec \in partnered => g.rec \in partnered'
    PROVE  /\ g \in Write /\ g.rec \in Nat /\ g.rec <= lastRecord /\ InOrder(g) /\ InOrder(g)'
           /\ Touched(g)' = Touched(g)
<1>1. InOrder(g) /\ g \in Write /\ g.rec \in Nat /\ records \subseteq 1 .. lastRecord /\ lastRecord \in Nat
  BY BusyIs
<1>2. g.at # "statement" => g.rec # 0
  BY <1>1 DEF InOrder, Cascading
<1>3. InOrder(g)'
  BY <1>1, <1>2, Kept
<1>4. g.rec <= lastRecord
  BY <1>1 DEF InOrder
<1>5. Touched(g)' = Touched(g)
  BY DEF Touched, Kids
<1> QED BY <1>1, <1>3, <1>4, <1>5

\* Requests end, or a record goes that none of the others has to do with.
LEMMA FewerRequests ==
    ASSUME WritesInv, Busy' \subseteq Busy, shared' = shared, contended => contended',
           lastRecord' = lastRecord, records' \subseteq records,
           ~shared /\ ~contended' =>
             /\ \A k \in Children' : parent'[k] <= lastRecord
             /\ \A u \in Busy' :
                  \E g : /\ g = write[u] /\ g = write'[u]
                         /\ g.at = "statement" => context'[g.on] = context[g.on]
                         /\ g.rec \in records => g.rec \in records'
                         /\ g.rec # 0 => /\ TagsOf(g.rec)' = TagsOf(g.rec)
                                         /\ Kids(g.rec)' = Kids(g.rec)
                                         /\ g.rec \in partnered => g.rec \in partnered'
    PROVE  Peaceful'
<1> SUFFICES ASSUME ~shared', ~contended' PROVE Peaceful'
  BY DEF Peaceful
<1>1. ~shared /\ ~contended
  OBVIOUS
<1>2. lastRecord \in Nat /\ lastRecord <= lastRecord /\ records \subseteq 1 .. lastRecord
  BY <1>1, BusyIs
<1>3. ASSUME NEW u \in Busy'
      PROVE  \E g : /\ g = write[u] /\ g = write'[u] /\ InOrder(g)' /\ Touched(g)' = Touched(g)
  <2>1. PICK g : /\ g = write[u] /\ g = write'[u]
                 /\ g.at = "statement" => context'[g.on] = context[g.on]
                 /\ g.rec \in records => g.rec \in records'
                 /\ g.rec # 0 => /\ TagsOf(g.rec)' = TagsOf(g.rec)
                                 /\ Kids(g.rec)' = Kids(g.rec)
                                 /\ g.rec \in partnered => g.rec \in partnered'
    BY <1>1
  <2>2. u \in Busy
    OBVIOUS
  <2>3. InOrder(g)' /\ Touched(g)' = Touched(g)
    BY <1>1, <1>2, <2>1, <2>2, StillInOrder
  <2> QED BY <2>1, <2>3
<1>4. ASSUME NEW u \in Busy', NEW v \in Busy', u # v
      PROVE  \E g \in {write'[u]}, h \in {write'[v]} : g.on # h.on /\ ~Contend(g, h)'
  <2>1. PICK g : g = write[u] /\ g = write'[u] /\ Touched(g)' = Touched(g)
    BY <1>3
  <2>2. PICK h : h = write[v] /\ h = write'[v] /\ Touched(h)' = Touched(h)
    BY <1>3
  <2>3. g.on # h.on /\ ~Contend(g, h)
    BY <1>1, <1>4, <2>1, <2>2, BusyIs
  <2>4. ~Contend(g, h)'
    BY <2>1, <2>2, <2>3 DEF Contend
  <2> QED BY <2>1, <2>2, <2>3, <2>4
<1>5. Apart'
  BY <1>4 DEF Apart
<1>6. \A u \in Busy' : \E g \in {write'[u]} : InOrder(g)'
  BY <1>3
<1>7. records' \subseteq 1 .. lastRecord' /\ \A k \in Children' : parent'[k] <= lastRecord'
  BY <1>1, <1>2
<1> QED BY <1>5, <1>6, <1>7 DEF Peaceful

LEMMA IdleIs ==
    /\ NoBodyOf \in Body /\ NoContext \in Context
    /\ Unwritten \in Write /\ Unwritten.at = "idle"
<1>1. FALSE \in BOOLEAN
  BY Zenon
<1>2. NoBodyOf \in Body
  BY <1>1 DEF NoBodyOf, Body
<1>3. NoContext \in Context
  BY <1>1, <1>2 DEF NoContext, Context
<1>4. Unwritten \in Write /\ Unwritten.at = "idle"
  BY <1>1, <1>2, <1>3 DEF Unwritten, Write, Place
<1> QED BY <1>2, <1>3, <1>4

LEMMA EndStep ==
    ASSUME WritesInv, NEW w \in Writes, FinishWrite(w) \/ WriteFailed(w)
    PROVE  WritesInv'
<1>1. /\ ~WriteAt(w, "idle") /\ Becomes(w, Unwritten)
      /\ UNCHANGED <<records, tagged, parent, partnered, shared, contended, lastRecord>>
      /\ context' \in {context, [context EXCEPT ![write[w].on] = NoContext]}
  BY DEF FinishWrite, WriteFailed, WriteAt, Data, Past
<1>2. /\ write' \in [Writes -> Write] /\ write'[w] = Unwritten
      /\ \A v \in Writes : v # w => write'[v] = write[v]
  BY <1>1, IdleIs, WriteSet DEF WritesInv
<1>3. w \in Busy /\ Busy' \subseteq Busy /\ w \notin Busy'
  BY <1>1, <1>2, IdleIs DEF Busy, WriteAt
<1>4. /\ context \in [Server -> Context] /\ context' \in [Server -> Context]
      /\ \A s \in Server : s # write[w].on => context'[s] = context[s]
  <2>1. context \in [Server -> Context]
    BY DEF WritesInv, Typed
  <2> QED BY <1>1, <2>1, IdleIs
<1>5. Typed'
  <2>1. \A v \in Writes : write'[v].at # "idle" => write'[v].on \in Server
    BY <1>2, IdleIs DEF WritesInv, Typed
  <2> QED BY <1>1, <1>2, <1>4, <2>1 DEF WritesInv, Typed, Children
<1>6. ASSUME ~shared, ~contended
      PROVE  /\ \A k \in Children' : parent'[k] <= lastRecord
             /\ \A u \in Busy' :
                  \E g : /\ g = write[u] /\ g = write'[u]
                         /\ g.at = "statement" => context'[g.on] = context[g.on]
                         /\ g.rec \in records => g.rec \in records'
                         /\ g.rec # 0 => /\ TagsOf(g.rec)' = TagsOf(g.rec)
                                         /\ Kids(g.rec)' = Kids(g.rec)
                                         /\ g.rec \in partnered => g.rec \in partnered'
  <2>1. Children' = Children /\ \A r : TagsOf(r)' = TagsOf(r) /\ Kids(r)' = Kids(r)
    BY <1>1 DEF Children, TagsOf, Kids
  <2>2. \A k \in Children' : parent'[k] <= lastRecord
    BY <1>1, <1>6, <2>1, BusyIs
  <2>3. ASSUME NEW u \in Busy' PROVE write'[u] = write[u] /\ context'[write[u].on] = context[write[u].on]
    <3>1. u \in Busy /\ u \in Writes /\ u # w
      BY <1>3 DEF Busy
    <3>2. write[u].on \in Server /\ write[u].on # write[w].on
      BY <1>3, <1>6, <3>1, BusyIs
    <3> QED BY <1>2, <1>4, <3>1, <3>2
  <2> QED BY <1>1, <2>1, <2>2, <2>3
<1>7. Peaceful'
  BY <1>1, <1>3, <1>6, FewerRequests
<1> QED BY <1>5, <1>7 DEF WritesInv

LEMMA CrashStep == ASSUME WritesInv, NEW s \in Server, CrashServer(s) PROVE WritesInv'
<1>1. /\ UNCHANGED <<records, tagged, parent, partnered, shared, contended, lastRecord>>
      /\ write' = [w \in Writes |-> IF write[w].on = s THEN Unwritten ELSE write[w]]
      /\ context' = [context EXCEPT ![s] = NoContext]
  BY DEF CrashServer, Data, Past
<1>2. /\ write \in [Writes -> Write] /\ context \in [Server -> Context]
  BY DEF WritesInv, Typed
<1>3. /\ write' \in [Writes -> Write] /\ context' \in [Server -> Context]
      /\ \A w \in Writes : IF write[w].on = s THEN write'[w] = Unwritten ELSE write'[w] = write[w]
      /\ \A r \in Server : r # s => context'[r] = context[r]
  BY <1>1, <1>2, IdleIs
<1>4. \A w \in Busy' : w \in Busy /\ w \in Writes /\ write[w].on # s /\ write'[w] = write[w]
  BY <1>3, IdleIs DEF Busy, WriteAt
<1>5. Typed'
  <2>1. \A v \in Writes : write'[v].at # "idle" => write'[v].on \in Server
    BY <1>3, IdleIs DEF WritesInv, Typed
  <2> QED BY <1>1, <1>3, <2>1 DEF WritesInv, Typed, Children
<1>6. ASSUME ~shared, ~contended
      PROVE  /\ \A k \in Children' : parent'[k] <= lastRecord
             /\ \A u \in Busy' :
                  \E g : /\ g = write[u] /\ g = write'[u]
                         /\ g.at = "statement" => context'[g.on] = context[g.on]
                         /\ g.rec \in records => g.rec \in records'
                         /\ g.rec # 0 => /\ TagsOf(g.rec)' = TagsOf(g.rec)
                                         /\ Kids(g.rec)' = Kids(g.rec)
                                         /\ g.rec \in partnered => g.rec \in partnered'
  <2>1. Children' = Children /\ \A r : TagsOf(r)' = TagsOf(r) /\ Kids(r)' = Kids(r)
    BY <1>1 DEF Children, TagsOf, Kids
  <2>2. \A k \in Children' : parent'[k] <= lastRecord
    BY <1>1, <1>6, <2>1, BusyIs
  <2>3. ASSUME NEW u \in Busy' PROVE write'[u] = write[u] /\ context'[write[u].on] = context[write[u].on]
    <3>1. write[u].on \in Server
      BY <1>4, <1>6, BusyIs
    <3> QED BY <1>3, <1>4, <3>1
  <2> QED BY <1>1, <2>1, <2>2, <2>3
<1>7. Peaceful'
  BY <1>1, <1>4, <1>6, FewerRequests
<1> QED BY <1>5, <1>7 DEF WritesInv

LEMMA DeleteStep == ASSUME WritesInv, NEW r \in records, DeleteRecord(r) PROVE WritesInv'
<1>1. /\ records' = records \ {r} /\ tagged' = {p \in tagged : p[1] # r}
      /\ parent' = [k \in DOMAIN parent |-> IF parent[k] = r THEN 0 ELSE parent[k]]
      /\ partnered' = partnered \ {r}
      /\ contended' = (contended \/ \E v \in Busy : r \in {write[v].rec, write[v].target})
      /\ UNCHANGED <<context, write, shared, lastRecord>>
  BY DEF DeleteRecord
<1>2. /\ DOMAIN parent = Children /\ parent \in [Children -> Nat] /\ r \in Nat /\ contended \in BOOLEAN
  BY DEF WritesInv, Typed
<1>3. /\ DOMAIN parent' = DOMAIN parent /\ Children' = Children /\ parent' \in [Children -> Nat]
      /\ \A k \in Children : parent'[k] = IF parent[k] = r THEN 0 ELSE parent[k]
  <2>1. DOMAIN parent' = DOMAIN parent
    BY <1>1
  <2>2. Children' = Children
    BY <2>1 DEF Children
  <2> QED BY <1>1, <1>2, <2>1, <2>2
<1>4. Typed'
  <2>1. contended' \in BOOLEAN
    BY <1>1, <1>2, Zenon
  <2>2. records' \subseteq Nat /\ tagged' \subseteq Nat \X Tags
    BY <1>1 DEF WritesInv, Typed
  <2> QED BY <1>1, <1>2, <1>3, <2>1, <2>2 DEF WritesInv, Typed
<1>5. Busy' = Busy
  BY <1>1 DEF Busy, WriteAt
<1>6. ASSUME ~shared, ~contended'
      PROVE  /\ \A k \in Children' : parent'[k] <= lastRecord
             /\ \A u \in Busy' :
                  \E g : /\ g = write[u] /\ g = write'[u]
                         /\ g.at = "statement" => context'[g.on] = context[g.on]
                         /\ g.rec \in records => g.rec \in records'
                         /\ g.rec # 0 => /\ TagsOf(g.rec)' = TagsOf(g.rec)
                                         /\ Kids(g.rec)' = Kids(g.rec)
                                         /\ g.rec \in partnered => g.rec \in partnered'
  <2>1. ~contended /\ \A u \in Busy : write[u].rec # r
    BY <1>1, <1>6
  <2>2. \A k \in Children' : parent'[k] <= lastRecord
    <3>1. lastRecord \in Nat /\ \A k \in Children : parent[k] <= lastRecord
      BY <1>6, <2>1, BusyIs
    <3> QED BY <1>3, <3>1
  <2>3. ASSUME NEW u \in Busy'
        PROVE  \E g : /\ g = write[u] /\ g = write'[u]
                      /\ g.at = "statement" => context'[g.on] = context[g.on]
                      /\ g.rec \in records => g.rec \in records'
                      /\ g.rec # 0 => /\ TagsOf(g.rec)' = TagsOf(g.rec)
                                      /\ Kids(g.rec)' = Kids(g.rec)
                                      /\ g.rec \in partnered => g.rec \in partnered'
    <3>1. PICK g : g = write[u] /\ g = write'[u] /\ g.rec # r
      BY <1>1, <1>5, <2>1
    <3>2. TagsOf(g.rec)' = TagsOf(g.rec)
      BY <1>1, <3>1 DEF TagsOf
    <3>3. g.rec # 0 => Kids(g.rec)' = Kids(g.rec)
      BY <1>2, <1>3, <3>1 DEF Kids
    <3> QED BY <1>1, <3>1, <3>2, <3>3
  <2> QED BY <2>2, <2>3
<1>7. Peaceful'
  BY <1>1, <1>5, <1>6, FewerRequests
<1> QED BY <1>4, <1>7 DEF WritesInv

\* One request goes on; the database knows at most a record more.
LEMMA OneRequest ==
    ASSUME WritesInv, ~shared, ~contended, NEW w \in Writes, NEW f \in Write, write'[w] = f,
           \A u \in Writes : u # w => write'[u] = write[u],
           f.at # "idle", UNCHANGED <<tagged, parent, partnered>>,
           records \subseteq records', records' \subseteq 1 .. lastRecord', lastRecord' \in Nat,
           lastRecord <= lastRecord', InOrder(f)',
           \A u \in Busy : u # w => /\ context'[write[u].on] = context[write[u].on]
                                    /\ write[u].on # f.on /\ ~Contend(f, write[u])
    PROVE  Peaceful'
<1>1. w \in Busy' /\ f = write'[w] /\ \A u \in Busy' : u # w => u \in Busy /\ write'[u] = write[u]
  BY DEF Busy, WriteAt
<1>2. Children' = Children /\ \A r : TagsOf(r)' = TagsOf(r) /\ Kids(r)' = Kids(r)
  BY DEF Children, TagsOf, Kids
<1>3. \A k \in Children' : parent'[k] <= lastRecord'
  <2>1. /\ lastRecord \in Nat /\ parent \in [Children -> Nat]
        /\ \A k \in Children : parent[k] <= lastRecord
    BY BusyIs DEF WritesInv, Typed
  <2>2. \A k \in Children : parent[k] \in Nat
    BY <2>1
  <2> QED BY <1>2, <2>1, <2>2
<1>4. ASSUME NEW u \in Busy', u # w
      PROVE  \E g : /\ g = write[u] /\ g = write'[u] /\ InOrder(g)' /\ Touched(g)' = Touched(g)
                    /\ g.on # f.on /\ ~Contend(g, f)' /\ ~Contend(f, g)'
  <2>1. PICK g : g = write[u] /\ g = write'[u] /\ u \in Busy
    BY <1>1, <1>4
  <2>2. context'[g.on] = context[g.on] /\ g.on # f.on /\ ~Contend(f, g)
    BY <1>4, <2>1
  <2>3. InOrder(g)' /\ Touched(g)' = Touched(g)
    BY <1>2, <2>1, <2>2, StillInOrder
  <2>4. Touched(f)' = Touched(f)
    BY DEF Touched, Kids
  <2>5. ~Contend(g, f)' /\ ~Contend(f, g)'
    BY <2>2, <2>3, <2>4 DEF Contend
  <2> QED BY <2>1, <2>2, <2>3, <2>5
<1>5. ASSUME NEW u \in Busy', NEW v \in Busy', u # w, v # w, u # v
      PROVE  \E g, h : g = write'[u] /\ h = write'[v] /\ g.on # h.on /\ ~Contend(g, h)'
  <2>1. PICK g : g = write[u] /\ g = write'[u] /\ Touched(g)' = Touched(g)
    BY <1>4, <1>5
  <2>2. PICK h : h = write[v] /\ h = write'[v] /\ Touched(h)' = Touched(h)
    BY <1>4, <1>5
  <2>3. g.on # h.on /\ ~Contend(g, h)
    BY <1>1, <1>5, <2>1, <2>2, BusyIs
  <2> QED BY <2>1, <2>2, <2>3 DEF Contend
<1>6. \A u \in Busy' : u # w => \E g : /\ g = write'[u] /\ InOrder(g)'
                                       /\ g.on # f.on /\ ~Contend(g, f)' /\ ~Contend(f, g)'
  BY <1>4
<1> QED BY <1>1, <1>3, <1>5, <1>6, PeacefulAgain

LEMMA BeginStep ==
    ASSUME WritesInv, NEW w \in Writes, NEW s \in Server, NEW r \in records \cup {0},
           NEW b \in Bodies, BeginWrite(w, s, r, b)
    PROVE  WritesInv'
<1>1. PICK f : f = [Unwritten EXCEPT !.at = "statement", !.on = s, !.new = r = 0, !.rec = r, !.body = b]
  OBVIOUS
<1>2. PICK c : c = [rec |-> r, body |-> b, there |-> TRUE]
  OBVIOUS
<1>3. /\ WriteAt(w, "idle") /\ Becomes(w, f) /\ context' = [context EXCEPT ![s] = c]
      /\ shared' = (shared \/ \E v \in Busy : write[v].on = s)
      /\ contended' = (contended \/ \E v \in Busy : Contend(f, write[v]))
      /\ UNCHANGED <<records, tagged, parent, partnered, lastRecord>>
  BY <1>1, <1>2 DEF BeginWrite, WithContext, Data
<1>4. r \in Nat /\ b \in Body
  <2>1. records \subseteq Nat
    BY DEF WritesInv, Typed
  <2>2. Bodies \subseteq Body
    BY CascadeAssumption
  <2> QED BY <2>1, <2>2
<1>5. PICK new \in BOOLEAN : new = (r = 0)
  BY Zenon
<1>6. /\ f \in Write /\ f.at = "statement" /\ f.on = s /\ f.rec = r /\ f.body = b /\ f.made = {}
      /\ f.new = new
  <2>1. f = [Unwritten EXCEPT !.at = "statement", !.on = s, !.new = new, !.rec = r, !.body = b]
    BY <1>1, <1>5
  <2>2. Unwritten \in Write /\ Unwritten.made = {}
    BY IdleIs DEF Unwritten
  <2> QED BY <1>4, <2>1, <2>2 DEF Write, Place
<1>7. c \in Context /\ c.rec = r /\ c.body = b /\ c.there
  <2>1. TRUE \in BOOLEAN
    BY Zenon
  <2> QED BY <1>2, <1>4, <2>1 DEF Context
<1>8. /\ write' \in [Writes -> Write] /\ write'[w] = f
      /\ \A v \in Writes : v # w => write'[v] = write[v]
  BY <1>3, <1>6, WriteSet DEF WritesInv
<1>9. /\ context' \in [Server -> Context] /\ context'[s] = c
      /\ \A t \in Server : t # s => context'[t] = context[t]
  BY <1>3, <1>7 DEF WritesInv, Typed
<1>10. Typed'
  <2>1. \A v \in Writes : write'[v].at # "idle" => write'[v].on \in Server
    BY <1>6, <1>8 DEF WritesInv, Typed
  <2>2. shared' \in BOOLEAN /\ contended' \in BOOLEAN
    <3>1. shared \in BOOLEAN /\ contended \in BOOLEAN
      BY DEF WritesInv, Typed
    <3> QED BY <1>3, <3>1, Zenon
  <2> QED BY <1>3, <1>8, <1>9, <2>1, <2>2 DEF WritesInv, Typed, Children
<1>11. ASSUME ~shared', ~contended' PROVE Peaceful'
  <2>1. ~shared /\ ~contended /\ \A u \in Busy : write[u].on # s /\ ~Contend(f, write[u])
    BY <1>3, <1>11
  <2>2. records' \subseteq 1 .. lastRecord' /\ lastRecord' \in Nat /\ lastRecord <= lastRecord'
    BY <1>3, <2>1, BusyIs
  <2>3. InOrder(f)'
    <3>1. f.rec <= lastRecord'
      BY <1>3, <1>4, <1>6, <2>2
    <3>2. Prepared(f)'
      BY <1>3, <1>5, <1>6, <1>7, <1>9 DEF Prepared
    <3> QED BY <1>6, <3>1, <3>2 DEF InOrder
  <2>4. \A u \in Busy : u # w => context'[write[u].on] = context[write[u].on]
    <3>1. \A u \in Busy : write[u].on \in Server
      BY <2>1, BusyIs
    <3> QED BY <1>9, <2>1, <3>1
  <2>5. f.at # "idle" /\ records \subseteq records'
    BY <1>3, <1>6
  <2> QED BY <1>3, <1>6, <1>8, <2>1, <2>2, <2>3, <2>4, <2>5, OneRequest
<1> QED BY <1>10, <1>11 DEF WritesInv, Peaceful

LEMMA StatementStep == ASSUME WritesInv, NEW w \in Writes, Statement(w) PROVE WritesInv'
<1>1. PICK f : f = write[w]
  OBVIOUS
<1>2. PICK found : found = context[f.on]
  OBVIOUS
<1>3. PICK id : id = IF f.new THEN lastRecord + 1 ELSE f.rec
  OBVIOUS
<1>4. PICK target : /\ f.new => target \in {0, id}
                    /\ ~f.new => target = found.rec
                    /\ target = IF f.new THEN (IF f.new /\ dialect = "postgres, long name" THEN 0 ELSE id)
                                         ELSE found.rec
  OBVIOUS
<1>5. PICK place : place = IF found.there THEN TagsOn(found.body) ELSE "finish"
  OBVIOUS
<1>6. PICK after : after = [f EXCEPT !.rec = id, !.see = found, !.target = target, !.at = place]
  OBVIOUS
<1>7. /\ f.at = "statement" /\ Becomes(w, after)
      /\ lastRecord' = IF f.new THEN id ELSE lastRecord
      /\ records' = IF f.new THEN records \cup {id} ELSE records
      /\ UNCHANGED <<tagged, parent, partnered, context, shared, contended>>
  BY <1>1, <1>2, <1>3, <1>4, <1>5, <1>6 DEF Statement, WriteAt
<1>8. /\ f \in Write /\ f.new \in BOOLEAN /\ f.rec \in Nat /\ f.on \in Server /\ found \in Context
      /\ found.rec \in Nat /\ found.body \in Body /\ found.there \in BOOLEAN /\ lastRecord \in Nat
      /\ w \in Busy
  <2>1. /\ f \in Write /\ f.on \in Server /\ context \in [Server -> Context] /\ lastRecord \in Nat
        /\ f.new \in BOOLEAN /\ f.rec \in Nat
    BY <1>1, <1>7, WriteFields DEF WritesInv, Typed
  <2>2. found \in Context
    BY <1>2, <2>1
  <2> QED BY <1>1, <1>7, <2>1, <2>2 DEF Context, Busy, WriteAt
<1>9. place \in Place /\ place \in {"untag", "select", "create", "finish"}
  BY <1>5, <1>8, NextPlaces DEF Place
<1>10. id \in Nat /\ target \in Nat
  <2>1. id \in Nat
    BY <1>3, <1>8
  <2> QED BY <1>4, <1>8, <2>1
<1>11. /\ after \in Write /\ after.rec = id /\ after.see = found /\ after.target = target
       /\ after.at = place /\ after.on = f.on /\ after.body = f.body /\ after.made = f.made
  BY <1>6, <1>8, <1>9, <1>10 DEF Write
<1>12. /\ write' \in [Writes -> Write] /\ write'[w] = after
       /\ \A v \in Writes : v # w => write'[v] = write[v]
  BY <1>7, <1>11, WriteSet DEF WritesInv
<1>13. lastRecord' \in Nat /\ lastRecord <= lastRecord'
  BY <1>3, <1>7, <1>8
<1>14. Typed'
  <2>1. \A v \in Writes : write'[v].at # "idle" => write'[v].on \in Server
    BY <1>8, <1>11, <1>12 DEF WritesInv, Typed
  <2>2. records' \subseteq Nat
    BY <1>7, <1>10 DEF WritesInv, Typed
  <2> QED BY <1>7, <1>12, <1>13, <2>1, <2>2 DEF WritesInv, Typed, Children
<1>15. ASSUME ~shared', ~contended' PROVE Peaceful'
  <2>1. ~shared /\ ~contended
    BY <1>7, <1>15
  <2>2. /\ records \subseteq 1 .. lastRecord /\ \A k \in Children : parent[k] <= lastRecord
        /\ InOrder(f)
        /\ \A u \in Busy : u # w => write[u].on # f.on /\ ~Contend(f, write[u])
    BY <1>1, <1>8, <2>1, BusyIs
  <2>3. /\ f.rec <= lastRecord /\ f.body \in Bodies /\ f.made = {}
        /\ found.rec = f.rec /\ found.body = f.body /\ found.there
        /\ IF f.new THEN f.rec = 0 ELSE f.rec \in records
    BY <1>2, <1>7, <2>2 DEF InOrder, Prepared
  <2>4. /\ id \in records' /\ id <= lastRecord' /\ id \in Nat /\ id # 0
        /\ records' \subseteq 1 .. lastRecord' /\ records \subseteq records'
        /\ target = id \/ target = 0
    <3>1. CASE f.new
      <4>1. id = lastRecord + 1 /\ records' = records \cup {id} /\ lastRecord' = id
        BY <1>3, <1>7, <3>1
      <4>2. records \subseteq 1 .. id
        BY <1>8, <2>2, <4>1
      <4>3. id \in Nat /\ id # 0 /\ id <= id /\ id \in 1 .. id
        BY <1>8, <4>1
      <4>4. records' \subseteq 1 .. id
        BY <4>1, <4>2, <4>3
      <4> QED BY <1>4, <3>1, <4>1, <4>3, <4>4
    <3>2. CASE ~f.new
      BY <1>3, <1>4, <1>7, <1>8, <2>2, <2>3, <3>2
    <3> QED BY <3>1, <3>2
  <2>5. IF f.new THEN Kids(id) = {} ELSE Kids(id) = Kids(f.rec)
    <3>1. CASE ~f.new
      BY <1>3, <3>1
    <3>2. CASE f.new
      <4>1. DOMAIN parent = Children /\ \A k \in Children : parent[k] \in Nat
        BY DEF WritesInv, Typed
      <4>2. \A k \in DOMAIN parent : parent[k] # id
        BY <1>3, <1>8, <2>2, <3>2, <4>1
      <4> QED BY <3>2, <4>2 DEF Kids
    <3> QED BY <3>1, <3>2
  <2>6. Touched(after) \subseteq Touched(f)
    <3>1. ~f.new => id = f.rec
      BY <1>3
    <3>2. Touched(after) = f.body.kids \cup Kids(id)
      BY <1>11, <2>4, TouchedIs
    <3> QED BY <2>5, <3>1, <3>2, <2>4, TouchedIs
  <2>7. ASSUME NEW u \in Busy, u # w
        PROVE  /\ context'[write[u].on] = context[write[u].on]
               /\ write[u].on # after.on /\ ~Contend(after, write[u])
    <3>1. PICK g : g = write[u] /\ g.rec <= lastRecord /\ g.rec \in Nat /\ g.on # f.on
                   /\ ~Contend(f, g)
      <4>1. InOrder(write[u]) /\ write[u].rec \in Nat
        BY <2>1, BusyIs
      <4> QED BY <2>2, <2>7, <4>1 DEF InOrder
    <3>2. g.rec # id
      <4>1. CASE f.new
        BY <1>3, <1>8, <3>1, <4>1
      <4>2. CASE ~f.new
        BY <1>3, <2>4, <3>1, <4>2 DEF Contend
      <4> QED BY <4>1, <4>2
    <3>3. ~Contend(after, g)
      BY <1>11, <2>6, <3>1, <3>2 DEF Contend
    <3> QED BY <1>7, <1>11, <3>1, <3>3
  <2>8. InOrder(after)'
    <3>1. Cascading(after)'
      BY <1>9, <1>11, <2>3, <2>4 DEF Cascading
    <3>2. Relating(after)'
      BY <1>5, <1>8, <1>9, <1>11, <2>3, NextPlaces DEF Relating
    <3> QED BY <1>9, <1>11, <2>3, <2>4, <3>1, <3>2 DEF InOrder
  <2>9. after.at # "idle"
    BY <1>9, <1>11
  <2> QED BY <1>7, <1>11, <1>12, <1>13, <2>1, <2>4, <2>7, <2>8, <2>9, OneRequest
<1> QED BY <1>14, <1>15 DEF WritesInv, Peaceful

-----------------------------------------------------------------------------
LEMMA InitWrites == WritesInit => WritesInv
<1> SUFFICES ASSUME WritesInit PROVE WritesInv
  OBVIOUS
<1>1. /\ records = {} /\ tagged = {} /\ parent = [k \in FirstKids |-> 0]
      /\ context = [s \in Server |-> NoContext] /\ write = [w \in Writes |-> Unwritten]
      /\ shared = FALSE /\ contended = FALSE /\ lastRecord = 0
  BY DEF WritesInit
<1>2. PICK n \in 0 .. MaxKids : FirstKids = 1 .. n
  BY CascadeAssumption
<1>3. n \in Nat
  BY <1>2, CascadeAssumption
<1>4. IsFiniteSet(1 .. n) /\ Cardinality(1 .. n) = n
  BY <1>3, FS_Interval
<1>5. DOMAIN parent = 1 .. n /\ Children = 1 .. n
  BY <1>1, <1>2, <1>4 DEF Children
<1>6. parent \in [Children -> Nat] /\ \A k \in Children : parent[k] <= lastRecord
  BY <1>1, <1>2, <1>5
<1>7. shared \in BOOLEAN /\ contended \in BOOLEAN
  BY <1>1, Zenon
<1>8. \A w \in Writes : write[w].at = "idle"
  BY <1>1, IdleIs
<1>9. Typed
  BY <1>1, <1>2, <1>4, <1>5, <1>6, <1>7, <1>8, IdleIs DEF Typed
<1>10. Busy = {}
  BY <1>8 DEF Busy, WriteAt
<1>11. Peaceful
  BY <1>1, <1>6, <1>10 DEF Peaceful, Apart
<1> QED BY <1>9, <1>11 DEF WritesInv

LEMMA NextWrites == ASSUME WritesInv, [WritesNext]_writeVars PROVE WritesInv'
<1>1. ASSUME NEW w \in Writes, NEW s \in Server, NEW r \in records \cup {0}, NEW b \in Bodies,
             BeginWrite(w, s, r, b)
      PROVE  WritesInv'
  BY <1>1, BeginStep
<1>2. ASSUME NEW w \in Writes, Statement(w) PROVE WritesInv'
  BY <1>2, StatementStep
<1>3. ASSUME NEW w \in Writes, Untag(w) \/ Tag(w) PROVE WritesInv'
  BY <1>3, UntagStep, TagStep
<1>4. ASSUME NEW w \in Writes, SelectKids(w) \/ FreeKids(w) \/ PutKid(w) \/ NewKid(w) \/ KidsDone(w)
      PROVE  WritesInv'
  BY <1>4, SelectStep, FreeStep, PutStep, NewStep, DoneStep
<1>5. ASSUME NEW w \in Writes, CreateOne(w) \/ LinkOne(w) PROVE WritesInv'
  BY <1>5, OneStep
<1>6. ASSUME NEW w \in Writes, FinishWrite(w) \/ WriteFailed(w) PROVE WritesInv'
  BY <1>6, EndStep
<1>7. ASSUME NEW s \in Server, CrashServer(s) PROVE WritesInv'
  BY <1>7, CrashStep
<1>8. ASSUME NEW r \in records, DeleteRecord(r) PROVE WritesInv'
  BY <1>8, DeleteStep
<1>9. CASE UNCHANGED writeVars
  <2>1. UNCHANGED <<records, tagged, parent, partnered, context, write, shared, contended, lastRecord>>
    BY <1>9 DEF writeVars
  <2>2. Typed'
    BY <2>1 DEF WritesInv, Typed, Children
  <2>3. /\ Busy' = Busy /\ Children' = Children
        /\ \A r : TagsOf(r)' = TagsOf(r) /\ Kids(r)' = Kids(r)
    BY <2>1 DEF Busy, WriteAt, Children, TagsOf, Kids
  <2>4. ~shared /\ ~contended => \A k \in Children' : parent'[k] <= lastRecord
    BY <2>1, <2>3, BusyIs
  <2>5. Peaceful'
    BY <2>1, <2>3, <2>4, FewerRequests
  <2> QED BY <2>2, <2>5 DEF WritesInv
<1> QED BY <1>1, <1>2, <1>3, <1>4, <1>5, <1>6, <1>7, <1>8, <1>9 DEF WritesNext

LEMMA InvIsSynced == WritesInv => WritesAreSynced
<1> SUFFICES ASSUME WritesInv, ~shared, ~contended, NEW w \in Writes, WriteAt(w, "finish")
             PROVE  Synced(w)
  BY DEF WritesAreSynced
<1>1. w \in Busy /\ write[w].at = "finish"
  BY DEF Busy, WriteAt
<1>2. PICK f : f = write[w] /\ InOrder(f) /\ f.at = "finish"
  BY <1>1, BusyIs
<1>3. Relating(f)
  BY <1>2 DEF InOrder
<1>4. /\ f.body.tags # {} => {p[2] : p \in TagsOf(f.rec)} = f.body.tags
      /\ f.body.kids # {} \/ f.body.born =>
           Kids(f.rec) = f.body.kids \cup f.made /\ (f.body.born => f.made # {})
      /\ f.body.one => f.rec \in partnered
  BY <1>2, <1>3 DEF Relating
<1> QED BY <1>2, <1>4 DEF Synced, TagsOf, Kids

(***************************************************************************)
(* For any number of processes, requests, records, tags and children: when *)
(* no two requests share a process, a record or a child, one that comes to *)
(* its end has stored every relation of its body as a whole, whatever has  *)
(* failed or crashed before it (handleCascadeRelations()).                 *)
(***************************************************************************)
THEOREM WritesSynced == WritesSpec => []WritesAreSynced
<1>1. WritesInit => WritesInv
  BY InitWrites
<1>2. WritesInv /\ [WritesNext]_writeVars => WritesInv'
  BY NextWrites
<1>3. WritesInv => WritesAreSynced
  BY InvIsSynced
<1> QED BY <1>1, <1>2, <1>3, PTL DEF WritesSpec

-----------------------------------------------------------------------------
(***************************************************************************)
(* Rows of the junction table, of the children and of the partner refer to *)
(* records that there are.                                                 *)
(***************************************************************************)
RowsRefer ==
    /\ records \subseteq 1 .. lastRecord /\ lastRecord \in 0 .. MaxRecords
    /\ tagged \subseteq records \X Tags /\ partnered \subseteq records
    /\ DOMAIN parent \subseteq Kid /\ \A k \in DOMAIN parent : parent[k] \in records \cup {0}

RequestsKnown ==
    /\ \A s \in Server : context[s].rec \in 0 .. lastRecord
    /\ \A w \in Writes : write[w].body \in Bodies \cup {NoBodyOf}
    /\ written \in Nat /\ flaws \in Nat

LEMMA TypeParts == ASSUME Typed PROVE WritesTypeOK <=> RowsRefer /\ RequestsKnown
<1>1. /\ \A s \in Server : context[s].body \in Body
      /\ \A w \in Writes : write[w].on \in Server \cup {NoServer}
  BY WriteFields DEF Typed, Context
<1>2. {shared, contended} \subseteq BOOLEAN
  BY Zenon DEF Typed
<1>3. {written, flaws} \subseteq Nat <=> written \in Nat /\ flaws \in Nat
  OBVIOUS
<1> QED BY <1>1, <1>2, <1>3 DEF WritesTypeOK, RowsRefer, RequestsKnown

LEMMA RowsStill ==
    ASSUME RowsRefer, UNCHANGED <<records, tagged, parent, partnered, lastRecord>>
    PROVE  RowsRefer'
  BY DEF RowsRefer, Kid

\* A child that goes to a record, or to none.
LEMMA ParentsRefer ==
    ASSUME RowsRefer, UNCHANGED <<records, tagged, partnered, lastRecord>>, DOMAIN parent' \subseteq Kid,
           \A k \in DOMAIN parent' : \/ k \in DOMAIN parent /\ parent'[k] = parent[k]
                                     \/ parent'[k] \in records \cup {0}
    PROVE  RowsRefer'
  BY DEF RowsRefer

LEMMA RowsStep ==
    ASSUME WritesInv, RowsRefer, WritesNext
    PROVE  RowsRefer'
<1>1. ASSUME NEW w \in Writes, NEW s \in Server, NEW r \in records \cup {0}, NEW b \in Bodies,
             BeginWrite(w, s, r, b)
      PROVE  RowsRefer'
  BY <1>1, RowsStill DEF BeginWrite, Data
<1>2. ASSUME NEW w \in Writes, Statement(w) PROVE RowsRefer'
  <2>1. /\ \/ UNCHANGED <<records, lastRecord>>
           \/ /\ lastRecord < MaxRecords /\ lastRecord' = lastRecord + 1
              /\ records' = records \cup {lastRecord + 1}
        /\ UNCHANGED <<tagged, parent, partnered>>
    BY <1>2 DEF Statement
  <2>2. MaxRecords \in Nat
    BY CascadeAssumption
  <2>3. lastRecord' \in 0 .. MaxRecords /\ records' \subseteq 1 .. lastRecord' /\ records \subseteq records'
    <3>1. lastRecord \in Nat /\ lastRecord \in 0 .. MaxRecords /\ records \subseteq 1 .. lastRecord
      BY DEF RowsRefer, WritesInv, Typed
    <3>2. CASE UNCHANGED <<records, lastRecord>>
      BY <3>1, <3>2
    <3>3. CASE lastRecord' = lastRecord + 1
      <4>1. lastRecord < MaxRecords /\ records' = records \cup {lastRecord'}
        BY <2>1, <3>1, <3>3
      <4>2. lastRecord' \in 0 .. MaxRecords /\ records \subseteq 1 .. lastRecord' /\ lastRecord' \in 1 .. lastRecord'
        BY <2>2, <3>1, <3>3, <4>1
      <4> QED BY <4>1, <4>2
    <3> QED BY <2>1, <3>2, <3>3
  <2>4. tagged' \subseteq records' \X Tags /\ partnered' \subseteq records'
    BY <2>1, <2>3 DEF RowsRefer
  <2>5. DOMAIN parent' \subseteq Kid /\ \A k \in DOMAIN parent' : parent'[k] \in records' \cup {0}
    BY <2>1, <2>3 DEF RowsRefer
  <2> QED BY <2>3, <2>4, <2>5 DEF RowsRefer, Kid
<1>3. ASSUME NEW w \in Writes, Untag(w) PROVE RowsRefer'
  <2>1. tagged' \subseteq tagged /\ UNCHANGED <<records, parent, partnered, lastRecord>>
    BY <1>3 DEF Untag, Untagged, Cascades, Past
  <2> QED BY <2>1 DEF RowsRefer, Kid
<1>4. ASSUME NEW w \in Writes, Tag(w) PROVE RowsRefer'
  <2>1. /\ ~Doomed(w) /\ write[w].at = "tag" /\ See(w) \in Body
        /\ tagged' = tagged \cup ({write[w].target} \X See(w).tags)
        /\ UNCHANGED <<records, parent, partnered, lastRecord>>
    BY <1>4, CascadesIs DEF Tag, Place
  <2>2. write[w].target \in records /\ See(w).tags \subseteq Tags
    BY <2>1, BodyFields DEF Doomed
  <2> QED BY <2>1, <2>2 DEF RowsRefer, Kid
<1>5. ASSUME NEW w \in Writes, FreeKids(w) PROVE RowsRefer'
  <2>1. /\ parent' = [k \in DOMAIN parent |-> IF k \in write[w].old THEN 0 ELSE parent[k]]
        /\ UNCHANGED <<records, tagged, partnered, lastRecord>>
    BY <1>5 DEF FreeKids, Cascades, Past
  <2> QED BY <2>1, ParentsRefer DEF RowsRefer
<1>6. ASSUME NEW w \in Writes, PutKid(w) PROVE RowsRefer'
  <2>1. PICK k \in write[w].todo : parent' = [parent EXCEPT ![k] = write[w].target]
    BY <1>6 DEF PutKid
  <2>2. ~Doomed(w) /\ write[w].at = "put" /\ UNCHANGED <<records, tagged, partnered, lastRecord>>
    BY <1>6 DEF PutKid, Cascades, WriteAt, Past
  <2>3. write[w].target \in records
    BY <2>1, <2>2 DEF Doomed
  <2>4. parent \in [DOMAIN parent -> Nat]
    BY DEF WritesInv, Typed
  <2> QED BY <2>1, <2>2, <2>3, <2>4, ParentsRefer DEF RowsRefer
<1>7. ASSUME NEW w \in Writes, NewKid(w) PROVE RowsRefer'
  <2>1. PICK n : n = Cardinality(DOMAIN parent)
    OBVIOUS
  <2>2. /\ ~Doomed(w) /\ write[w].at = "put" /\ See(w).born /\ write[w].made = {} /\ n < MaxKids
        /\ parent' = [j \in DOMAIN parent \cup {n + 1} |->
                        IF j = n + 1 THEN write[w].target ELSE parent[j]]
        /\ UNCHANGED <<records, tagged, partnered, lastRecord>>
    BY <1>7, <2>1 DEF NewKid, Cascades, WriteAt, Past
  <2>3. write[w].target \in records
    BY <2>2 DEF Doomed, See
  <2>4. n + 1 \in Kid
    BY <2>1, <2>2, ChildrenAre, CascadeAssumption DEF WritesInv, Kid
  <2> QED BY <2>2, <2>3, <2>4, ParentsRefer DEF RowsRefer
<1>8. ASSUME NEW w \in Writes, LinkOne(w) PROVE RowsRefer'
  <2>1. /\ partnered' = partnered \cup ({write[w].target} \cap records)
        /\ UNCHANGED <<records, tagged, parent, lastRecord>>
    BY <1>8 DEF LinkOne, Cascades, Past
  <2> QED BY <2>1 DEF RowsRefer, Kid
<1>9. ASSUME NEW w \in Writes, SelectKids(w) \/ KidsDone(w) \/ CreateOne(w) PROVE RowsRefer'
  BY <1>9, RowsStill DEF SelectKids, KidsDone, CreateOne, Cascades, Data, Past
<1>10. ASSUME NEW w \in Writes, FinishWrite(w) \/ WriteFailed(w) PROVE RowsRefer'
  BY <1>10, RowsStill DEF FinishWrite, WriteFailed, Data, Past
<1>11. ASSUME NEW s \in Server, CrashServer(s) PROVE RowsRefer'
  BY <1>11, RowsStill DEF CrashServer, Data, Past
<1>12. ASSUME NEW r \in records, DeleteRecord(r) PROVE RowsRefer'
  <2>1. /\ records' = records \ {r} /\ tagged' = {p \in tagged : p[1] # r}
        /\ parent' = [k \in DOMAIN parent |-> IF parent[k] = r THEN 0 ELSE parent[k]]
        /\ partnered' = partnered \ {r} /\ lastRecord' = lastRecord
    BY <1>12 DEF DeleteRecord
  <2>2. tagged' \subseteq records' \X Tags
    BY <2>1 DEF RowsRefer
  <2> QED BY <2>1, <2>2 DEF RowsRefer, Kid
<1> QED BY <1>1, <1>2, <1>3, <1>4, <1>5, <1>6, <1>7, <1>8, <1>9, <1>10, <1>11, <1>12 DEF WritesNext

\* Requests that go on, begin or end, and what they leave in the map.
LEMMA KnownStill ==
    ASSUME WritesInv, RequestsKnown, lastRecord' \in Nat, lastRecord <= lastRecord',
           \A s \in Server : context'[s] = context[s] \/ context'[s].rec \in 0 .. lastRecord,
           \A w \in Writes : write'[w].body \in {write[w].body, NoBodyOf} \cup Bodies,
           written' \in Nat, flaws' \in Nat
    PROVE  RequestsKnown'
<1>1. lastRecord \in Nat
  BY DEF WritesInv, Typed
<1>2. \A s \in Server : context'[s].rec \in 0 .. lastRecord
  BY DEF RequestsKnown
<1> QED BY <1>1, <1>2 DEF RequestsKnown

LEMMA MapStill ==
    ASSUME WritesInv, RequestsKnown, UNCHANGED <<context, lastRecord, written>>, flaws' \in {flaws, flaws + 1},
           \A w \in Writes : write'[w].body \in {write[w].body, NoBodyOf}
    PROVE  RequestsKnown'
<1>1. lastRecord \in Nat /\ lastRecord <= lastRecord
  BY DEF WritesInv, Typed
<1>2. written \in Nat /\ flaws' \in Nat
  BY DEF RequestsKnown
<1> QED BY <1>1, <1>2, KnownStill

LEMMA RequestsStep ==
    ASSUME WritesInv, RowsRefer, RequestsKnown, WritesNext
    PROVE  RequestsKnown'
<1>1. /\ write \in [Writes -> Write] /\ context \in [Server -> Context] /\ lastRecord \in Nat
      /\ lastRecord <= lastRecord /\ written \in Nat /\ flaws \in Nat
  BY DEF WritesInv, Typed, RequestsKnown
<1>2. ASSUME NEW w \in Writes, NEW s \in Server, NEW r \in records \cup {0}, NEW b \in Bodies,
             BeginWrite(w, s, r, b)
      PROVE  RequestsKnown'
  <2>1. PICK f : /\ f = [Unwritten EXCEPT !.at = "statement", !.on = s, !.new = r = 0, !.rec = r,
                                          !.body = b]
                 /\ write' = [write EXCEPT ![w] = f]
    BY <1>2 DEF BeginWrite, Becomes
  <2>2. /\ context' = [context EXCEPT ![s] = [rec |-> r, body |-> b, there |-> TRUE]]
        /\ written' = written + 1 /\ UNCHANGED <<lastRecord, flaws>>
    BY <1>2 DEF BeginWrite, WithContext
  <2>3. f.body = b
    BY <2>1 DEF Unwritten
  <2>4. \A v \in Writes : write'[v].body \in {write[v].body, NoBodyOf} \cup Bodies
    BY <1>1, <2>1, <2>3
  <2>5. r \in 0 .. lastRecord
    BY <1>1 DEF RowsRefer
  <2>6. \A t \in Server : context'[t] = context[t] \/ context'[t].rec \in 0 .. lastRecord
    BY <1>1, <2>2, <2>5
  <2> QED BY <1>1, <2>2, <2>4, <2>6, KnownStill
<1>3. ASSUME NEW w \in Writes, Statement(w) PROVE RequestsKnown'
  <2>1. PICK id, see, target, place :
           Becomes(w, [write[w] EXCEPT !.rec = id, !.see = see, !.target = target, !.at = place])
    BY <1>3 DEF Statement
  <2>2. /\ lastRecord' \in Nat /\ lastRecord <= lastRecord'
        /\ UNCHANGED <<context, written, flaws>>
    BY <1>1, <1>3 DEF Statement
  <2>3. \A v \in Writes : write'[v].body = write[v].body
    BY <1>1, <2>1 DEF Becomes, Write
  <2> QED BY <1>1, <2>2, <2>3, KnownStill
<1>4. ASSUME NEW w \in Writes,
             \/ Untag(w) \/ Tag(w) \/ SelectKids(w) \/ FreeKids(w) \/ PutKid(w)
             \/ NewKid(w) \/ KidsDone(w) \/ CreateOne(w) \/ LinkOne(w)
      PROVE  RequestsKnown'
  <2>1. UNCHANGED <<context, lastRecord, written, flaws>>
    BY <1>4 DEF Untag, Tag, SelectKids, FreeKids, PutKid, NewKid, KidsDone, CreateOne, LinkOne,
                Cascades, Past
  <2>2. \E f : write' = [write EXCEPT ![w] = f] /\ f.body = write[w].body
    <3> DEFINE x == write[w]
    <3>5. x \in Write
      BY <1>1
    <3>6. \A place, old, todo, made :
             /\ [x EXCEPT !.at = place].body = x.body
             /\ [x EXCEPT !.at = place, !.old = old, !.todo = todo].body = x.body
             /\ [x EXCEPT !.todo = todo].body = x.body /\ [x EXCEPT !.made = made].body = x.body
      BY <3>5 DEF Write
    <3>1. CASE Untag(w) \/ Tag(w) \/ FreeKids(w) \/ KidsDone(w) \/ CreateOne(w) \/ LinkOne(w)
      BY <3>1, <3>6 DEF Untag, Tag, FreeKids, KidsDone, CreateOne, LinkOne, Onto, Becomes
    <3>2. CASE SelectKids(w)
      <4>1. PICK has :
               write' = [write EXCEPT ![w] =
                           [x EXCEPT !.at = IF has \subseteq See(w).kids THEN "put" ELSE "free",
                                     !.old = has \ See(w).kids, !.todo = See(w).kids]]
        BY <3>2 DEF SelectKids, Becomes
      <4>2. PICK place : place = IF has \subseteq See(w).kids THEN "put" ELSE "free"
        OBVIOUS
      <4> HIDE DEF x
      <4>3. PICK f : f = [x EXCEPT !.at = place, !.old = has \ See(w).kids, !.todo = See(w).kids]
        OBVIOUS
      <4>4. f.body = x.body
        BY <3>6, <4>3
      <4>5. write' = [write EXCEPT ![w] = f]
        BY <4>1, <4>2, <4>3
      <4> QED BY <4>4, <4>5 DEF x
    <3>3. CASE PutKid(w)
      BY <3>3, <3>6 DEF PutKid, Becomes
    <3>4. CASE NewKid(w)
      BY <3>4, <3>6 DEF NewKid, Becomes
    <3> QED BY <1>4, <3>1, <3>2, <3>3, <3>4
  <2>3. \A v \in Writes : write'[v].body = write[v].body
    BY <1>1, <2>2
  <2> QED BY <2>1, <2>3, MapStill
<1>5. ASSUME NEW w \in Writes, FinishWrite(w) \/ WriteFailed(w) PROVE RequestsKnown'
  <2>1. /\ write' = [write EXCEPT ![w] = Unwritten] /\ UNCHANGED <<lastRecord, written>>
        /\ flaws' \in {flaws, flaws + 1}
        /\ context' \in {context, [context EXCEPT ![write[w].on] = NoContext]}
    BY <1>5 DEF FinishWrite, WriteFailed, Becomes, Past
  <2>2. \A v \in Writes : write'[v].body \in {write[v].body, NoBodyOf}
    BY <1>1, <2>1 DEF Unwritten
  <2>3. \A t \in Server : context'[t] = context[t] \/ context'[t].rec \in 0 .. lastRecord
    BY <1>1, <2>1 DEF NoContext
  <2> QED BY <1>1, <2>1, <2>2, <2>3, KnownStill
<1>6. ASSUME NEW s \in Server, CrashServer(s) PROVE RequestsKnown'
  <2>1. /\ write' = [w \in Writes |-> IF write[w].on = s THEN Unwritten ELSE write[w]]
        /\ context' = [context EXCEPT ![s] = NoContext] /\ flaws' = flaws + 1
        /\ UNCHANGED <<lastRecord, written>>
    BY <1>6 DEF CrashServer, Past
  <2>2. \A v \in Writes : write'[v].body \in {write[v].body, NoBodyOf}
    BY <1>1, <2>1 DEF Unwritten
  <2>3. \A t \in Server : context'[t] = context[t] \/ context'[t].rec \in 0 .. lastRecord
    BY <1>1, <2>1 DEF NoContext
  <2> QED BY <1>1, <2>1, <2>2, <2>3, KnownStill
<1>7. ASSUME NEW r \in records, DeleteRecord(r) PROVE RequestsKnown'
  <2>1. UNCHANGED <<context, write, lastRecord, flaws>> /\ written' = written + 1
    BY <1>7 DEF DeleteRecord
  <2> QED BY <2>1 DEF RequestsKnown
<1> QED BY <1>2, <1>3, <1>4, <1>5, <1>6, <1>7 DEF WritesNext

(***************************************************************************)
(* Whatever requests overlap, fail or crash: rows of the junction table,   *)
(* of the children and of the partner refer to records that there are, and *)
(* the map holds relations of records that there are or have been.         *)
(***************************************************************************)
THEOREM WritesTypeCorrect == WritesSpec => []WritesTypeOK
<1> DEFINE Inv == WritesInv /\ RowsRefer /\ RequestsKnown
<1>1. WritesInit => Inv
  <2> SUFFICES ASSUME WritesInit PROVE Inv
    OBVIOUS
  <2>1. WritesInv
    BY InitWrites
  <2>2. PICK n \in 0 .. MaxKids : FirstKids = 1 .. n
    BY CascadeAssumption
  <2>3. MaxKids \in Nat /\ MaxRecords \in Nat
    BY CascadeAssumption
  <2>4. RowsRefer
    <3>1. /\ records = {} /\ tagged = {} /\ partnered = {} /\ lastRecord = 0
          /\ parent = [k \in 1 .. n |-> 0]
      BY <2>2 DEF WritesInit
    <3>2. 1 .. n \subseteq 1 .. MaxKids /\ 0 \in 0 .. MaxRecords
      BY <2>3
    <3> QED BY <3>1, <3>2 DEF RowsRefer, Kid
  <2>5. RequestsKnown
    <3>1. /\ \A s \in Server : context[s] = NoContext
          /\ \A w \in Writes : write[w] = Unwritten
          /\ lastRecord = 0 /\ written = 0 /\ flaws = 0
      BY DEF WritesInit
    <3>2. NoContext.rec = 0 /\ Unwritten.body = NoBodyOf
      BY DEF NoContext, Unwritten
    <3> QED BY <3>1, <3>2 DEF RequestsKnown
  <2> QED BY <2>1, <2>4, <2>5
<1>2. Inv /\ [WritesNext]_writeVars => Inv'
  <2> SUFFICES ASSUME Inv, [WritesNext]_writeVars PROVE Inv'
    OBVIOUS
  <2>1. WritesInv'
    BY NextWrites
  <2>2. CASE WritesNext
    BY <2>1, <2>2, RowsStep, RequestsStep
  <2>3. CASE UNCHANGED writeVars
    BY <2>1, <2>3, RowsStill DEF writeVars, RequestsKnown
  <2> QED BY <2>2, <2>3
<1>3. Inv => WritesTypeOK
  BY TypeParts DEF WritesInv
<1> QED BY <1>1, <1>2, <1>3, PTL DEF WritesSpec
=============================================================================
