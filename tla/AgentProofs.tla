---------------------------- MODULE AgentProofs ----------------------------
EXTENDS MCAgent, FiniteSetTheorems, WellFoundedInduction, TLAPS
(***************************************************************************)
(* The elements of a finite set of numbers are ranked from 1 on, without   *)
(* gaps, and in their order.                                               *)
(***************************************************************************)
LEMMA RanksAre ==
    ASSUME NEW n \in Nat, NEW P \in SUBSET (1 .. n)
    PROVE  /\ IsFiniteSet(P) /\ Cardinality(P) \in Nat
           /\ \A i \in P : Rank(P, i) \in 1 .. Cardinality(P) /\ Rank(P, i) <= i
           /\ \A i, j \in P : i < j => Rank(P, i) < Rank(P, j)
           /\ \A k \in 1 .. Cardinality(P) : Nth(P, k) \in P /\ Rank(P, Nth(P, k)) = k
           /\ \A i \in P : Nth(P, Rank(P, i)) = i
<1>1. IsFiniteSet(P) /\ Cardinality(P) \in Nat
  <2>1. IsFiniteSet(1 .. n)
    BY FS_Interval
  <2>2. IsFiniteSet(P)
    BY <2>1, FS_Subset
  <2> QED BY <2>2, FS_CardinalityType
<1>0. \A i \in P : i \in Nat /\ 1 <= i
  OBVIOUS
<1> DEFINE below(i) == {j \in P : j <= i}
<1>2. ASSUME NEW i \in P PROVE /\ IsFiniteSet(below(i)) /\ Rank(P, i) = Cardinality(below(i))
                               /\ Rank(P, i) \in 1 .. Cardinality(P) /\ Rank(P, i) <= i
  <2>1. /\ IsFiniteSet(below(i)) /\ Cardinality(below(i)) <= Cardinality(P)
    BY <1>1, FS_Subset
  <2>2. Cardinality(below(i)) \in Nat
    BY <2>1, FS_CardinalityType
  <2>3. Cardinality(below(i)) # 0
    BY <2>1, FS_EmptySet
  <2>4. Cardinality(below(i)) <= i
    <3>1. IsFiniteSet(1 .. i) /\ Cardinality(1 .. i) = i
      BY FS_Interval
    <3>2. \A j \in below(i) : j \in 1 .. i
      BY <1>0
    <3>3. below(i) \subseteq 1 .. i
      BY <3>2
    <3> QED BY <3>1, <3>3, FS_Subset
  <2>5. Rank(P, i) = Cardinality(below(i))
    BY DEF Rank
  <2> HIDE DEF below
  <2> QED BY <1>1, <2>1, <2>2, <2>3, <2>4, <2>5
<1>3. ASSUME NEW i \in P, NEW j \in P, i < j PROVE Rank(P, i) < Rank(P, j)
  <2>1. below(i) \in SUBSET below(j) /\ j \in below(j) /\ j \notin below(i)
    <3>1. \A m \in below(i) : m \in below(j)
      BY <1>0, <1>3
    <3>2. j \in below(j) /\ j \notin below(i)
      BY <1>0, <1>3
    <3> QED BY <3>1, <3>2
  <2>2. /\ Cardinality(below(i)) <= Cardinality(below(j))
        /\ Cardinality(below(i)) # Cardinality(below(j))
    BY <1>2, <2>1, FS_Subset
  <2>3. Rank(P, i) = Cardinality(below(i)) /\ Rank(P, j) = Cardinality(below(j))
    BY DEF Rank
  <2> HIDE DEF below
  <2>4. Rank(P, i) \in Nat /\ Rank(P, j) \in Nat
    BY <1>1, <1>2
  <2> QED BY <2>2, <2>3, <2>4
<1>4. ASSUME NEW k \in 1 .. Cardinality(P) PROVE \E i \in P : Rank(P, i) = k
  <2> DEFINE f == [i \in P |-> Rank(P, i)]
             K == 1 .. Cardinality(P)
  <2>1. IsFiniteSet(K) /\ Cardinality(K) = Cardinality(P)
    BY <1>1, FS_Interval
  <2>2. f \in [P -> K]
    BY <1>2
  <2>3. \A i, j \in P : f[i] = f[j] => i = j
    <3> HIDE DEF below
    <3>1. SUFFICES ASSUME NEW i \in P, NEW j \in P, Rank(P, i) = Rank(P, j) PROVE i = j
      OBVIOUS
    <3>2. Rank(P, i) \in Nat /\ Rank(P, j) \in Nat /\ i \in Nat /\ j \in Nat
      BY <1>0, <1>1, <1>2
    <3>3. ~(i < j) /\ ~(j < i)
      BY <1>3, <3>1, <3>2
    <3> QED BY <3>2, <3>3
  <2>4. f \in Injection(P, K)
    BY <2>2, <2>3 DEF Injection, IsInjective
  <2>5. f \in Surjection(P, K)
    BY <2>1, <2>4, FS_Injection
  <2>6. \E i \in P : f[i] = k
    BY <2>5 DEF Surjection
  <2> QED BY <2>6
<1>5. ASSUME NEW k \in 1 .. Cardinality(P) PROVE Nth(P, k) \in P /\ Rank(P, Nth(P, k)) = k
  BY <1>4 DEF Nth
<1>6. ASSUME NEW i \in P PROVE Nth(P, Rank(P, i)) = i
  <2>1. PICK m \in P : m = Nth(P, Rank(P, i)) /\ Rank(P, m) = Rank(P, i)
    BY <1>2, <1>5
  <2>2. i \in Nat /\ m \in Nat /\ Rank(P, i) \in Nat
    <3> HIDE DEF below
    <3> QED BY <1>0, <1>1, <1>2
  <2>3. ~(i < m) /\ ~(m < i)
    BY <1>3, <2>1, <2>2
  <2> QED BY <2>1, <2>2, <2>3
<1> QED BY <1>1, <1>2, <1>3, <1>5, <1>6

LEMMA SubsequenceIs ==
    ASSUME NEW S, NEW s \in Seq(S), NEW P \in SUBSET (1 .. Len(s))
    PROVE  /\ Subsequence(s, P) \in Seq(S)
           /\ Len(Subsequence(s, P)) = Cardinality(P) /\ Cardinality(P) \in Nat
           /\ \A k \in 1 .. Cardinality(P) :
                 /\ Nth(P, k) \in P /\ Rank(P, Nth(P, k)) = k
                 /\ Subsequence(s, P)[k] = s[Nth(P, k)]
           /\ \A i \in P : /\ Rank(P, i) \in 1 .. Cardinality(P) /\ Nth(P, Rank(P, i)) = i
                           /\ Rank(P, i) <= i
                           /\ Subsequence(s, P)[Rank(P, i)] = s[i]
           /\ \A i, j \in P : i < j => Rank(P, i) < Rank(P, j)
<1>1. Len(s) \in Nat /\ \A i \in 1 .. Len(s) : s[i] \in S
  OBVIOUS
<1>2. /\ Cardinality(P) \in Nat
      /\ \A i \in P : Rank(P, i) \in 1 .. Cardinality(P) /\ Rank(P, i) <= i
      /\ \A k \in 1 .. Cardinality(P) : Nth(P, k) \in P /\ Rank(P, Nth(P, k)) = k
      /\ \A i \in P : Nth(P, Rank(P, i)) = i
      /\ \A i, j \in P : i < j => Rank(P, i) < Rank(P, j)
  BY <1>1, RanksAre
<1>3. PICK n \in Nat : n = Cardinality(P)
  BY <1>2
<1>4. \A k \in 1 .. n : s[Nth(P, k)] \in S
  BY <1>1, <1>2, <1>3
<1>5. PICK v : v = [k \in 1 .. n |-> s[Nth(P, k)]]
  OBVIOUS
<1>6. v \in [1 .. n -> S]
  BY <1>4, <1>5
<1>7. v \in Seq(S) /\ Len(v) = n
  BY <1>6
<1>8. Subsequence(s, P) = v
  BY <1>3, <1>5 DEF Subsequence
<1> QED BY <1>2, <1>3, <1>5, <1>7, <1>8

-----------------------------------------------------------------------------
\* The loop of model and tools.

Apart(calls) == \A m, n \in 1 .. Len(calls) : calls[m].id = calls[n].id => m = n

\* The calls of an answer differ, and the last one that was begun is under way
\* while its tool is; what did not throw has been kept.
RunsAreKept ==
    /\ Apart(batch)
    /\ loop = "tool" => /\ batch # <<>> /\ executed[Head(batch).what] = "no"
                        /\ runs # <<>> /\ runs[Len(runs)].how = "running"
                        /\ runs[Len(runs)].what = Head(batch).what
    /\ \A n \in 1 .. Len(runs) : /\ runs[n].how = "running" => loop = "tool" /\ n = Len(runs)
                                 /\ runs[n].how \in {"ok", "error"} => executed[runs[n].what] # "no"

Replies(i) == [kind |-> "tool", ids |-> {i}]
IsAnswered(n, i) == \/ \E m \in n + 1 .. Len(thread) : thread[m] = Replies(i)
                    \/ \E m \in 1 .. n - 1 : i \in thread[m].ids
                    \/ i \in spelled
NotBegun == IF loop = "tool" THEN Ids(Tail(batch)) ELSE Ids(batch)

\* The answer at l of the thread is the one whose calls are being executed.
AnswerAt(l) ==
    /\ thread[l].kind = "ai" /\ Ids(batch) \subseteq thread[l].ids
    /\ \A n \in 1 .. Len(thread) : \A i \in thread[n].ids :
          thread[n].kind = "ai" => IsAnswered(n, i) \/ (n = l /\ i \in Ids(batch))
    /\ \A i \in taken : \/ i \in spelled
                        \/ \E m \in 1 .. l - 1 : i \in thread[m].ids
                        \/ i \in thread[l].ids /\ i \notin NotBegun

AllAreAnswered ==
    /\ \A n \in 1 .. Len(thread) : \A i \in thread[n].ids :
          thread[n].kind = "ai" => IsAnswered(n, i)
    /\ \A i \in taken : i \in spelled \/ \E m \in 1 .. Len(thread) : i \in thread[m].ids

ThreadIsAnswered ==
    /\ \A n \in 1 .. Len(thread) : \A i \in thread[n].ids :
          thread[n].kind = "tool" => thread[n].ids = {i}
    /\ loop \in {"head", "stream", "check"} => AllAreAnswered
    /\ loop \in {"calls", "tool"} => \E l \in 1 .. Len(thread) : AnswerAt(l)

LoopInv == LoopTypeOK /\ RunsAreKept /\ ResultsAreReused /\ ThreadIsAnswered

LEMMA InitLoop == LoopInit => LoopInv
<1> SUFFICES ASSUME LoopInit PROVE LoopInv
  OBVIOUS
<1>1. MaxToolIterations \in Nat
  BY LoopAssumption
<1>2. Len(<<>>) = 0 /\ <<>> \in Seq(Call) /\ <<>> \in Seq(Entry)
      /\ <<>> \in Seq([what : What, late : BOOLEAN, how : {"running"} \cup Results])
  OBVIOUS
<1>3. LoopTypeOK
  <2>1. executed \in [What -> {"no", "ok", "error"}] /\ fails \in [What -> Nat]
    BY DEF LoopInit
  <2>2. iterations \in 0 .. MaxToolIterations
    BY <1>1 DEF LoopInit
  <2>3. signal \in BOOLEAN
    BY Zenon DEF LoopInit
  <2> QED BY <1>2, <2>1, <2>2, <2>3 DEF LoopInit, LoopTypeOK
<1>4. RunsAreKept /\ ResultsAreReused
  BY <1>2 DEF LoopInit, RunsAreKept, ResultsAreReused, Apart
<1>5. ThreadIsAnswered
  BY <1>2 DEF LoopInit, ThreadIsAnswered, AllAreAnswered
<1> QED BY <1>3, <1>4, <1>5 DEF LoopInv

(***************************************************************************)
(* The calls after the first one.                                          *)
(***************************************************************************)
LEMMA TailOfCalls ==
    ASSUME NEW calls \in Seq(Call), calls # <<>>, Apart(calls)
    PROVE  /\ Head(calls) \in Call /\ Tail(calls) \in Seq(Call) /\ Apart(Tail(calls))
           /\ Ids(calls) = {Head(calls).id} \cup Ids(Tail(calls))
           /\ Head(calls).id \notin Ids(Tail(calls))
<1>1. PICK k \in Nat : k = Len(calls) - 1
  BY DEF Call
<1>2. /\ Head(calls) = calls[1] /\ calls[1] \in Call /\ Tail(calls) \in Seq(Call)
      /\ Len(Tail(calls)) = k /\ \A n \in 1 .. k : Tail(calls)[n] = calls[n + 1]
      /\ Len(calls) = k + 1
  BY <1>1
<1>3. Apart(Tail(calls))
  BY <1>1, <1>2 DEF Apart
<1>4. Head(calls).id \notin Ids(Tail(calls))
  BY <1>1, <1>2 DEF Apart, Ids
<1>5. ASSUME NEW i \in Ids(calls) PROVE i = Head(calls).id \/ i \in Ids(Tail(calls))
  <2>1. PICK n \in 1 .. k + 1 : i = calls[n].id
    BY <1>2 DEF Ids
  <2>2. n # 1 => n - 1 \in 1 .. k /\ Tail(calls)[n - 1].id = i
    BY <1>1, <1>2, <2>1
  <2> QED BY <1>2, <2>1, <2>2 DEF Ids
<1>6. ASSUME NEW i \in Ids(Tail(calls)) PROVE i \in Ids(calls)
  <2>1. PICK n \in 1 .. k : i = Tail(calls)[n].id
    BY <1>2 DEF Ids
  <2>2. n + 1 \in 1 .. Len(calls) /\ calls[n + 1].id = i
    BY <1>1, <1>2, <2>1
  <2> QED BY <2>2 DEF Ids
<1>7. Head(calls).id \in Ids(calls)
  BY <1>1, <1>2 DEF Ids
<1> QED BY <1>2, <1>3, <1>4, <1>5, <1>6, <1>7

(***************************************************************************)
(* A thread that is continued: its entries stay where they are.            *)
(***************************************************************************)
Continues == /\ thread' \in Seq(Entry) /\ Len(thread) \in Nat /\ Len(thread') \in Nat
             /\ Len(thread) <= Len(thread')
             /\ \A n \in 1 .. Len(thread) : thread'[n] = thread[n]

LEMMA Continued ==
    ASSUME Continues, spelled \subseteq spelled', NEW n \in 1 .. Len(thread), NEW i, IsAnswered(n, i)
    PROVE  IsAnswered(n, i)'
<1>1. /\ Len(thread) \in Nat /\ Len(thread') \in Nat /\ Len(thread) <= Len(thread')
      /\ \A m \in 1 .. Len(thread) : thread'[m] = thread[m]
  BY DEF Continues
<1>2. CASE \E m \in n + 1 .. Len(thread) : thread[m] = Replies(i)
  <2>1. PICK m \in n + 1 .. Len(thread) : thread[m] = Replies(i)
    BY <1>2
  <2>2. m \in n + 1 .. Len(thread') /\ m \in 1 .. Len(thread)
    BY <1>1
  <2> QED BY <1>1, <2>1, <2>2 DEF IsAnswered, Replies
<1>3. CASE \E m \in 1 .. n - 1 : i \in thread[m].ids
  <2>1. PICK m \in 1 .. n - 1 : i \in thread[m].ids
    BY <1>3
  <2>2. m \in 1 .. Len(thread)
    BY <1>1
  <2> QED BY <1>1, <2>1, <2>2 DEF IsAnswered
<1> QED BY <1>2, <1>3 DEF IsAnswered

(***************************************************************************)
(* A reply is in the thread already, or is put behind it.                  *)
(***************************************************************************)
LEMMA RepliedIs ==
    ASSUME LoopInv, NEW call \in Call, Replied(call)
    PROVE  /\ Continues
           /\ \A n \in 1 .. Len(thread') : n \notin 1 .. Len(thread) => thread'[n] = Replies(call.id)
           /\ \E m \in 1 .. Len(thread') : thread'[m] = Replies(call.id)
<1>1. thread \in Seq(Entry) /\ Len(thread) \in Nat
  BY DEF LoopInv, LoopTypeOK
<1>2. Replies(call.id) \in Entry /\ Replies(call.id) = ToolEntry(call)
  BY DEF Call, Entry, Replies, ToolEntry
<1>3. CASE \E n \in 1 .. Len(thread) : thread[n].kind = "tool" /\ call.id \in thread[n].ids
  <2>1. thread' = thread
    BY <1>3 DEF Replied
  <2>2. PICK n \in 1 .. Len(thread) : thread[n].kind = "tool" /\ thread[n].ids = {call.id}
    BY <1>3 DEF LoopInv, ThreadIsAnswered
  <2>3. thread[n] = Replies(call.id)
    <3>1. thread[n] \in Entry
      BY <1>1
    <3> QED BY <2>2, <3>1 DEF Entry, Replies
  <2> QED BY <1>1, <2>1, <2>3 DEF Continues
<1>4. CASE ~\E n \in 1 .. Len(thread) : thread[n].kind = "tool" /\ call.id \in thread[n].ids
  <2>1. thread' = Append(thread, Replies(call.id))
    BY <1>2, <1>4 DEF Replied
  <2>2. /\ thread' \in Seq(Entry) /\ Len(thread') = Len(thread) + 1
        /\ thread'[Len(thread) + 1] = Replies(call.id)
        /\ \A n \in 1 .. Len(thread) : thread'[n] = thread[n]
    BY <1>1, <1>2, <2>1
  <2> QED BY <1>1, <2>2 DEF Continues
<1> QED BY <1>3, <1>4

LEMMA NextCall ==
    ASSUME LoopInv, loop \in {"calls", "tool"}, batch # <<>>, loop' = "calls",
           batch' = Tail(batch), spelled' = spelled, taken' \subseteq taken \cup {Head(batch).id},
           \/ Replied(Head(batch))
           \/ thread' = thread /\ loop = "calls" /\ Head(batch).id \in taken
    PROVE  ThreadIsAnswered' /\ thread' \in Seq(Entry)
<1>0. PICK id : id = Head(batch).id
  OBVIOUS
<1>1. /\ thread \in Seq(Entry) /\ batch \in Seq(Call) /\ Apart(batch)
      /\ Len(thread) \in Nat
  BY DEF LoopInv, LoopTypeOK, RunsAreKept
<1>2. /\ Head(batch) \in Call /\ Ids(batch) = {id} \cup Ids(batch') /\ id \notin Ids(batch')
      /\ Ids(Tail(batch)) = Ids(batch')
  BY <1>0, <1>1, TailOfCalls
<1>3. PICK l \in 1 .. Len(thread) : AnswerAt(l)
  BY DEF LoopInv, ThreadIsAnswered
<1>4. /\ Continues
      /\ \A n \in 1 .. Len(thread') : n \notin 1 .. Len(thread) => thread'[n] = Replies(id)
      /\ \/ \E m \in 1 .. Len(thread') : thread'[m] = Replies(id)
         \/ loop = "calls" /\ id \in taken
  <2>1. CASE Replied(Head(batch))
    BY <1>0, <1>2, <2>1, RepliedIs
  <2>2. CASE thread' = thread /\ loop = "calls" /\ id \in taken
    BY <1>1, <2>2 DEF Continues
  <2> QED BY <1>0, <2>1, <2>2
<1>5. /\ thread' \in Seq(Entry) /\ Len(thread) <= Len(thread') /\ Len(thread') \in Nat
      /\ \A n \in 1 .. Len(thread) : thread'[n] = thread[n]
  BY <1>4 DEF Continues
<1>6. \A n \in 1 .. Len(thread) : \A i : IsAnswered(n, i) => IsAnswered(n, i)'
  BY <1>4, Continued
<1>7. Replies(id).kind = "tool" /\ Replies(id).ids = {id}
  BY DEF Replies
<1>8. ASSUME NEW n \in 1 .. Len(thread'), NEW i \in thread'[n].ids, thread'[n].kind = "tool"
      PROVE  thread'[n].ids = {i}
  BY <1>4, <1>5, <1>7, <1>8 DEF LoopInv, ThreadIsAnswered
<1>9. IsAnswered(l, id)'
  <2>1. CASE \E m \in 1 .. Len(thread') : thread'[m] = Replies(id)
    <3>1. PICK m \in 1 .. Len(thread') : thread'[m] = Replies(id)
      BY <2>1
    <3>2. m # l
      BY <1>3, <1>5, <1>7, <3>1 DEF AnswerAt
    <3>3. m \in l + 1 .. Len(thread') \/ m \in 1 .. l - 1
      BY <1>1, <1>5, <3>2
    <3> QED BY <1>7, <3>1, <3>3 DEF IsAnswered, Replies
  <2>2. CASE loop = "calls" /\ id \in taken
    <3>1. id \in NotBegun
      BY <1>2, <2>2 DEF NotBegun
    <3>2. \/ id \in spelled
          \/ \E m \in 1 .. l - 1 : id \in thread[m].ids
      BY <1>3, <2>2, <3>1 DEF AnswerAt
    <3>3. IsAnswered(l, id)
      BY <3>2 DEF IsAnswered
    <3> QED BY <1>6, <3>3
  <2> QED BY <1>4, <2>1, <2>2
<1>10. AnswerAt(l)'
  <2>1. thread'[l].kind = "ai" /\ Ids(batch') \subseteq thread'[l].ids /\ thread'[l].ids = thread[l].ids
    BY <1>2, <1>3, <1>5 DEF AnswerAt
  <2>2. ASSUME NEW n \in 1 .. Len(thread'), NEW i \in thread'[n].ids, thread'[n].kind = "ai"
        PROVE  IsAnswered(n, i)' \/ (n = l /\ i \in Ids(batch'))
    <3>1. n \in 1 .. Len(thread)
      BY <1>4, <1>7, <2>2
    <3>2. i \in thread[n].ids /\ thread[n].kind = "ai"
      BY <1>5, <2>2, <3>1
    <3>3. IsAnswered(n, i) \/ (n = l /\ i \in Ids(batch))
      BY <1>3, <3>1, <3>2 DEF AnswerAt
    <3> QED BY <1>2, <1>6, <1>9, <3>1, <3>3
  <2>3. NotBegun' = Ids(batch') /\ \A i \in Ids(batch') : i \in NotBegun
    BY <1>2 DEF NotBegun
  <2>4. ASSUME NEW i \in taken'
        PROVE  \/ i \in spelled'
               \/ \E m \in 1 .. l - 1 : i \in thread'[m].ids
               \/ i \in thread'[l].ids /\ i \notin NotBegun'
    <3>1. CASE i = id
      <4>1. id \in thread[l].ids
        BY <1>2, <1>3 DEF AnswerAt
      <4> QED BY <1>2, <2>1, <2>3, <3>1, <4>1
    <3>2. CASE i \in taken
      <4>1. \/ i \in spelled
            \/ \E m \in 1 .. l - 1 : i \in thread[m].ids
            \/ i \in thread[l].ids /\ i \notin NotBegun
        BY <1>3, <3>2 DEF AnswerAt
      <4>2. \A m \in 1 .. l - 1 : thread'[m] = thread[m]
        BY <1>1, <1>5
      <4> QED BY <2>1, <2>3, <4>1, <4>2
    <3> QED BY <1>0, <3>1, <3>2
  <2> QED BY <2>1, <2>2, <2>4 DEF AnswerAt
<1>11. l \in 1 .. Len(thread')
  BY <1>1, <1>5
<1> QED BY <1>5, <1>8, <1>10, <1>11 DEF ThreadIsAnswered

LEMMA LoopTypes ==
    ASSUME LoopInv
    PROVE  /\ selected \in Selections
           /\ batch \in Seq(Call) /\ thread \in Seq(Entry) /\ Len(batch) \in Nat /\ Len(thread) \in Nat
           /\ taken \subseteq CallId /\ spelled \subseteq CallId
           /\ executed \in [What -> {"no", "ok", "error"}] /\ fails \in [What -> Nat]
           /\ iterations \in 0 .. MaxToolIterations /\ signal \in BOOLEAN
           /\ runs \in Seq([what : What, late : BOOLEAN, how : {"running"} \cup Results])
           /\ Len(runs) \in Nat
           /\ loop \in {"head", "stream", "check", "calls", "tool", "over"}
           /\ how \in {"none", "answer", "stuck", "fallback", "aborted", "failed"}
  BY DEF LoopInv, LoopTypeOK

(***************************************************************************)
(* Before calls are executed: the thread may be left as it is.             *)
(***************************************************************************)
LEMMA AsideLoop ==
    ASSUME LoopInv, UNCHANGED selected, loop \in {"head", "stream", "check", "over"},
           loop' \in {"head", "stream", "check", "over"},
           how' \in {"none", "answer", "stuck", "fallback", "aborted", "failed"},
           iterations' \in 0 .. MaxToolIterations, signal' \in BOOLEAN,
           loop = "over" => loop' = "over",
           batch' \in Seq(Call), Apart(batch'), taken' \subseteq CallId, spelled' \subseteq CallId,
           taken \subseteq taken', spelled \subseteq spelled',
           \A i \in taken' : i \in taken \/ i \in spelled',
           UNCHANGED <<thread, executed, fails, runs>>
    PROVE  LoopInv'
<1>1. LoopTypeOK'
  BY LoopTypes DEF LoopTypeOK
<1>2. RunsAreKept'
  BY DEF LoopInv, RunsAreKept
<1>3. ResultsAreReused'
  BY DEF LoopInv, ResultsAreReused
<1>4. ASSUME AllAreAnswered PROVE AllAreAnswered'
  <2>1. \A n \in 1 .. Len(thread) : \A i : IsAnswered(n, i) => IsAnswered(n, i)'
    BY DEF IsAnswered, Replies
  <2> QED BY <1>4, <2>1 DEF AllAreAnswered
<1>5. ThreadIsAnswered'
  BY <1>4 DEF LoopInv, ThreadIsAnswered
<1> QED BY <1>1, <1>2, <1>3, <1>5 DEF LoopInv

LEMMA IdsAreIds == ASSUME NEW calls \in Seq(Call) PROVE Ids(calls) \subseteq CallId
<1>1. \A n \in 1 .. Len(calls) : calls[n] \in Call
  OBVIOUS
<1>2. \A n \in 1 .. Len(calls) : calls[n].id \in CallId
  BY <1>1 DEF Call
<1> QED BY <1>2 DEF Ids

LEMMA AskLoop ==
    ASSUME LoopInv, UNCHANGED selected,
           \/ Ask \/ StopStreaming
           \/ \E calls \in Answers : \/ \E inText \in BOOLEAN : Answer(calls, inText)
                                    \/ \E socket \in BOOLEAN : Interrupted(calls, socket)
    PROVE  LoopInv'
<1>1. /\ MaxToolIterations \in Nat /\ Apart(batch)
      /\ batch \in Seq(Call) /\ taken \subseteq CallId /\ spelled \subseteq CallId
      /\ iterations \in 0 .. MaxToolIterations /\ signal \in BOOLEAN
      /\ how \in {"none", "answer", "stuck", "fallback", "aborted", "failed"}
  BY LoopTypes, LoopAssumption DEF LoopInv, RunsAreKept
<1>2. CASE Ask
  <2>1. iterations' \in 0 .. MaxToolIterations
    BY <1>1, <1>2 DEF Ask
  <2>2. /\ loop = "head" /\ loop' \in {"stream", "over"}
        /\ how' \in {"none", "answer", "stuck", "fallback", "aborted", "failed"}
        /\ UNCHANGED <<batch, thread, taken, executed, fails, signal, runs, spelled>>
    BY <1>1, <1>2 DEF Ask, Ends
  <2> QED BY <1>1, <2>1, <2>2, AsideLoop
<1>3. CASE StopStreaming
  <2>1. /\ loop = "stream" /\ loop' = "over" /\ how' = "aborted"
        /\ UNCHANGED <<iterations, batch, thread, taken, executed, fails, signal, runs, spelled>>
    BY <1>3 DEF StopStreaming, Ends
  <2> QED BY <1>1, <2>1, AsideLoop
<1>4. ASSUME NEW calls \in Answers, NEW inText \in BOOLEAN, Answer(calls, inText) PROVE LoopInv'
  <2>1. calls \in Seq(Call) /\ Apart(calls) /\ Ids(calls) \subseteq CallId
    <3>1. calls \in Seq(Call) /\ Apart(calls)
      BY DEF Answers, Apart
    <3> QED BY <3>1, IdsAreIds
  <2>2. /\ loop = "stream" /\ loop' \in {"check", "over"} /\ batch' = calls
        /\ how' \in {"none", "answer", "stuck", "fallback", "aborted", "failed"}
        /\ UNCHANGED <<iterations, thread, executed, fails, signal, runs>>
    BY <1>1, <1>4 DEF Answer, Ends
  <2>3. /\ taken' \subseteq CallId /\ spelled' \subseteq CallId
        /\ taken \subseteq taken' /\ spelled \subseteq spelled'
        /\ \A i \in taken' : i \in taken \/ i \in spelled'
    BY <1>1, <1>4, <2>1 DEF Answer
  <2> QED BY <1>1, <2>1, <2>2, <2>3, AsideLoop
<1>5. ASSUME NEW calls \in Answers, NEW socket \in BOOLEAN, Interrupted(calls, socket) PROVE LoopInv'
  <2>1. calls \in Seq(Call) /\ Apart(calls)
    BY DEF Answers, Apart
  <2>2. /\ loop = "stream" /\ loop' \in {"check", "over"} /\ batch' \in {batch, calls}
        /\ how' \in {"none", "answer", "stuck", "fallback", "aborted", "failed"}
        /\ UNCHANGED <<iterations, thread, taken, executed, fails, signal, runs, spelled>>
    BY <1>1, <1>5 DEF Interrupted, Ends
  <2> QED BY <1>1, <2>1, <2>2, AsideLoop
<1> QED BY <1>2, <1>3, <1>4, <1>5

(***************************************************************************)
(* The calls that are kept of an answer differ, as those of the answer do. *)
(***************************************************************************)
LEMMA SomeCalls ==
    ASSUME NEW calls \in Seq(Call), Apart(calls), NEW P \in SUBSET (1 .. Len(calls))
    PROVE  Subsequence(calls, P) \in Seq(Call) /\ Apart(Subsequence(calls, P))
<1>1. PICK v : v = Subsequence(calls, P)
  OBVIOUS
<1>2. /\ v \in Seq(Call) /\ Len(v) = Cardinality(P) /\ Cardinality(P) \in Nat
      /\ \A k \in 1 .. Cardinality(P) : /\ Nth(P, k) \in P /\ Rank(P, Nth(P, k)) = k
                                        /\ v[k] = calls[Nth(P, k)]
  BY <1>1, SubsequenceIs
<1>3. ASSUME NEW j \in 1 .. Len(v), NEW k \in 1 .. Len(v), v[j].id = v[k].id PROVE j = k
  <2>1. Nth(P, j) \in 1 .. Len(calls) /\ Nth(P, k) \in 1 .. Len(calls)
    BY <1>2
  <2>2. calls[Nth(P, j)].id = calls[Nth(P, k)].id
    BY <1>2, <1>3
  <2>3. Nth(P, j) = Nth(P, k)
    BY <2>1, <2>2 DEF Apart
  <2> QED BY <1>2, <2>3
<1> QED BY <1>1, <1>2, <1>3 DEF Apart

LEMMA CheckLoop == ASSUME LoopInv, UNCHANGED selected, CheckCalls PROVE LoopInv'
<1>1. /\ batch \in Seq(Call) /\ Apart(batch) /\ thread \in Seq(Entry) /\ loop = "check"
      /\ Len(thread) \in Nat
  BY LoopTypes DEF LoopInv, RunsAreKept, CheckCalls
<1>2. PICK valid \in Seq(Call) :
         Apart(valid) /\ valid = Subsequence(batch, {n \in 1 .. Len(batch) : Valid(batch[n])})
  BY <1>1, SomeCalls
<1>3. PICK refusals \in Seq(Call) :
         refusals = Subsequence(batch, {n \in 1 .. Len(batch) : Refused(batch[n])})
  BY <1>1, SomeCalls
<1>4. PICK entries : entries = [n \in 1 .. Len(refusals) |-> ToolEntry(refusals[n])]
  OBVIOUS
<1>5. PICK k \in Nat : k = Len(refusals)
  OBVIOUS
<1>6. /\ entries \in Seq(Entry) /\ Len(entries) = k
      /\ \A n \in 1 .. k : /\ entries[n] \in Entry /\ entries[n].kind = "tool"
                           /\ \A i \in entries[n].ids : entries[n].ids = {i}
  <2>1. \A n \in 1 .. k : /\ ToolEntry(refusals[n]) \in Entry
                          /\ ToolEntry(refusals[n]).kind = "tool"
                          /\ ToolEntry(refusals[n]).ids = {refusals[n].id}
    <3>1. \A n \in 1 .. k : refusals[n] \in Call
      BY <1>3, <1>5
    <3>2. \A n \in 1 .. k : {refusals[n].id} \subseteq CallId
      BY <3>1 DEF Call
    <3>3. \A n \in 1 .. k : ToolEntry(refusals[n]) = Replies(refusals[n].id)
      BY DEF ToolEntry, Replies
    <3>4. \A i \in CallId : /\ Replies(i) \in Entry /\ Replies(i).kind = "tool"
                             /\ Replies(i).ids = {i}
      BY DEF Replies, Entry
    <3> QED BY <3>2, <3>3, <3>4
  <2>2. entries \in [1 .. k -> Entry]
    BY <1>4, <1>5, <2>1
  <2>3. entries \in Seq(Entry) /\ Len(entries) = k
    BY <2>2
  <2>4. \A n \in 1 .. k : entries[n] = ToolEntry(refusals[n])
    BY <1>4, <1>5
  <2> QED BY <2>1, <2>3, <2>4
<1>7. /\ UNCHANGED <<iterations, taken, executed, fails, signal, runs, spelled>>
      /\ \/ Ends("aborted") /\ UNCHANGED <<batch, thread>>
         \/ Ends("answer") /\ thread' = thread \o entries /\ UNCHANGED batch
         \/ /\ thread' = Append(thread \o entries, [kind |-> "ai", ids |-> Ids(valid)])
            /\ batch' = valid /\ loop' = "calls" /\ UNCHANGED how
  BY <1>2, <1>3, <1>4 DEF CheckCalls
<1>8. /\ thread \o entries \in Seq(Entry) /\ Len(thread \o entries) = Len(thread) + k
      /\ \A n \in 1 .. Len(thread) : (thread \o entries)[n] = thread[n]
      /\ \A n \in 1 .. Len(thread) + k : n \notin 1 .. Len(thread) =>
            n - Len(thread) \in 1 .. k /\ (thread \o entries)[n] = entries[n - Len(thread)]
  <2>1. PICK j \in Nat : j = Len(thread)
    BY <1>1
  <2>2. thread \o entries \in Seq(Entry) /\ Len(thread \o entries) = j + k
    <3>1. thread \in Seq(Entry) /\ entries \in Seq(Entry)
      BY <1>1, <1>6
    <3>2. Len(thread) = j /\ Len(entries) = k
      BY <1>6, <2>1
    <3>3. thread \o entries \in Seq(Entry)
      BY <3>1
    <3>4. Len(thread \o entries) = Len(thread) + Len(entries)
      BY <3>1
    <3> QED BY <3>2, <3>3, <3>4
  <2>3. \A n \in 1 .. j + k : (thread \o entries)[n] = IF n <= j THEN thread[n] ELSE entries[n - j]
    BY <1>1, <1>6, <2>1
  <2>4. \A n \in 1 .. j + k : n \notin 1 .. j => n - j \in 1 .. k /\ ~(n <= j)
    BY <2>1
  <2> QED BY <2>1, <2>2, <2>3, <2>4
<1>9. CASE Ends("aborted") /\ UNCHANGED <<batch, thread>>
  BY <1>1, <1>7, <1>9, LoopTypes, AsideLoop DEF Ends
<1>10. CASE Ends("answer") /\ thread' = thread \o entries /\ UNCHANGED batch
  <2>1. loop' = "over" /\ how' = "answer" /\ thread' \in Seq(Entry)
    BY <1>8, <1>10 DEF Ends
  <2>2. LoopTypeOK'
    BY <1>7, <1>10, <2>1, LoopTypes DEF LoopTypeOK
  <2>3. RunsAreKept' /\ ResultsAreReused'
    BY <1>1, <1>7, <1>10, <2>1 DEF LoopInv, RunsAreKept, ResultsAreReused
  <2>4. ASSUME NEW n \in 1 .. Len(thread'), NEW i \in thread'[n].ids, thread'[n].kind = "tool"
        PROVE  thread'[n].ids = {i}
    BY <1>1, <1>6, <1>8, <1>10, <2>4 DEF LoopInv, ThreadIsAnswered
  <2> QED BY <2>1, <2>2, <2>3, <2>4 DEF LoopInv, ThreadIsAnswered
<1>11. CASE /\ thread' = Append(thread \o entries, [kind |-> "ai", ids |-> Ids(valid)])
            /\ batch' = valid /\ loop' = "calls" /\ UNCHANGED how
  <2>1. PICK e \in Entry : e = [kind |-> "ai", ids |-> Ids(valid)] /\ e.kind = "ai" /\ e.ids = Ids(valid)
    <3>1. Ids(valid) \subseteq CallId
      BY <1>2, IdsAreIds
    <3>2. PICK ids \in SUBSET CallId : ids = Ids(valid)
      BY <3>1
    <3>3. [kind |-> "ai", ids |-> ids] \in [kind : {"ai"}, ids : SUBSET CallId]
      BY <3>2
    <3>4. [kind |-> "ai", ids |-> ids] \in Entry
      BY <3>3 DEF Entry
    <3> QED BY <3>2, <3>4
  <2>2. PICK l \in Nat : l = Len(thread) + k + 1
    BY <1>1
  <2>3. /\ thread' \in Seq(Entry) /\ Len(thread') = l /\ thread'[l] = e
        /\ \A n \in 1 .. Len(thread) : thread'[n] = thread[n]
        /\ \A n \in 1 .. Len(thread) + k : n \notin 1 .. Len(thread) =>
              n - Len(thread) \in 1 .. k /\ thread'[n] = entries[n - Len(thread)]
    <3>1. PICK w \in Seq(Entry) : w = thread \o entries
      BY <1>8
    <3>2. thread' = Append(w, e) /\ Len(w) = Len(thread) + k
      BY <1>8, <1>11, <2>1, <3>1
    <3>3. /\ thread' \in Seq(Entry) /\ Len(thread') = Len(w) + 1 /\ thread'[Len(w) + 1] = e
          /\ \A n \in 1 .. Len(w) : thread'[n] = w[n]
      BY <2>1, <3>2
    <3>4. \A n \in 1 .. Len(thread) : n \in 1 .. Len(w)
      BY <1>1, <3>2
    <3> QED BY <1>8, <2>2, <3>1, <3>2, <3>3, <3>4
  <2>4. LoopTypeOK'
    BY <1>2, <1>7, <1>11, <2>3, LoopTypes DEF LoopTypeOK
  <2>5. RunsAreKept' /\ ResultsAreReused'
    BY <1>1, <1>2, <1>7, <1>11 DEF LoopInv, RunsAreKept, ResultsAreReused
  <2>6. ASSUME NEW n \in 1 .. Len(thread'), n \notin 1 .. Len(thread), n # l
        PROVE  thread'[n].kind = "tool" /\ \A i \in thread'[n].ids : thread'[n].ids = {i}
    <3>1. n \in 1 .. Len(thread) + k
      BY <1>1, <2>2, <2>3, <2>6
    <3> QED BY <1>6, <2>3, <2>6, <3>1
  <2>7. ASSUME NEW n \in 1 .. Len(thread'), NEW i \in thread'[n].ids, thread'[n].kind = "tool"
        PROVE  thread'[n].ids = {i}
    <3>1. n # l
      BY <2>1, <2>3, <2>7
    <3> QED BY <2>3, <2>6, <2>7, <3>1 DEF LoopInv, ThreadIsAnswered
  <2>8. AllAreAnswered
    BY <1>1 DEF LoopInv, ThreadIsAnswered
  <2>9. Continues
    BY <1>1, <2>2, <2>3 DEF Continues
  <2>10. ASSUME NEW n \in 1 .. Len(thread'), NEW i \in thread'[n].ids, thread'[n].kind = "ai"
         PROVE  IsAnswered(n, i)' \/ (n = l /\ i \in Ids(batch'))
    <3>1. CASE n = l
      BY <1>11, <2>1, <2>3, <2>10, <3>1
    <3>2. CASE n # l
      <4>1. n \in 1 .. Len(thread)
        BY <2>6, <2>10, <3>2
      <4>2. IsAnswered(n, i)
        BY <2>3, <2>8, <2>10, <4>1 DEF AllAreAnswered
      <4> QED BY <1>7, <2>9, <4>1, <4>2, Continued
    <3> QED BY <3>1, <3>2
  <2>11. ASSUME NEW i \in taken' PROVE i \in spelled' \/ \E m \in 1 .. l - 1 : i \in thread'[m].ids
    <3>1. i \in spelled \/ \E m \in 1 .. Len(thread) : i \in thread[m].ids
      BY <1>7, <2>8 DEF AllAreAnswered
    <3>2. \A m \in 1 .. Len(thread) : m \in 1 .. l - 1 /\ thread'[m] = thread[m]
      BY <1>1, <2>2, <2>3
    <3> QED BY <1>7, <3>1, <3>2
  <2>12. AnswerAt(l)'
    BY <1>11, <2>1, <2>3, <2>10, <2>11 DEF AnswerAt
  <2>13. l \in 1 .. Len(thread')
    BY <1>1, <2>2, <2>3
  <2> QED BY <1>11, <2>4, <2>5, <2>7, <2>12, <2>13 DEF LoopInv, ThreadIsAnswered
<1> QED BY <1>7, <1>9, <1>10, <1>11

(***************************************************************************)
(* Executing the calls of the answer.                                      *)
(***************************************************************************)
LEMMA ExecuteLoop == ASSUME LoopInv, UNCHANGED selected, AllExecuted \/ ReplyAgain \/ SkipKnownId PROVE LoopInv'
<1>1. batch \in Seq(Call) /\ Apart(batch) /\ loop = "calls"
  BY LoopTypes DEF LoopInv, RunsAreKept, AllExecuted, ReplyAgain, SkipKnownId
<1>2. PICK l \in 1 .. Len(thread) : AnswerAt(l)
  BY <1>1 DEF LoopInv, ThreadIsAnswered
<1>3. CASE AllExecuted
  <2>1. Ids(batch) = {}
    BY <1>3 DEF AllExecuted, Ids
  <2>2. AllAreAnswered
    <3>1. \A n \in 1 .. Len(thread) : \A i \in thread[n].ids :
             thread[n].kind = "ai" => IsAnswered(n, i)
      BY <1>2, <2>1 DEF AnswerAt
    <3>2. ASSUME NEW i \in taken PROVE i \in spelled \/ \E m \in 1 .. Len(thread) : i \in thread[m].ids
      <4>1. \/ i \in spelled
            \/ \E m \in 1 .. l - 1 : i \in thread[m].ids
            \/ i \in thread[l].ids
        BY <1>2 DEF AnswerAt
      <4>2. \A m \in 1 .. l - 1 : m \in 1 .. Len(thread)
        BY <1>2, LoopTypes
      <4> QED BY <1>2, <4>1, <4>2
    <3> QED BY <3>1, <3>2 DEF AllAreAnswered
  <2>3. /\ loop' = "head"
        /\ UNCHANGED <<how, iterations, batch, thread, taken, executed, fails, signal, runs, spelled>>
    BY <1>3 DEF AllExecuted
  <2>4. LoopTypeOK'
    BY <2>3, LoopTypes DEF LoopTypeOK
  <2>5. RunsAreKept' /\ ResultsAreReused'
    BY <1>1, <2>3 DEF LoopInv, RunsAreKept, ResultsAreReused
  <2>6. AllAreAnswered'
    BY <2>2, <2>3 DEF AllAreAnswered, IsAnswered, Replies
  <2> QED BY <2>3, <2>4, <2>5, <2>6 DEF LoopInv, ThreadIsAnswered
<1>4. CASE ReplyAgain \/ SkipKnownId
  <2>1. /\ batch # <<>> /\ batch' = Tail(batch)
        /\ UNCHANGED <<loop, how, iterations, taken, executed, fails, signal, runs, spelled>>
    BY <1>4 DEF ReplyAgain, SkipKnownId
  <2>2. \/ Replied(Head(batch))
        \/ thread' = thread /\ loop = "calls" /\ Head(batch).id \in taken
    BY <1>4 DEF ReplyAgain, SkipKnownId
  <2>3. ThreadIsAnswered' /\ thread' \in Seq(Entry)
    BY <1>1, <2>1, <2>2, NextCall
  <2>4. batch' \in Seq(Call) /\ Apart(batch')
    BY <1>1, <2>1, TailOfCalls
  <2>5. LoopTypeOK'
    BY <2>1, <2>3, <2>4, LoopTypes DEF LoopTypeOK
  <2>6. RunsAreKept' /\ ResultsAreReused'
    BY <1>1, <2>1, <2>4 DEF LoopInv, RunsAreKept, ResultsAreReused
  <2> QED BY <2>3, <2>5, <2>6 DEF LoopInv
<1> QED BY <1>3, <1>4

LEMMA StartLoop == ASSUME LoopInv, UNCHANGED selected, StartTool PROVE LoopInv'
<1>1. /\ batch \in Seq(Call) /\ Apart(batch) /\ loop = "calls" /\ batch # <<>>
      /\ Head(batch).id \notin taken /\ executed[Head(batch).what] = "no"
      /\ taken' = taken \cup {Head(batch).id}
      /\ UNCHANGED <<how, iterations, executed, fails, signal, spelled>>
  BY LoopTypes DEF LoopInv, RunsAreKept, StartTool
<1>2. /\ Head(batch) \in Call /\ Tail(batch) \in Seq(Call) /\ Apart(Tail(batch))
      /\ Head(batch).id \in CallId /\ Head(batch).what \in What
      /\ Ids(batch) = {Head(batch).id} \cup Ids(Tail(batch)) /\ Head(batch).id \notin Ids(Tail(batch))
  <2>1. /\ Head(batch) \in Call /\ Tail(batch) \in Seq(Call) /\ Apart(Tail(batch))
        /\ Ids(batch) = {Head(batch).id} \cup Ids(Tail(batch)) /\ Head(batch).id \notin Ids(Tail(batch))
    BY <1>1, TailOfCalls
  <2>2. Head(batch).id \in CallId /\ Head(batch).what \in What
    BY <2>1 DEF Call
  <2> QED BY <2>1, <2>2
<1>3. taken' \subseteq CallId
  BY <1>1, <1>2, LoopTypes
<1>4. CASE Head(batch).what \notin Common \/ signal
  <2>1. Replied(Head(batch)) /\ batch' = Tail(batch) /\ UNCHANGED <<loop, runs>>
    BY <1>4 DEF StartTool
  <2>2. ThreadIsAnswered' /\ thread' \in Seq(Entry)
    BY <1>1, <2>1, NextCall
  <2>3. LoopTypeOK'
    BY <1>1, <1>2, <1>3, <2>1, <2>2, LoopTypes DEF LoopTypeOK
  <2>4. RunsAreKept' /\ ResultsAreReused'
    BY <1>1, <1>2, <2>1 DEF LoopInv, RunsAreKept, ResultsAreReused
  <2> QED BY <2>2, <2>3, <2>4 DEF LoopInv
<1>5. CASE ~(Head(batch).what \notin Common \/ signal)
  <2> DEFINE Run == [what : What, late : BOOLEAN, how : {"running"} \cup Results]
  <2>1. PICK run : run = [what |-> Head(batch).what, late |-> signal, how |-> "running"]
    OBVIOUS
  <2>2. runs' = Append(runs, run) /\ loop' = "tool" /\ UNCHANGED <<batch, thread>>
    BY <1>5, <2>1 DEF StartTool
  <2>3. run \in Run /\ run.what = Head(batch).what /\ run.how = "running"
    BY <1>2, <2>1, LoopTypes
  <2>4. PICK j \in Nat : j = Len(runs)
    BY LoopTypes
  <2>5. /\ runs' \in Seq(Run) /\ Len(runs') = j + 1 /\ runs'[j + 1] = run
        /\ \A n \in 1 .. j : runs'[n] = runs[n]
    <3> HIDE DEF Run
    <3>1. runs \in Seq(Run)
      BY LoopTypes DEF Run
    <3> QED BY <2>2, <2>3, <2>4, <3>1
  <2>6. LoopTypeOK'
    BY <1>1, <1>3, <2>2, <2>5, LoopTypes DEF LoopTypeOK
  <2>7. ASSUME NEW n \in 1 .. j
        PROVE  /\ runs[n].how # "running" /\ runs[n] \in Run
               /\ runs[n].what = Head(batch).what => runs[n].how = "throws"
    <3>1. /\ runs[n].how = "running" => loop = "tool"
          /\ runs[n].how \in {"ok", "error"} => executed[runs[n].what] # "no"
      BY <2>4 DEF LoopInv, RunsAreKept
    <3>2. runs[n] \in Run
      <4>1. runs \in Seq(Run) /\ n \in 1 .. Len(runs)
        BY <2>4, LoopTypes
      <4> HIDE DEF Run
      <4> QED BY <4>1
    <3>3. runs[n].how \in {"running", "ok", "error", "throws"}
      BY <3>2 DEF Results
    <3> HIDE DEF Run
    <3> QED BY <1>1, <3>1, <3>2, <3>3
  <2>8. RunsAreKept'
    <3>1. runs' # <<>>
      BY <2>5
    <3>2. ASSUME NEW n \in 1 .. Len(runs')
          PROVE  /\ runs'[n].how = "running" => loop' = "tool" /\ n = Len(runs')
                 /\ runs'[n].how \in {"ok", "error"} => executed'[runs'[n].what] # "no"
      <4>1. CASE n \in 1 .. j
        BY <1>1, <2>2, <2>4, <2>5, <2>7, <4>1 DEF LoopInv, RunsAreKept
      <4>2. CASE n = j + 1
        BY <2>2, <2>3, <2>5, <4>2
      <4> QED BY <2>4, <2>5, <4>1, <4>2
    <3> HIDE DEF Run
    <3> QED BY <1>1, <2>2, <2>3, <2>5, <3>1, <3>2 DEF RunsAreKept
  <2>9. ResultsAreReused'
    <3>1. ASSUME NEW m \in 1 .. Len(runs'), NEW n \in 1 .. Len(runs'),
                 m < n, runs'[m].what = runs'[n].what
          PROVE  runs'[m].how = "throws"
      <4>1. m \in 1 .. j /\ (n \in 1 .. j \/ n = j + 1)
        BY <2>4, <2>5, <3>1
      <4>2. CASE n \in 1 .. j
        BY <2>4, <2>5, <3>1, <4>1, <4>2 DEF LoopInv, ResultsAreReused
      <4>3. CASE n = j + 1
        <5>1. runs'[m] = runs[m] /\ runs'[n] = run
          BY <2>5, <4>1, <4>3
        <5>2. runs[m].what = Head(batch).what
          BY <2>3, <3>1, <5>1
        <5>3. m \in 1 .. j
          BY <4>1
        <5> HIDE DEF Run
        <5>4. runs[m].what = Head(batch).what => runs[m].how = "throws"
          BY <2>7, <5>3
        <5> QED BY <5>1, <5>2, <5>4
      <4> QED BY <4>1, <4>2, <4>3
    <3> QED BY <3>1 DEF ResultsAreReused
  <2>10. ThreadIsAnswered'
    <3>1. PICK l \in 1 .. Len(thread) : AnswerAt(l)
      BY <1>1 DEF LoopInv, ThreadIsAnswered
    <3>2. Head(batch).id \in thread[l].ids
      BY <1>2, <3>1 DEF AnswerAt
    <3>3. NotBegun = Ids(batch) /\ NotBegun' = Ids(Tail(batch))
      BY <1>1, <2>2 DEF NotBegun
    <3>4. ASSUME NEW n, NEW i, IsAnswered(n, i) PROVE IsAnswered(n, i)'
      BY <1>1, <2>2, <3>4 DEF IsAnswered, Replies
    <3>5. ASSUME NEW i \in taken'
          PROVE  \/ i \in spelled'
                 \/ \E m \in 1 .. l - 1 : i \in thread'[m].ids
                 \/ i \in thread'[l].ids /\ i \notin NotBegun'
      <4>1. CASE i = Head(batch).id
        BY <1>2, <2>2, <3>2, <3>3, <4>1
      <4>2. CASE i \in taken
        BY <1>1, <1>2, <2>2, <3>1, <3>3, <4>2 DEF AnswerAt
      <4> QED BY <1>1, <4>1, <4>2
    <3>6. Ids(batch') \subseteq thread'[l].ids /\ thread'[l].kind = "ai" /\ Ids(batch') = Ids(batch)
      BY <2>2, <3>1 DEF AnswerAt
    <3>7. ASSUME NEW n \in 1 .. Len(thread'), NEW i \in thread'[n].ids, thread'[n].kind = "ai"
          PROVE  IsAnswered(n, i)' \/ (n = l /\ i \in Ids(batch'))
      <4>1. IsAnswered(n, i) \/ (n = l /\ i \in Ids(batch))
        BY <2>2, <3>1, <3>7 DEF AnswerAt
      <4> QED BY <3>4, <3>6, <4>1
    <3>8. AnswerAt(l)'
      BY <3>5, <3>6, <3>7 DEF AnswerAt
    <3>9. l \in 1 .. Len(thread')
      BY <2>2
    <3>10. \A n \in 1 .. Len(thread') : \A i \in thread'[n].ids :
              thread'[n].kind = "tool" => thread'[n].ids = {i}
      BY <2>2 DEF LoopInv, ThreadIsAnswered
    <3> QED BY <2>2, <3>8, <3>9, <3>10 DEF ThreadIsAnswered
  <2> HIDE DEF Run
  <2> QED BY <2>6, <2>8, <2>9, <2>10 DEF LoopInv
<1> QED BY <1>4, <1>5

LEMMA EndLoop == ASSUME LoopInv, UNCHANGED selected, NEW result \in Results, ToolEnds(result) PROVE LoopInv'
<1> DEFINE Run == [what : What, late : BOOLEAN, how : {"running"} \cup Results]
<1>1. /\ batch \in Seq(Call) /\ Apart(batch) /\ loop = "tool" /\ batch # <<>>
      /\ executed[Head(batch).what] = "no" /\ runs # <<>>
      /\ runs[Len(runs)].how = "running" /\ runs[Len(runs)].what = Head(batch).what
      /\ UNCHANGED <<iterations, taken, signal, spelled>>
  BY LoopTypes DEF LoopInv, RunsAreKept, ToolEnds
<1>2. PICK w \in What : w = Head(batch).what
  BY <1>1, TailOfCalls DEF Call
<1>3. PICK j \in Nat \ {0} : j = Len(runs)
  BY <1>1, LoopTypes
<1>4. PICK h \in Results :
         /\ runs' = [runs EXCEPT ![j].how = h]
         /\ \/ h = "throws" /\ executed' = executed
            \/ h = result /\ h # "throws" /\ executed' = [executed EXCEPT ![w] = h]
  <2>1. CASE result # "throws" /\ ~signal
    BY <1>2, <1>3, <2>1 DEF ToolEnds
  <2>2. CASE ~(result # "throws" /\ ~signal)
    BY <1>2, <1>3, <2>2 DEF ToolEnds, Results
  <2> QED BY <2>1, <2>2
<1>5. /\ executed \in [What -> {"no", "ok", "error"}] /\ executed' \in [What -> {"no", "ok", "error"}]
      /\ h \in {"ok", "error"} => executed'[w] # "no"
      /\ \A v \in What : executed[v] # "no" => executed'[v] # "no"
  BY <1>4, LoopTypes DEF Results
<1>6. fails' \in [What -> Nat]
  <2>1. fails \in [What -> Nat] /\ fails[w] + 1 \in Nat
    BY LoopTypes
  <2>2. fails' = fails \/ fails' = [fails EXCEPT ![w] = fails[w] + 1]
    BY <1>2 DEF ToolEnds
  <2> QED BY <2>1, <2>2
<1>7. /\ runs' \in Seq(Run) /\ Len(runs') = j
      /\ runs'[j].what = w /\ runs'[j].how = h
      /\ \A n \in 1 .. j : n # j => runs'[n] = runs[n]
  <2>1. runs \in Seq(Run) /\ runs \in [1 .. j -> Run]
    <3>1. runs \in Seq(Run)
      BY LoopTypes
    <3> HIDE DEF Run
    <3> QED BY <1>3, <3>1
  <2>2. runs[j] \in Run
    BY <1>3, <2>1
  <2>3. /\ [runs[j] EXCEPT !.how = h] \in Run /\ [runs[j] EXCEPT !.how = h].how = h
        /\ [runs[j] EXCEPT !.how = h].what = runs[j].what
    BY <2>2
  <2>4. PICK v : v = [runs[j] EXCEPT !.how = h]
    OBVIOUS
  <2>5. v \in Run /\ v.how = h /\ v.what = w
    BY <1>1, <1>2, <1>3, <2>3, <2>4
  <2> HIDE DEF Run
  <2>6. runs' = [runs EXCEPT ![j] = v]
    BY <1>4, <2>4
  <2>7. runs' \in [1 .. j -> Run] /\ runs'[j] = v /\ \A n \in 1 .. j : n # j => runs'[n] = runs[n]
    BY <2>1, <2>5, <2>6
  <2>8. runs' \in Seq(Run) /\ Len(runs') = j
    BY <2>7
  <2> QED BY <2>5, <2>7, <2>8
<1>8. RunsAreKept'
  <2>1. ASSUME NEW n \in 1 .. Len(runs')
        PROVE  runs'[n].how # "running" /\ (runs'[n].how \in {"ok", "error"} => executed'[runs'[n].what] # "no")
    <3>1. n \in 1 .. j
      BY <1>7
    <3>2. CASE n = j
      BY <1>4, <1>5, <1>7, <3>2 DEF Results
    <3>3. CASE n # j
      <4>1. /\ runs[n].how # "running"
            /\ runs[n].how \in {"ok", "error"} => executed[runs[n].what] # "no"
        BY <1>3, <3>1, <3>3 DEF LoopInv, RunsAreKept
      <4>2. runs[n] \in Run
        <5>1. runs \in Seq(Run) /\ n \in 1 .. Len(runs)
          BY <1>3, <3>1, LoopTypes
        <5> HIDE DEF Run
        <5> QED BY <5>1
      <4>3. runs[n].what \in What
        BY <4>2
      <4>4. runs'[n] = runs[n]
        BY <1>7, <3>1, <3>3
      <4> HIDE DEF Run
      <4> QED BY <1>5, <4>1, <4>3, <4>4
    <3> QED BY <3>2, <3>3
  <2>2. loop' \in {"over", "calls"} /\ batch' \in {batch, Tail(batch)}
    BY DEF ToolEnds, Ends
  <2>3. Apart(batch')
    <3>1. Apart(batch) /\ Apart(Tail(batch))
      BY <1>1, TailOfCalls
    <3> QED BY <2>2, <3>1
  <2> HIDE DEF Run
  <2> QED BY <2>1, <2>2, <2>3 DEF RunsAreKept
<1>9. ResultsAreReused'
  <2>1. ASSUME NEW m \in 1 .. Len(runs'), NEW n \in 1 .. Len(runs'),
               m < n, runs'[m].what = runs'[n].what
        PROVE  runs'[m].how = "throws"
    <3>1. m \in 1 .. j /\ n \in 1 .. j /\ m # j
      BY <1>3, <1>7, <2>1
    <3>2. runs'[m] = runs[m] /\ runs'[n].what = runs[n].what
      BY <1>1, <1>2, <1>3, <1>7, <3>1
    <3> HIDE DEF Run
    <3> QED BY <1>3, <2>1, <3>1, <3>2 DEF LoopInv, ResultsAreReused
  <2> QED BY <2>1 DEF ResultsAreReused
<1> HIDE DEF Run
<1>10. CASE Ends("stuck") /\ UNCHANGED <<batch, thread>>
  <2>1. loop' = "over" /\ how' = "stuck" /\ UNCHANGED <<batch, thread>>
    BY <1>10 DEF Ends
  <2>2. LoopTypeOK'
    BY <1>1, <1>5, <1>6, <1>7, <2>1, LoopTypes DEF LoopTypeOK, Run
  <2>3. ThreadIsAnswered'
    BY <2>1 DEF LoopInv, ThreadIsAnswered
  <2> QED BY <1>8, <1>9, <2>2, <2>3 DEF LoopInv
<1>11. CASE Replied(Head(batch)) /\ batch' = Tail(batch) /\ loop' = "calls" /\ UNCHANGED how
  <2>1. ThreadIsAnswered' /\ thread' \in Seq(Entry)
    BY <1>1, <1>11, NextCall
  <2>2. batch' \in Seq(Call)
    BY <1>1, <1>11, TailOfCalls
  <2>3. LoopTypeOK'
    BY <1>1, <1>5, <1>6, <1>7, <1>11, <2>1, <2>2, LoopTypes DEF LoopTypeOK, Run
  <2> QED BY <1>8, <1>9, <2>1, <2>3 DEF LoopInv
<1> QED BY <1>10, <1>11 DEF ToolEnds

\* What is answered depends on the thread and the calls alone.
LEMMA ThreadStands ==
    ASSUME ThreadIsAnswered, UNCHANGED <<loop, batch, thread, taken, spelled>>
    PROVE  ThreadIsAnswered'
<1>1. NotBegun' = NotBegun /\ \A n, i : IsAnswered(n, i)' <=> IsAnswered(n, i)
  BY DEF NotBegun, IsAnswered, Replies
<1>2. AllAreAnswered' <=> AllAreAnswered
  BY <1>1 DEF AllAreAnswered
<1>3. \A l : AnswerAt(l)' <=> AnswerAt(l)
  BY <1>1 DEF AnswerAt
<1> QED BY <1>2, <1>3 DEF ThreadIsAnswered

LEMMA AbortLoop == ASSUME LoopInv, UNCHANGED selected, Abort PROVE LoopInv'
<1>1. /\ signal' = TRUE
      /\ UNCHANGED <<loop, how, iterations, batch, thread, taken, executed, fails, runs, spelled>>
  BY DEF Abort
<1>2. signal' \in BOOLEAN
  BY <1>1, Zenon
<1>3. LoopTypeOK'
  BY <1>1, <1>2, LoopTypes DEF LoopTypeOK
<1>4. RunsAreKept' /\ ResultsAreReused'
  BY <1>1 DEF LoopInv, RunsAreKept, ResultsAreReused
<1>5. ThreadIsAnswered'
  BY <1>1, ThreadStands DEF LoopInv
<1> QED BY <1>3, <1>4, <1>5 DEF LoopInv

(***************************************************************************)
(* Every step of the loop keeps its invariant.                             *)
(***************************************************************************)
LEMMA NextLoop == ASSUME LoopInv, [LoopNext]_loopVars PROVE LoopInv'
<1>1. CASE LoopStep
  <2>1. \/ Ask \/ StopStreaming \/ \E calls \in Answers :
               \/ \E inText \in BOOLEAN : Answer(calls, inText)
               \/ \E socket \in BOOLEAN : Interrupted(calls, socket)
        \/ CheckCalls \/ (AllExecuted \/ ReplyAgain \/ SkipKnownId) \/ StartTool
        \/ \E result \in Results : ToolEnds(result)
    BY <1>1 DEF LoopStep
  <2>2. UNCHANGED selected
    BY <1>1 DEF LoopStep
  <2> QED BY <2>1, <2>2, AskLoop, CheckLoop, ExecuteLoop, StartLoop, EndLoop
<1>2. CASE Abort /\ UNCHANGED selected
  BY <1>2, AbortLoop
<1>3. CASE UNCHANGED loopVars
  <2>1. UNCHANGED <<selected, loop, how, iterations, batch, thread, taken, executed, fails, signal,
                    runs, spelled>>
    BY <1>3 DEF loopVars
  <2>2. LoopTypeOK'
    BY <2>1, LoopTypes DEF LoopTypeOK
  <2>3. RunsAreKept' /\ ResultsAreReused'
    BY <2>1 DEF LoopInv, RunsAreKept, ResultsAreReused
  <2>4. ThreadIsAnswered'
    BY <2>1, ThreadStands DEF LoopInv
  <2> QED BY <2>2, <2>3, <2>4 DEF LoopInv
<1> QED BY <1>1, <1>2, <1>3 DEF LoopNext

LEMMA LoopHolds == MCSpec => []LoopInv
<1>1. MCInit => LoopInv
  BY InitLoop DEF MCInit
<1>2. ASSUME LoopInv, [MCNext]_allVars PROVE LoopInv'
  <2>1. CASE half = "request" /\ UNCHANGED <<loopVars, half>>
    BY <1>2, <2>1, NextLoop
  <2>2. CASE LoopNext
    BY <1>2, <2>2, NextLoop
  <2>3. CASE UNCHANGED allVars
    BY <1>2, <2>3, NextLoop DEF allVars
  <2> QED BY <1>2, <2>1, <2>2, <2>3 DEF MCNext
<1> QED BY <1>1, <1>2, PTL DEF MCSpec

(***************************************************************************)
(* Whatever the model calls, with ids that come and go, and however tools   *)
(* fail or are stopped: a call whose result is known is never executed      *)
(* again.  What was executed and did not throw is in executedToolCalls, and *)
(* a call is started only when it is not there.                             *)
(***************************************************************************)
THEOREM ResultsReused == MCSpec => []ResultsAreReused
<1>1. LoopInv => ResultsAreReused
  BY DEF LoopInv
<1> QED BY <1>1, LoopHolds, PTL

(***************************************************************************)
(* Each call of an answer has its reply behind the answer when the model is *)
(* asked again, unless its id was used before or was written into the text. *)
(* While the calls are executed, one answer is open: what of it has not     *)
(* been replied to is what is still to be executed (AnswerAt).              *)
(***************************************************************************)
THEOREM CallsAnswered == MCSpec => []CallsAreAnswered
<1>1. LoopInv => CallsAreAnswered
  BY DEF LoopInv, ThreadIsAnswered, AllAreAnswered, IsAnswered, Replies, CallsAreAnswered
<1> QED BY <1>1, LoopHolds, PTL

-----------------------------------------------------------------------------
\* The request and its conversation.

(***************************************************************************)
(* A finite, nonempty set of numbers has a greatest element: otherwise take *)
(* one of the smallest size that has none, and leave out an element.        *)
(***************************************************************************)
LEMMA LeastNumber == ASSUME NEW S \in SUBSET Nat, S # {} PROVE \E x \in S : \A y \in S : x <= y
<1>1. IsWellFoundedOn(OpToRel(<, Nat), Nat)
  BY NatLessThanWellFounded
<1>2. PICK x \in S : \A y \in S : ~ (<<y, x>> \in OpToRel(<, Nat))
  BY <1>1, WFMin
<1>3. \A y \in S : ~(y < x)
  BY <1>2 DEF OpToRel
<1> HIDE <1>2
<1> QED BY <1>3

HasMax(S) == \E x \in S : \A y \in S : x >= y

LEMMA FiniteMax == ASSUME NEW S \in SUBSET Nat, IsFiniteSet(S), S # {} PROVE HasMax(S)
<1> DEFINE Without == {n \in Nat : \E T \in SUBSET Nat : /\ IsFiniteSet(T) /\ T # {} /\ ~HasMax(T)
                                                         /\ Cardinality(T) = n}
<1>1. SUFFICES ASSUME ~HasMax(S) PROVE FALSE
  OBVIOUS
<1>2. Without \in SUBSET Nat /\ Without # {}
  <2>1. Cardinality(S) \in Nat
    BY FS_CardinalityType
  <2> QED BY <1>1, <2>1
<1>3. PICK n \in Without : \A m \in Without : n <= m
  BY <1>2, LeastNumber
<1>4. PICK T \in SUBSET Nat : IsFiniteSet(T) /\ T # {} /\ ~HasMax(T) /\ Cardinality(T) = n
  BY <1>3
<1>5. PICK x \in T : x \in Nat
  BY <1>4
<1>6. PICK R : R = T \ {x}
  OBVIOUS
<1>7. R \in SUBSET Nat /\ IsFiniteSet(R) /\ Cardinality(R) = n - 1 /\ Cardinality(R) \in Nat
  <2>1. IsFiniteSet(R) /\ Cardinality(R) = Cardinality(T) - 1
    BY <1>4, <1>5, <1>6, FS_RemoveElement
  <2>2. Cardinality(R) \in Nat
    BY <2>1, FS_CardinalityType
  <2> QED BY <1>4, <1>6, <2>1, <2>2
<1>8. CASE R = {}
  <2>1. \A y \in T : y = x
    BY <1>6, <1>8
  <2> QED BY <1>4, <1>5, <2>1 DEF HasMax
<1>9. CASE R # {}
  <2>1. HasMax(R)
    <3>1. SUFFICES ASSUME ~HasMax(R) PROVE FALSE
      OBVIOUS
    <3>2. Cardinality(R) \in Without
      BY <1>7, <1>9, <3>1
    <3>3. n \in Nat /\ n <= n - 1
      BY <1>3, <1>7, <3>2
    <3> QED BY <3>3
  <2>2. PICK y \in R : \A z \in R : y >= z
    BY <2>1 DEF HasMax
  <2>3. y \in T /\ y \in Nat /\ \A z \in T : z = x \/ (z \in R /\ z \in Nat)
    BY <1>4, <1>6, <1>7, <2>2
  <2>4. CASE x >= y
    <3>1. \A z \in T : x >= z
      BY <1>5, <2>2, <2>3, <2>4
    <3> QED BY <1>4, <1>5, <3>1 DEF HasMax
  <2>5. CASE ~(x >= y)
    <3>1. \A z \in T : y >= z
      BY <1>5, <2>2, <2>3, <2>5
    <3> QED BY <1>4, <2>3, <3>1 DEF HasMax
  <2> QED BY <2>4, <2>5
<1> QED BY <1>8, <1>9

LEMMA MaxIs ==
    ASSUME NEW S \in SUBSET Nat, IsFiniteSet(S), S # {}
    PROVE  Max(S) \in S /\ \A y \in S : Max(S) >= y
  BY FiniteMax DEF HasMax, Max

(***************************************************************************)
(* The numbers at finitely many positions are finitely many.               *)
(***************************************************************************)
LEMMA NumbersFinite ==
    ASSUME NEW n \in Nat, NEW f \in [1 .. n -> Nat], NEW P \in SUBSET (1 .. n)
    PROVE  IsFiniteSet({0} \cup {f[k] : k \in P})
<1>0. IsFiniteSet(1 .. n)
  BY FS_Interval
<1>1. IsFiniteSet(P)
  BY <1>0, FS_Subset
<1> DEFINE T == {f[k] : k \in P}
           g == [k \in P |-> f[k]]
<1>2. g \in Surjection(P, T)
  BY DEF Surjection
<1>3. IsFiniteSet(T)
  BY <1>1, <1>2, FS_Surjection
<1>4. IsFiniteSet(T \cup {0})
  BY <1>3, FS_AddElement
<1>5. T \cup {0} = {0} \cup T
  OBVIOUS
<1> QED BY <1>4, <1>5

ReqRec == [place : Places, home : Instances \cup {Nobody}, conv : Conversations \cup {Nobody},
           since : Nat, last : Nat, aborted : BOOLEAN, partial : BOOLEAN,
           asked : Requests \cup {Nobody}]
SaveRec == [at : {"no", "read", "store", "over"}, number : Nat]
CancelRec == [at : {"free", "publish", "over"}, on : Instances \cup {Nobody},
              conv : Conversations \cup {Nobody}, of : Requests \cup {Nobody}]

LEMMA LastNumberIs ==
    ASSUME AgentTypeOK, NEW c \in Conversations
    PROVE  /\ LastNumber(c) \in Nat
           /\ LastNumber(c) = 0 \/ \E n \in 1 .. Len(log[c]) :
                                      n <= PageLimit /\ log[c][n].number = LastNumber(c)
           /\ \A n \in 1 .. Len(log[c]) : n <= PageLimit => log[c][n].number <= LastNumber(c)
<1>1. PICK s : s = log[c]
  OBVIOUS
<1>2. s \in Seq(Message) /\ Len(s) \in Nat
  BY <1>1 DEF AgentTypeOK
<1>3. \A n \in 1 .. Len(s) : s[n].number \in Nat
  <2>1. \A n \in 1 .. Len(s) : s[n] \in Message
    BY <1>2
  <2> QED BY <2>1 DEF Message
<1>4. PICK P \in SUBSET (1 .. Len(s)) : P = {n \in 1 .. Len(s) : n <= PageLimit}
  OBVIOUS
<1>5. PICK f : f = [n \in 1 .. Len(s) |-> s[n].number]
  OBVIOUS
<1>6. f \in [1 .. Len(s) -> Nat]
  BY <1>3, <1>5
<1>7. PICK T : T = {0} \cup {f[k] : k \in P}
  OBVIOUS
<1>8. IsFiniteSet(T) /\ T \in SUBSET Nat /\ T # {}
  BY <1>2, <1>4, <1>6, <1>7, NumbersFinite
<1>9. Max(T) \in T /\ \A y \in T : Max(T) >= y
  BY <1>8, MaxIs
<1>10. LastNumber(c) = Max(T)
  <2>1. T = {0} \cup {s[n].number : n \in P}
    BY <1>4, <1>5, <1>7
  <2> QED BY <1>1, <1>4, <2>1 DEF LastNumber
<1>11. Max(T) \in Nat
  BY <1>8, <1>9
<1>12. Max(T) = 0 \/ \E n \in 1 .. Len(s) : n <= PageLimit /\ s[n].number = Max(T)
  BY <1>4, <1>5, <1>7, <1>9
<1>13. \A n \in 1 .. Len(s) : n <= PageLimit => s[n].number \in T
  BY <1>4, <1>5, <1>7
<1>14. \A n \in 1 .. Len(s) : n <= PageLimit => s[n].number <= Max(T)
  BY <1>3, <1>9, <1>11, <1>13
<1> QED BY <1>1, <1>10, <1>11, <1>12, <1>14

(***************************************************************************)
(* What is read of a conversation are messages.                            *)
(***************************************************************************)
LEMMA PageIs ==
    ASSUME AgentTypeOK, NEW c \in Conversations, NEW since \in Nat
    PROVE  Page(c, since) \in Seq(Message)
<1>1. log[c] \in Seq(Message)
  BY DEF AgentTypeOK
<1>2. PICK P \in SUBSET (1 .. Len(log[c])) :
         P = {n \in 1 .. Len(log[c]) : since = 0 \/ log[c][n].era >= since}
  OBVIOUS
<1>3. PICK all \in Seq(Message) : all = Subsequence(log[c], P)
  BY <1>1, SubsequenceIs
<1>4. PICK z : z = Max({1, Len(all) - MaxMessages + 1})
  OBVIOUS
<1>5. z \in Nat /\ z >= 1
  <2>1. PICK y \in Int : y = Len(all) - MaxMessages + 1
    BY AgentAssumption
  <2>2. \E x \in {1, y} : \A v \in {1, y} : x >= v
    BY <2>1
  <2>3. z \in {1, y} /\ \A v \in {1, y} : z >= v
    BY <1>4, <2>1, <2>2 DEF Max
  <2> QED BY <2>1, <2>3
<1>6. SubSeq(all, z, Len(all)) \in Seq(Message)
  BY <1>5
<1>7. Page(c, since) = SubSeq(all, z, Len(all))
  BY <1>2, <1>3, <1>4 DEF Page
<1> QED BY <1>6, <1>7

LEMMA AskedLastIs ==
    ASSUME NEW w \in Seq(Message)
    PROVE  AskedLast(w) \in Requests \cup {Nobody}
<1>1. PICK Q : Q = {n \in Shown(w) : w[n].role = "user"}
  OBVIOUS
<1>2. Q \in SUBSET (1 .. Len(w)) /\ Len(w) \in Nat
  BY <1>1 DEF Shown
<1>3. AskedLast(w) = IF Q = {} THEN Nobody ELSE w[Max(Q)].of
  BY <1>1 DEF AskedLast
<1>4. CASE Q # {}
  <2>1. IsFiniteSet(1 .. Len(w))
    BY <1>2, FS_Interval
  <2>2. IsFiniteSet(Q)
    BY <1>2, <2>1, FS_Subset
  <2>3. Q \in SUBSET Nat
    BY <1>2
  <2>4. PICK m \in Q : m = Max(Q)
    BY <1>4, <2>2, <2>3, MaxIs
  <2>5. w[m] \in Message
    BY <1>2, <2>4
  <2>6. w[m].of \in Requests \cup {Nobody}
    BY <2>5 DEF Message
  <2> QED BY <1>3, <1>4, <2>4, <2>6
<1> QED BY <1>3, <1>4

LEMMA WindowIs ==
    ASSUME AgentTypeOK, NEW r \in Requests, req[r].conv \in Conversations
    PROVE  Window(r) \in Seq(Message)
<1>1. req[r].since \in Nat /\ req[r].last \in Nat /\ era[req[r].conv] \in Nat
  BY DEF AgentTypeOK
<1>2. PICK page \in Seq(Message) : page = Page(req[r].conv, req[r].since)
  BY <1>1, PageIs
<1>3. PICK mine \in Message : mine = [role |-> "user", number |-> req[r].last + 1, of |-> r,
                                      era |-> era[req[r].conv], error |-> FALSE]
  <2>0. req[r].last + 1 \in Nat
    BY <1>1
  <2>1. PICK l, e : l = req[r].last + 1 /\ e = era[req[r].conv] /\ l \in Nat /\ e \in Nat
    BY <1>1, <2>0, Zenon
  <2>2. [role |-> "user", number |-> l, of |-> r, era |-> e, error |-> FALSE] \in Message
    BY <2>1 DEF Message
  <2> QED BY <2>1, <2>2
<1>4. Append(page, mine) \in Seq(Message)
  OBVIOUS
<1> QED BY <1>2, <1>3, <1>4 DEF Window

-----------------------------------------------------------------------------
Of(r, d, role) == {n \in 1 .. Len(log[d]) : log[d][n].of = r /\ log[d][n].role = role}

LEMMA OfIs ==
    ASSUME AgentTypeOK, NEW r, NEW d \in Conversations, NEW role
    PROVE  /\ IsFiniteSet(Of(r, d, role)) /\ Cardinality(Of(r, d, role)) \in Nat
           /\ log[d] \in Seq(Message) /\ Len(log[d]) \in Nat
           /\ \A n \in 1 .. Len(log[d]) : log[d][n] \in Message /\ log[d][n].number \in Nat
<1>1. log[d] \in Seq(Message) /\ Len(log[d]) \in Nat
  BY DEF AgentTypeOK
<1>2. IsFiniteSet(1 .. Len(log[d]))
  BY <1>1, FS_Interval
<1>3. Of(r, d, role) \in SUBSET (1 .. Len(log[d]))
  BY DEF Of
<1>4. IsFiniteSet(Of(r, d, role))
  BY <1>2, <1>3, FS_Subset
<1>5. \A n \in 1 .. Len(log[d]) : log[d][n] \in Message
  BY <1>1
<1> QED BY <1>1, <1>4, <1>5, FS_CardinalityType DEF Message

(***************************************************************************)
(* A message is put behind the others.                                     *)
(***************************************************************************)
Appended(c, m) == log' = [log EXCEPT ![c] = Append(@, m)]

LEMMA Appending ==
    ASSUME AgentTypeOK, NEW c \in Conversations, NEW m \in Message, Appended(c, m)
    PROVE  /\ log' \in [Conversations -> Seq(Message)]
           /\ Len(log'[c]) = Len(log[c]) + 1 /\ log'[c][Len(log[c]) + 1] = m
           /\ \A d \in Conversations : d # c => log'[d] = log[d]
           /\ \A n \in 1 .. Len(log[c]) : n \in 1 .. Len(log'[c]) /\ log'[c][n] = log[c][n]
           /\ \A n \in 1 .. Len(log'[c]) : n \in 1 .. Len(log[c]) \/ n = Len(log[c]) + 1
<1>1. log \in [Conversations -> Seq(Message)] /\ log[c] \in Seq(Message) /\ Len(log[c]) \in Nat
  BY DEF AgentTypeOK
<1>2. PICK s \in Seq(Message) : s = Append(log[c], m)
  <2>1. PICK t \in Seq(Message) : t = log[c]
    BY <1>1
  <2>2. Append(t, m) \in Seq(Message)
    OBVIOUS
  <2> QED BY <2>1, <2>2
<1>3. /\ Len(s) = Len(log[c]) + 1 /\ s[Len(log[c]) + 1] = m
      /\ \A n \in 1 .. Len(log[c]) : s[n] = log[c][n]
  BY <1>1, <1>2
<1>4. log' = [log EXCEPT ![c] = s]
  BY <1>2 DEF Appended
<1>5. /\ log' \in [Conversations -> Seq(Message)] /\ log'[c] = s
      /\ \A d \in Conversations : d # c => log'[d] = log[d]
  BY <1>1, <1>4
<1>6. \A n \in 1 .. Len(log[c]) : n \in 1 .. Len(s)
  BY <1>1, <1>3
<1>7. \A n \in 1 .. Len(s) : n \in 1 .. Len(log[c]) \/ n = Len(log[c]) + 1
  BY <1>1, <1>3
<1> QED BY <1>3, <1>5, <1>6, <1>7

LEMMA AppendedOf ==
    ASSUME AgentTypeOK, NEW c \in Conversations, NEW m \in Message, Appended(c, m),
           NEW o \in Requests, NEW d \in Conversations, NEW role \in {"user", "assistant"}
    PROVE  /\ d = c /\ m.of = o /\ m.role = role =>
                /\ Cardinality(Of(o, d, role)') = Cardinality(Of(o, d, role)) + 1
                /\ Of(o, d, role)' = Of(o, d, role) \cup {Len(log[d]) + 1}
           /\ ~(d = c /\ m.of = o /\ m.role = role) => Of(o, d, role)' = Of(o, d, role)
<1>1. /\ IsFiniteSet(Of(o, d, role)) /\ Len(log[d]) \in Nat /\ Len(log[c]) \in Nat
  BY OfIs
<1>2. /\ Len(log'[c]) = Len(log[c]) + 1 /\ log'[c][Len(log[c]) + 1] = m
      /\ \A e \in Conversations : e # c => log'[e] = log[e]
      /\ \A n \in 1 .. Len(log[c]) : n \in 1 .. Len(log'[c]) /\ log'[c][n] = log[c][n]
      /\ \A n \in 1 .. Len(log'[c]) : n \in 1 .. Len(log[c]) \/ n = Len(log[c]) + 1
  BY Appending
<1>3. CASE d # c
  BY <1>2, <1>3 DEF Of
<1>4. CASE d = c
  <2>1. Len(log[c]) + 1 \in 1 .. Len(log'[c]) /\ Len(log[c]) + 1 \notin 1 .. Len(log[c])
    BY <1>1, <1>2
  <2>2. CASE m.of = o /\ m.role = role
    <3>1. Of(o, c, role)' = Of(o, c, role) \cup {Len(log[c]) + 1}
      BY <1>2, <2>1, <2>2 DEF Of
    <3>2. Len(log[c]) + 1 \notin Of(o, c, role)
      BY <2>1 DEF Of
    <3>3. PICK S : S = Of(o, c, role) /\ IsFiniteSet(S)
      BY <1>1, <1>4
    <3>4. Cardinality(S \cup {Len(log[c]) + 1}) = Cardinality(S) + 1
      BY <3>2, <3>3, FS_AddElement
    <3>5. /\ Cardinality(Of(o, d, role)') = Cardinality(Of(o, d, role)) + 1
          /\ Of(o, d, role)' = Of(o, d, role) \cup {Len(log[d]) + 1}
      BY <1>4, <3>1, <3>3, <3>4
    <3> QED BY <1>4, <2>2, <3>5
  <2>3. CASE ~(m.of = o /\ m.role = role)
    <3>1. Of(o, c, role)' = Of(o, c, role)
      BY <1>2, <2>1, <2>3 DEF Of
    <3> QED BY <1>4, <2>3, <3>1
  <2> QED BY <2>2, <2>3
<1> QED BY <1>3, <1>4

(***************************************************************************)
(* The questions of a request are taken out.                               *)
(***************************************************************************)
Deleted(c, r) == log' = [log EXCEPT ![c] = Subsequence(@, (1 .. Len(log[c])) \ Of(r, c, "user"))]

LEMMA Deleting ==
    ASSUME AgentTypeOK, NEW c \in Conversations, NEW r \in Requests, Deleted(c, r),
           NEW P, P = (1 .. Len(log[c])) \ Of(r, c, "user")
    PROVE  /\ log' \in [Conversations -> Seq(Message)] /\ Len(log'[c]) \in Nat
           /\ \A d \in Conversations : d # c => log'[d] = log[d]
           /\ \A k \in 1 .. Len(log'[c]) :
                 \E n \in 1 .. Len(log[c]) : /\ n \notin Of(r, c, "user") /\ log'[c][k] = log[c][n]
                                             /\ k = Rank(P, n)
           /\ \A n \in 1 .. Len(log[c]) : n \notin Of(r, c, "user") =>
                 \E k \in 1 .. Len(log'[c]) : /\ k <= n /\ log'[c][k] = log[c][n]
                                              /\ k = Rank(P, n)
           /\ \A m, n \in 1 .. Len(log[c]) :
                 /\ m \notin Of(r, c, "user") /\ n \notin Of(r, c, "user") /\ m # n
                 => Rank(P, m) # Rank(P, n)
<1>1. log \in [Conversations -> Seq(Message)] /\ log[c] \in Seq(Message) /\ Len(log[c]) \in Nat
  BY DEF AgentTypeOK
<1>2. P \in SUBSET (1 .. Len(log[c])) /\ P = (1 .. Len(log[c])) \ Of(r, c, "user")
  OBVIOUS
<1>3. PICK s : s = Subsequence(log[c], P)
  OBVIOUS
<1>4. /\ s \in Seq(Message) /\ Len(s) = Cardinality(P) /\ Len(s) \in Nat
      /\ \A k \in 1 .. Len(s) : Nth(P, k) \in P /\ Rank(P, Nth(P, k)) = k /\ s[k] = log[c][Nth(P, k)]
      /\ \A i \in P : /\ Rank(P, i) \in 1 .. Len(s) /\ Nth(P, Rank(P, i)) = i
                      /\ Rank(P, i) <= i /\ s[Rank(P, i)] = log[c][i]
  <2>1. PICK t \in Seq(Message) : t = log[c]
    BY <1>1
  <2>2. P \in SUBSET (1 .. Len(t))
    BY <1>2, <2>1
  <2>3. PICK Q \in SUBSET (1 .. Len(t)) : Q = P
    BY <2>2
  <2>4. /\ Subsequence(t, Q) \in Seq(Message)
        /\ Len(Subsequence(t, Q)) = Cardinality(Q) /\ Cardinality(Q) \in Nat
        /\ \A k \in 1 .. Cardinality(Q) :
              /\ Nth(Q, k) \in Q /\ Rank(Q, Nth(Q, k)) = k
              /\ Subsequence(t, Q)[k] = t[Nth(Q, k)]
        /\ \A i \in Q : /\ Rank(Q, i) \in 1 .. Cardinality(Q) /\ Nth(Q, Rank(Q, i)) = i
                        /\ Rank(Q, i) <= i
                        /\ Subsequence(t, Q)[Rank(Q, i)] = t[i]
        /\ \A i, j \in Q : i < j => Rank(Q, i) < Rank(Q, j)
    BY SubsequenceIs
  <2> QED BY <1>3, <2>1, <2>3, <2>4
<1>5. log' = [log EXCEPT ![c] = s]
  BY <1>2, <1>3 DEF Deleted
<1>6. /\ log' \in [Conversations -> Seq(Message)] /\ log'[c] = s
      /\ \A d \in Conversations : d # c => log'[d] = log[d]
  BY <1>1, <1>4, <1>5
<1>7. \A k \in 1 .. Len(s) : \E n \in P : s[k] = log[c][n] /\ k = Rank(P, n)
  BY <1>4
<1>8. \A i, j \in P : i # j => Rank(P, i) # Rank(P, j)
  BY <1>4
<1>9. \A n \in 1 .. Len(log[c]) : n \notin Of(r, c, "user") <=> n \in P
  BY <1>2
<1>10. \A n \in P : n \in 1 .. Len(log[c])
  BY <1>2
<1> HIDE <1>5
<1> QED BY <1>2, <1>4, <1>6, <1>7, <1>8, <1>9, <1>10

LEMMA DeletedOf ==
    ASSUME AgentTypeOK, NEW c \in Conversations, NEW r \in Requests, Deleted(c, r),
           NEW o \in Requests, NEW d \in Conversations, NEW role
    PROVE  /\ d = c /\ o = r /\ role = "user" => Of(o, d, role)' = {}
           /\ ~(d = c /\ o = r /\ role = "user") =>
                 /\ Cardinality(Of(o, d, role)') = Cardinality(Of(o, d, role))
                 /\ \A k \in Of(o, d, role)' : \E n \in Of(o, d, role) : log'[d][k] = log[d][n]
<1>1. IsFiniteSet(Of(o, d, role)) /\ Len(log[d]) \in Nat
  BY OfIs
<1>2. PICK P : P = (1 .. Len(log[c])) \ Of(r, c, "user")
  OBVIOUS
<1>3. /\ \A e \in Conversations : e # c => log'[e] = log[e]
      /\ \A k \in 1 .. Len(log'[c]) :
            \E n \in 1 .. Len(log[c]) : /\ n \notin Of(r, c, "user") /\ log'[c][k] = log[c][n]
                                        /\ k = Rank(P, n)
      /\ \A n \in 1 .. Len(log[c]) : n \notin Of(r, c, "user") =>
            \E k \in 1 .. Len(log'[c]) : log'[c][k] = log[c][n] /\ k = Rank(P, n)
      /\ \A m, n \in 1 .. Len(log[c]) :
            m \notin Of(r, c, "user") /\ n \notin Of(r, c, "user") /\ m # n => Rank(P, m) # Rank(P, n)
  BY <1>2, Deleting, SMTT(30)
<1>4. CASE d # c
  <2>1. Of(o, d, role)' = Of(o, d, role) /\ log'[d] = log[d]
    BY <1>3, <1>4 DEF Of
  <2> QED BY <1>4, <2>1
<1>5. CASE d = c /\ o = r /\ role = "user"
  <2>1. ASSUME NEW k \in Of(o, d, role)' PROVE FALSE
    <3>1. k \in 1 .. Len(log'[c]) /\ log'[c][k].of = r /\ log'[c][k].role = "user"
      BY <1>5, <2>1 DEF Of
    <3>2. PICK n \in 1 .. Len(log[c]) : n \notin Of(r, c, "user") /\ log'[c][k] = log[c][n]
      BY <1>3, <3>1
    <3> QED BY <3>1, <3>2 DEF Of
  <2> QED BY <1>5, <2>1
<1>6. CASE d = c /\ ~(o = r /\ role = "user")
  <2>1. \A n \in Of(o, c, role) : n \in 1 .. Len(log[c]) /\ n \notin Of(r, c, "user")
    BY <1>6 DEF Of
  <2>2. PICK S, T : S = Of(o, c, role) /\ T = Of(o, c, role)'
    OBVIOUS
  <2>3. ASSUME NEW n \in S PROVE Rank(P, n) \in T /\ log'[c][Rank(P, n)] = log[c][n]
    <3>1. PICK k \in 1 .. Len(log'[c]) : log'[c][k] = log[c][n] /\ k = Rank(P, n)
      BY <1>3, <2>1, <2>2
    <3>2. log[c][n].of = o /\ log[c][n].role = role
      BY <2>2 DEF Of
    <3> QED BY <2>2, <3>1, <3>2 DEF Of
  <2>4. ASSUME NEW k \in T PROVE \E n \in S : k = Rank(P, n) /\ log'[c][k] = log[c][n]
    <3>1. k \in 1 .. Len(log'[c]) /\ log'[c][k].of = o /\ log'[c][k].role = role
      BY <2>2 DEF Of
    <3>2. PICK n \in 1 .. Len(log[c]) : log'[c][k] = log[c][n] /\ k = Rank(P, n)
      BY <1>3, <3>1
    <3> QED BY <2>2, <3>1, <3>2 DEF Of
  <2>5. \A m, n \in S : Rank(P, m) = Rank(P, n) => m = n
    BY <1>3, <2>1, <2>2
  <2>6. PICK f : f = [n \in S |-> Rank(P, n)]
    OBVIOUS
  <2>7. f \in [S -> T] /\ \A n \in S : f[n] = Rank(P, n)
    BY <2>3, <2>6
  <2>8. f \in Bijection(S, T)
    BY <2>4, <2>5, <2>7 DEF Bijection, Injection, Surjection, IsInjective
  <2>9. Cardinality(T) = Cardinality(S)
    BY <1>1, <1>6, <2>2, <2>8, FS_Bijection DEF ExistsBijection
  <2> QED BY <1>6, <2>2, <2>4, <2>9
<1> QED BY <1>4, <1>5, <1>6

LEMMA DeletingKeeps ==
    ASSUME AgentTypeOK, NEW c \in Conversations, NEW r \in Requests, Deleted(c, r)
    PROVE  /\ Len(log'[c]) \in Nat
           /\ \A n \in 1 .. Len(log[c]) : n \notin Of(r, c, "user") =>
                 \E k \in 1 .. Len(log'[c]) : k <= n /\ log'[c][k] = log[c][n]
<1>1. PICK P : P = (1 .. Len(log[c])) \ Of(r, c, "user")
  OBVIOUS
<1>2. /\ Len(log'[c]) \in Nat
      /\ \A n \in 1 .. Len(log[c]) : n \notin Of(r, c, "user") =>
            \E k \in 1 .. Len(log'[c]) : /\ k <= n /\ log'[c][k] = log[c][n]
                                         /\ k = Rank(P, n)
  BY <1>1, Deleting
<1> QED BY <1>2

-----------------------------------------------------------------------------
Early == {"idle", "configure", "number", "question", "window", "refused", "summary",
          "delete", "recreate", "again"}
Working == {"configure", "number", "question", "window", "refused", "summary",
            "delete", "recreate", "again", "model", "partial"}

\* The registry names a request on its instance, under its conversation, while
\* the model or what comes before it is at work; and it names every such request
\* that was not aborted, if it is alone.
Registered ==
    /\ \A i \in Instances, c \in Conversations : registry[i][c] # Nobody =>
         /\ req[registry[i][c]].home = i /\ req[registry[i][c]].conv = c
         /\ req[registry[i][c]].place \in Working
    /\ \A r \in Requests : req[r].place \in Working /\ ~req[r].aborted /\ r \notin crowded =>
         registry[req[r].home][req[r].conv] = r

\* Who is not alone is known, before anything comes of it.
CrowdsAreKnown ==
    /\ \A r, o \in Requests, c \in Conversations :
         r # o /\ UnderWay(r, c) /\ UnderWay(o, c) => r \in crowded
    /\ \A r \in Requests, c \in Conversations : CancelOf(c) /\ UnderWay(r, c) => r \in crowded
    /\ \A k \in Cancels : cancel[k].at = "publish" =>
         cancel[k].on \in Instances /\ cancel[k].conv \in Conversations /\ cancel[k].of \in Requests

\* The catch of a request saves exactly while the request waits for it, and
\* onClose() only for a request that it has aborted.
Bookkept(r) ==
    /\ req[r].place = "partial" => saves[<<r, "catch">>].at \in {"read", "store"}
    /\ saves[<<r, "catch">>].at \in {"read", "store"} => req[r].place = "partial"
    /\ saves[<<r, "close">>].at # "no" => req[r].aborted
    /\ req[r].place \in Early => /\ saves[<<r, "catch">>].at = "no"
                                 /\ saves[<<r, "close">>].at = "no" /\ r \notin hurt
    /\ req[r].conv # Nobody => req[r].home # Nobody /\ req[r].place # "idle"
    /\ req[r].conv = Nobody =>
         /\ req[r].place = "idle" \/ (req[r].place = "over" /\ r \in hurt)
         /\ saves[<<r, "catch">>].at = "no" /\ saves[<<r, "close">>].at = "no"

Asked(place) == IF place \in {"configure", "number", "question", "declined", "recreate"} THEN 0 ELSE 1
Answered(r) == IF req[r].place \in {"last", "over"}
               THEN IF saves[<<r, "close">>].at = "over" THEN 2 ELSE 1
               ELSE IF saves[<<r, "close">>].at = "over" THEN 1 ELSE 0

\* The question and the answers of a request that met no failed operation.
Counted(r) ==
    /\ req[r].conv = Nobody => \A d \in Conversations, role \in {"user", "assistant"} :
                                  Of(r, d, role) = {}
    /\ r \notin hurt /\ req[r].conv # Nobody =>
         /\ Cardinality(Of(r, req[r].conv, "user")) = Asked(req[r].place)
         /\ Cardinality(Of(r, req[r].conv, "assistant")) = Answered(r)

\* The number that the request took for the last one is still there to be read,
\* on the first page of the conversation.
Backed(r) ==
    \/ req[r].last = 0
    \/ \E n \in 1 .. Len(log[req[r].conv]) :
         /\ n <= PageLimit /\ log[req[r].conv][n].of # r
         /\ log[req[r].conv][n].number >= req[r].last

Numbered(r) ==
    r \notin crowded /\ req[r].conv # Nobody =>
      /\ \A n \in Of(r, req[r].conv, "user") : log[req[r].conv][n].number = req[r].last + 1
      /\ \A n \in Of(r, req[r].conv, "assistant") : log[req[r].conv][n].number >= req[r].last + 2
      /\ \A who \in Saver : saves[<<r, who>>].at = "store" => saves[<<r, who>>].number >= req[r].last
      /\ req[r].place \notin {"configure", "number"} /\ ~Settled(r) => Backed(r)

AgentInv == /\ AgentTypeOK /\ Registered /\ CrowdsAreKnown
            /\ \A r \in Requests : Bookkept(r) /\ Counted(r) /\ Numbered(r)

LEMMA AgentTypes ==
    ASSUME AgentInv
    PROVE  /\ log \in [Conversations -> Seq(Message)] /\ era \in [Conversations -> Nat]
           /\ registry \in [Instances -> [Conversations -> Requests \cup {Nobody}]]
           /\ req \in [Requests -> ReqRec] /\ saves \in [Requests \X Saver -> SaveRec]
           /\ cancel \in [Cancels -> CancelRec] /\ mail \subseteq Instances \X Conversations
           /\ failures \in 0 .. MaxTrouble /\ blocked \in 0 .. MaxTrouble /\ MaxTrouble \in Nat
           /\ hurt \subseteq Requests /\ crowded \subseteq Requests
           /\ Nobody \notin Requests /\ Nobody \notin Conversations /\ Nobody \notin Instances
  BY AgentAssumption DEF AgentInv, AgentTypeOK, ReqRec, SaveRec, CancelRec

LEMMA TypedAgain ==
    ASSUME log' \in [Conversations -> Seq(Message)], era' \in [Conversations -> Nat],
           registry' \in [Instances -> [Conversations -> Requests \cup {Nobody}]],
           req' \in [Requests -> ReqRec], saves' \in [Requests \X Saver -> SaveRec],
           cancel' \in [Cancels -> CancelRec], mail' \subseteq Instances \X Conversations,
           failures' \in 0 .. MaxTrouble, blocked' \in 0 .. MaxTrouble,
           hurt' \subseteq Requests, crowded' \subseteq Requests
    PROVE  AgentTypeOK'
  BY DEF AgentTypeOK, ReqRec, SaveRec, CancelRec

Active(r) == req[r].place # "idle" /\ ~Settled(r)

LEMMA ActiveIs ==
    ASSUME AgentInv, NEW r \in Requests, Active(r)
    PROVE  /\ req[r].conv \in Conversations /\ req[r].home \in Instances
           /\ UnderWay(r, req[r].conv)
           /\ \A o \in Requests : o # r /\ UnderWay(o, req[r].conv) => o \in crowded /\ r \in crowded
           /\ CancelOf(req[r].conv) => r \in crowded
<1>1. req[r] \in ReqRec
  BY AgentTypes
<1>2. req[r].conv \in Conversations \cup {Nobody} /\ req[r].home \in Instances \cup {Nobody}
  BY <1>1 DEF ReqRec
<1>3. Bookkept(r)
  BY DEF AgentInv
<1>4. req[r].conv # Nobody
  <2>1. CASE req[r].conv = Nobody
    <3>1. /\ req[r].place = "idle" \/ req[r].place = "over"
          /\ saves[<<r, "catch">>].at = "no" /\ saves[<<r, "close">>].at = "no"
      BY <1>3, <2>1 DEF Bookkept
    <3> QED BY <3>1 DEF Active, Settled, Saving, Saver
  <2> QED BY <2>1
<1>5. req[r].home # Nobody
  BY <1>3, <1>4 DEF Bookkept
<1>6. UnderWay(r, req[r].conv)
  BY DEF Active, UnderWay, At
<1> QED BY <1>2, <1>4, <1>5, <1>6 DEF AgentInv, CrowdsAreKnown

(***************************************************************************)
(* A step of one request, or of a save at its side.                        *)
(***************************************************************************)
Acts(r) ==
    /\ \A o \in Requests : o # r =>
         req'[o] = req[o] /\ \A who \in Saver : saves'[<<o, who>>] = saves[<<o, who>>]
    /\ req'[r].home = req[r].home /\ req'[r].conv = req[r].conv
    /\ req[r].aborted => req'[r].aborted
    /\ hurt' \in {hurt, hurt \cup {r}}
    /\ UNCHANGED <<cancel, mail, crowded>>

LEMMA StillUnderWay ==
    ASSUME AgentInv, NEW r \in Requests, Active(r), Acts(r), NEW o \in Requests, NEW c \in Conversations,
           UnderWay(o, c)'
    PROVE  UnderWay(o, c)
<1>1. CASE o = r
  <2>1. req[r].conv = c
    BY <1>1 DEF Acts, UnderWay
  <2> QED BY <1>1, <2>1, ActiveIs
<1>2. CASE o # r
  <2>1. req'[o] = req[o] /\ \A who \in Saver : saves'[<<o, who>>] = saves[<<o, who>>]
    BY <1>2 DEF Acts
  <2> QED BY <2>1 DEF UnderWay, Settled, Saving, At
<1> QED BY <1>1, <1>2

LEMMA ActsCrowds == ASSUME AgentInv, NEW r \in Requests, Active(r), Acts(r) PROVE CrowdsAreKnown'
<1>1. UNCHANGED <<cancel, mail, crowded>>
  BY DEF Acts
<1>2. \A o \in Requests, c \in Conversations : UnderWay(o, c)' => UnderWay(o, c)
  BY StillUnderWay
<1>3. \A c \in Conversations : CancelOf(c)' => CancelOf(c)
  BY <1>1 DEF CancelOf
<1> QED BY <1>1, <1>2, <1>3 DEF AgentInv, CrowdsAreKnown

LEMMA ActsInRegister ==
    ASSUME AgentInv, NEW r \in Requests, Active(r), Acts(r), UNCHANGED registry,
           req[r].place \in Working <=> req'[r].place \in Working
    PROVE  Registered'
<1>1. \A o \in Requests : /\ req'[o].home = req[o].home /\ req'[o].conv = req[o].conv
                          /\ req[o].place \in Working <=> req'[o].place \in Working
                          /\ req[o].aborted => req'[o].aborted
  BY DEF Acts
<1>2. \A i \in Instances, c \in Conversations : registry[i][c] \in Requests \cup {Nobody}
  BY AgentTypes
<1>3. crowded' = crowded /\ registry' = registry
  BY DEF Acts
<1>4. ASSUME NEW i \in Instances, NEW c \in Conversations, registry'[i][c] # Nobody
      PROVE  /\ req'[registry'[i][c]].home = i /\ req'[registry'[i][c]].conv = c
             /\ req'[registry'[i][c]].place \in Working
  <2>1. PICK o \in Requests : o = registry[i][c]
    BY <1>2, <1>3, <1>4
  <2>2. req[o].home = i /\ req[o].conv = c /\ req[o].place \in Working
    BY <1>3, <1>4, <2>1 DEF AgentInv, Registered
  <2> QED BY <1>1, <1>3, <2>1, <2>2
<1>5. ASSUME NEW o \in Requests, req'[o].place \in Working, ~req'[o].aborted, o \notin crowded'
      PROVE  registry'[req'[o].home][req'[o].conv] = o
  <2>1. registry[req[o].home][req[o].conv] = o
    BY <1>1, <1>3, <1>5 DEF AgentInv, Registered
  <2> QED BY <1>1, <1>3, <2>1
<1> QED BY <1>4, <1>5 DEF Registered

LEMMA ActsUnregistered ==
    ASSUME AgentInv, NEW r \in Requests, Active(r), Acts(r), Unregistered(r),
           req'[r].place \in Working => req'[r].aborted
    PROVE  Registered' /\ registry' \in [Instances -> [Conversations -> Requests \cup {Nobody}]]
<1>1. PICK h \in Instances, d \in Conversations : h = req[r].home /\ d = req[r].conv
  BY ActiveIs
<1>2. \A o \in Requests : /\ req'[o].home = req[o].home /\ req'[o].conv = req[o].conv
                          /\ o # r => req'[o] = req[o]
  BY DEF Acts
<1>3. crowded' = crowded
  BY DEF Acts
<1>4. registry \in [Instances -> [Conversations -> Requests \cup {Nobody}]]
  BY AgentTypes
<1>5. registry' = [registry EXCEPT ![h][d] = Nobody]
  BY <1>1 DEF Unregistered
<1>6. /\ registry' \in [Instances -> [Conversations -> Requests \cup {Nobody}]]
      /\ registry'[h][d] = Nobody
      /\ \A i \in Instances, c \in Conversations : ~(i = h /\ c = d) => registry'[i][c] = registry[i][c]
  BY <1>4, <1>5
<1>7. ASSUME NEW i \in Instances, NEW c \in Conversations, registry'[i][c] # Nobody
      PROVE  /\ req'[registry'[i][c]].home = i /\ req'[registry'[i][c]].conv = c
             /\ req'[registry'[i][c]].place \in Working
  <2>1. registry'[i][c] = registry[i][c] /\ ~(i = h /\ c = d)
    BY <1>6, <1>7
  <2>2. PICK o \in Requests : o = registry[i][c]
    BY <1>4, <1>7, <2>1
  <2>3. req[o].home = i /\ req[o].conv = c /\ req[o].place \in Working
    BY <1>7, <2>1, <2>2 DEF AgentInv, Registered
  <2>4. o # r
    BY <1>1, <2>1, <2>3
  <2> QED BY <1>2, <2>1, <2>2, <2>3, <2>4
<1>8. ASSUME NEW o \in Requests, req'[o].place \in Working, ~req'[o].aborted, o \notin crowded'
      PROVE  registry'[req'[o].home][req'[o].conv] = o
  <2>1. o # r
    BY <1>8
  <2>2. req'[o] = req[o] /\ registry[req[o].home][req[o].conv] = o
    BY <1>2, <1>3, <1>8, <2>1 DEF AgentInv, Registered
  <2>3. Active(o)
    BY <1>8, <2>2 DEF Active, Settled, Working
  <2>4. req[o].conv \in Conversations /\ req[o].home \in Instances /\ UnderWay(o, req[o].conv)
    BY <2>3, ActiveIs
  <2>5. req[o].conv # d
    BY <1>1, <1>3, <1>8, <2>1, <2>4, ActiveIs
  <2> QED BY <1>6, <2>2, <2>4, <2>5
<1> QED BY <1>6, <1>7, <1>8 DEF Registered

(***************************************************************************)
(* What it does to the messages of others.                                 *)
(***************************************************************************)
Logs(r) == \/ log' = log
           \/ \E m \in Message : m.of = r /\ Appended(req[r].conv, m)
           \/ Deleted(req[r].conv, r)

LEMMA LogsOf ==
    ASSUME AgentInv, NEW r \in Requests, Active(r), Logs(r)
    PROVE  /\ log' \in [Conversations -> Seq(Message)]
           /\ \A d \in Conversations : d # req[r].conv => log'[d] = log[d]
           /\ \A o \in Requests, d \in Conversations, role \in {"user", "assistant"} : o # r =>
                 /\ Cardinality(Of(o, d, role)') = Cardinality(Of(o, d, role))
                 /\ \A k \in Of(o, d, role)' : \E n \in Of(o, d, role) : log'[d][k] = log[d][n]
<1>1. AgentTypeOK /\ req[r].conv \in Conversations
  BY ActiveIs DEF AgentInv
<1>2. CASE log' = log
  <2>1. \A o, d, role : Of(o, d, role)' = Of(o, d, role)
    BY <1>2 DEF Of
  <2> QED BY <1>2, <2>1, AgentTypes
<1>3. ASSUME NEW m \in Message, m.of = r, Appended(req[r].conv, m)
      PROVE  /\ log' \in [Conversations -> Seq(Message)]
             /\ \A d \in Conversations : d # req[r].conv => log'[d] = log[d]
             /\ \A o \in Requests, d \in Conversations, role \in {"user", "assistant"} : o # r =>
                   /\ Cardinality(Of(o, d, role)') = Cardinality(Of(o, d, role))
                   /\ \A k \in Of(o, d, role)' : \E n \in Of(o, d, role) : log'[d][k] = log[d][n]
  <2>1. /\ log' \in [Conversations -> Seq(Message)]
        /\ \A d \in Conversations : d # req[r].conv => log'[d] = log[d]
        /\ \A n \in 1 .. Len(log[req[r].conv]) : log'[req[r].conv][n] = log[req[r].conv][n]
    BY <1>1, <1>3, Appending
  <2>2. ASSUME NEW o \in Requests, NEW d \in Conversations, NEW role \in {"user", "assistant"}, o # r
        PROVE  /\ Cardinality(Of(o, d, role)') = Cardinality(Of(o, d, role))
               /\ \A k \in Of(o, d, role)' : \E n \in Of(o, d, role) : log'[d][k] = log[d][n]
    <3>1. Of(o, d, role)' = Of(o, d, role)
      <4>1. PICK c \in Conversations : c = req[r].conv /\ Appended(c, m)
        BY <1>1, <1>3
      <4>2. ~(d = c /\ m.of = o /\ m.role = role)
        BY <1>3, <2>2
      <4> QED BY <1>1, <4>1, <4>2, AppendedOf
    <3>2. \A n \in Of(o, d, role) : n \in 1 .. Len(log[d])
      BY DEF Of
    <3> QED BY <2>1, <3>1, <3>2
  <2> QED BY <2>1, <2>2
<1>4. CASE Deleted(req[r].conv, r)
  <2>1. /\ log' \in [Conversations -> Seq(Message)]
        /\ \A d \in Conversations : d # req[r].conv => log'[d] = log[d]
    BY <1>1, <1>4, Deleting
  <2>2. ASSUME NEW o \in Requests, NEW d \in Conversations, NEW role \in {"user", "assistant"}, o # r
        PROVE  /\ Cardinality(Of(o, d, role)') = Cardinality(Of(o, d, role))
               /\ \A k \in Of(o, d, role)' : \E n \in Of(o, d, role) : log'[d][k] = log[d][n]
    BY <1>1, <1>4, <2>2, DeletedOf
  <2> QED BY <2>1, <2>2
<1> QED BY <1>2, <1>3, <1>4 DEF Logs

LEMMA ActsOnOthers ==
    ASSUME AgentInv, NEW r \in Requests, Active(r), Acts(r), Logs(r), NEW o \in Requests, o # r
    PROVE  Bookkept(o)' /\ Counted(o)' /\ Numbered(o)'
<1>1. /\ req'[o] = req[o] /\ crowded' = crowded /\ (o \in hurt' <=> o \in hurt)
      /\ saves'[<<o, "catch">>] = saves[<<o, "catch">>] /\ saves'[<<o, "close">>] = saves[<<o, "close">>]
  BY DEF Acts, Saver
<1>2. Bookkept(o) /\ Counted(o) /\ Numbered(o)
  BY DEF AgentInv
<1>3. Bookkept(o)'
  BY <1>1, <1>2 DEF Bookkept
<1>4. req[o].conv \in Conversations \cup {Nobody}
  BY AgentTypes DEF ReqRec
<1>5. /\ \A d \in Conversations : d # req[r].conv => log'[d] = log[d]
      /\ \A d \in Conversations, role \in {"user", "assistant"} :
            /\ Cardinality(Of(o, d, role)') = Cardinality(Of(o, d, role))
            /\ \A k \in Of(o, d, role)' : \E n \in Of(o, d, role) : log'[d][k] = log[d][n]
  BY LogsOf
<1>6. Answered(o)' = Answered(o)
  BY <1>1 DEF Answered
<1>7. CASE req[o].conv = Nobody
  <2>1. \A d \in Conversations, role \in {"user", "assistant"} : Of(o, d, role)' = {}
    BY <1>2, <1>5, <1>7 DEF Counted
  <2> QED BY <1>1, <1>3, <1>7, <2>1 DEF Counted, Numbered
<1>8. CASE req[o].conv # Nobody
  <2>1. PICK d \in Conversations : d = req[o].conv
    BY <1>4, <1>8
  <2>2. /\ Cardinality(Of(o, d, "user")') = Cardinality(Of(o, d, "user"))
        /\ Cardinality(Of(o, d, "assistant")') = Cardinality(Of(o, d, "assistant"))
        /\ \A k \in Of(o, d, "user")' : \E n \in Of(o, d, "user") : log'[d][k] = log[d][n]
        /\ \A k \in Of(o, d, "assistant")' : \E n \in Of(o, d, "assistant") : log'[d][k] = log[d][n]
    BY <1>5
  <2>3. Counted(o)'
    BY <1>1, <1>2, <1>6, <1>8, <2>1, <2>2 DEF Counted
  <2>4. ASSUME o \notin crowded', req'[o].place \notin {"configure", "number"}, ~Settled(o)'
        PROVE  Backed(o)'
    <3>1. Settled(o)' <=> Settled(o)
      BY <1>1 DEF Settled, Saving, Saver
    <3>2. Backed(o)
      BY <1>1, <1>2, <1>8, <2>4, <3>1 DEF Numbered
    <3>3. Active(o)
      BY <1>2, <1>8, <2>4, <3>1 DEF Active, Bookkept
    <3>4. d # req[r].conv
      BY <1>1, <2>1, <2>4, <3>3, ActiveIs
    <3>5. log'[d] = log[d]
      BY <1>5, <3>4
    <3> QED BY <1>1, <2>1, <3>2, <3>5 DEF Backed
  <2>5. Numbered(o)'
    <3>1. SUFFICES ASSUME o \notin crowded' PROVE Numbered(o)'
      BY DEF Numbered
    <3>2. /\ \A n \in Of(o, d, "user") : log[d][n].number = req[o].last + 1
          /\ \A n \in Of(o, d, "assistant") : log[d][n].number >= req[o].last + 2
          /\ \A who \in Saver : saves[<<o, who>>].at = "store" => saves[<<o, who>>].number >= req[o].last
      BY <1>1, <1>2, <1>8, <2>1, <3>1 DEF Numbered
    <3>3. \A k \in Of(o, d, "user")' : log'[d][k].number = req[o].last + 1
      BY <2>2, <3>2
    <3>4. \A k \in Of(o, d, "assistant")' : log'[d][k].number >= req[o].last + 2
      BY <2>2, <3>2
    <3>5. \A who \in Saver : saves'[<<o, who>>].at = "store" => saves'[<<o, who>>].number >= req[o].last
      BY <1>1, <3>2 DEF Saver
    <3> QED BY <1>1, <2>1, <2>4, <3>1, <3>3, <3>4, <3>5 DEF Numbered
  <2> QED BY <1>3, <2>3, <2>5
<1> QED BY <1>7, <1>8

(***************************************************************************)
(* What it does to the messages of its own.                                *)
(***************************************************************************)
LEMMA OwnQuiet ==
    ASSUME AgentInv, NEW r \in Requests, Active(r), Acts(r), log' = log,
           req'[r].last = req[r].last,
           r \notin hurt' => /\ Asked(req'[r].place) = Asked(req[r].place)
                             /\ Answered(r)' = Answered(r),
           \A who \in Saver : saves'[<<r, who>>].at = "store" =>
              \/ saves'[<<r, who>>] = saves[<<r, who>>]
              \/ saves'[<<r, who>>].number = LastNumber(req[r].conv)
                 /\ req[r].place \notin {"configure", "number"},
           ~Settled(r)' /\ req'[r].place \notin {"configure", "number"}
              => req[r].place \notin {"configure", "number"}
    PROVE  Counted(r)' /\ Numbered(r)'
<1>1. PICK d \in Conversations : d = req[r].conv
  BY ActiveIs
<1>2. /\ req'[r].conv = d /\ crowded' = crowded /\ d # Nobody
      /\ r \notin hurt' => r \notin hurt
  BY <1>1, AgentTypes DEF Acts
<1>3. Counted(r) /\ Numbered(r)
  BY DEF AgentInv
<1>4. \A role : Of(r, d, role)' = Of(r, d, role)
  BY DEF Of
<1>5. Counted(r)'
  BY <1>1, <1>2, <1>3, <1>4 DEF Counted
<1>6. ASSUME r \notin crowded PROVE Numbered(r)'
  <2>1. /\ \A n \in Of(r, d, "user") : log[d][n].number = req[r].last + 1
        /\ \A n \in Of(r, d, "assistant") : log[d][n].number >= req[r].last + 2
        /\ \A who \in Saver : saves[<<r, who>>].at = "store" => saves[<<r, who>>].number >= req[r].last
        /\ req[r].place \notin {"configure", "number"} => Backed(r)
    BY <1>1, <1>2, <1>3, <1>6 DEF Numbered, Active
  <2>2. ASSUME req[r].place \notin {"configure", "number"} PROVE LastNumber(d) >= req[r].last
    <3>1. /\ LastNumber(d) \in Nat
          /\ \A n \in 1 .. Len(log[d]) : n <= PageLimit => log[d][n].number <= LastNumber(d)
      BY LastNumberIs DEF AgentInv
    <3>2. \A n \in 1 .. Len(log[d]) : log[d][n].number \in Nat
      BY OfIs DEF AgentInv
    <3>3. req[r].last \in Nat
      BY AgentTypes DEF ReqRec
    <3>4. req[r].last = 0 \/ \E n \in 1 .. Len(log[d]) : n <= PageLimit /\ log[d][n].number >= req[r].last
      BY <1>1, <2>1, <2>2 DEF Backed
    <3> QED BY <3>1, <3>2, <3>3, <3>4
  <2>3. \A who \in Saver : saves'[<<r, who>>].at = "store" => saves'[<<r, who>>].number >= req'[r].last
    BY <1>1, <2>1, <2>2
  <2>4. req'[r].place \notin {"configure", "number"} /\ ~Settled(r)' => Backed(r)'
    BY <1>1, <1>2, <2>1 DEF Backed
  <2> QED BY <1>2, <1>4, <2>1, <2>3, <2>4 DEF Numbered
<1> QED BY <1>2, <1>5, <1>6 DEF Numbered

LEMMA OwnAppended ==
    ASSUME AgentInv, NEW r \in Requests, Active(r), Acts(r),
           NEW m \in Message, m.of = r, Appended(req[r].conv, m),
           req'[r].last = req[r].last,
           req[r].place \notin {"configure", "number"},
           IF m.role = "user"
           THEN /\ m.number = req[r].last + 1
                /\ r \notin hurt' => /\ Asked(req'[r].place) = Asked(req[r].place) + 1
                                     /\ Answered(r)' = Answered(r)
           ELSE /\ r \notin crowded => m.number >= req[r].last + 2
                /\ r \notin hurt' => /\ Asked(req'[r].place) = Asked(req[r].place)
                                     /\ Answered(r)' = Answered(r) + 1,
           \A who \in Saver : saves'[<<r, who>>].at = "store" => saves'[<<r, who>>] = saves[<<r, who>>]
    PROVE  Counted(r)' /\ Numbered(r)'
<1>1. PICK d \in Conversations : d = req[r].conv
  BY ActiveIs
<1>2. /\ req'[r].conv = d /\ crowded' = crowded /\ d # Nobody
      /\ r \notin hurt' => r \notin hurt
  BY <1>1, AgentTypes DEF Acts
<1>3. Counted(r) /\ Numbered(r) /\ AgentTypeOK
  BY DEF AgentInv
<1>4. m.role \in {"user", "assistant"} /\ Appended(d, m)
  BY <1>1 DEF Message
<1>5. /\ Len(log'[d]) = Len(log[d]) + 1 /\ log'[d][Len(log[d]) + 1] = m /\ Len(log[d]) \in Nat
      /\ \A n \in 1 .. Len(log[d]) : n \in 1 .. Len(log'[d]) /\ log'[d][n] = log[d][n]
  BY <1>3, <1>4, Appending, OfIs
<1>8. /\ \A who \in Saver :
            r \notin crowded /\ saves'[<<r, who>>].at = "store" => saves'[<<r, who>>].number >= req[r].last
      /\ r \notin crowded => Backed(r)'
  <2>1. ASSUME r \notin crowded
        PROVE  /\ Backed(r)
               /\ \A who \in Saver : saves[<<r, who>>].at = "store" => saves[<<r, who>>].number >= req[r].last
    BY <1>1, <1>2, <1>3, <2>1 DEF Numbered, Active
  <2>2. ASSUME Backed(r) PROVE Backed(r)'
    <3>1. CASE req[r].last = 0
      BY <3>1 DEF Backed
    <3>2. CASE req[r].last # 0
      <4>1. PICK n \in 1 .. Len(log[d]) : /\ n <= PageLimit /\ log[d][n].of # r
                                         /\ log[d][n].number >= req[r].last
        BY <1>1, <2>2, <3>2 DEF Backed
      <4>2. n \in 1 .. Len(log'[d]) /\ log'[d][n] = log[d][n]
        BY <1>5
      <4> QED BY <1>2, <4>1, <4>2 DEF Backed
    <3> QED BY <3>1, <3>2
  <2> QED BY <2>1, <2>2
<1>6. CASE m.role = "user"
  <2>1. /\ Cardinality(Of(r, d, "user")') = Cardinality(Of(r, d, "user")) + 1
        /\ Of(r, d, "user")' = Of(r, d, "user") \cup {Len(log[d]) + 1}
        /\ Of(r, d, "assistant")' = Of(r, d, "assistant")
    <3>1. /\ Cardinality(Of(r, d, "user")') = Cardinality(Of(r, d, "user")) + 1
          /\ Of(r, d, "user")' = Of(r, d, "user") \cup {Len(log[d]) + 1}
      BY <1>3, <1>4, <1>6, AppendedOf
    <3>2. m.role # "assistant"
      BY <1>6
    <3>3. Of(r, d, "assistant")' = Of(r, d, "assistant")
      BY <1>3, <1>4, <3>2, AppendedOf
    <3> QED BY <3>1, <3>3
  <2>2. Counted(r)'
    BY <1>1, <1>2, <1>3, <1>6, <2>1 DEF Counted
  <2>3. ASSUME r \notin crowded
        PROVE  /\ \A n \in Of(r, d, "user")' : log'[d][n].number = req'[r].last + 1
               /\ \A n \in Of(r, d, "assistant")' : log'[d][n].number >= req'[r].last + 2
    <3>1. /\ \A n \in Of(r, d, "user") : n \in 1 .. Len(log[d]) /\ log[d][n].number = req[r].last + 1
          /\ \A n \in Of(r, d, "assistant") : n \in 1 .. Len(log[d]) /\ log[d][n].number >= req[r].last + 2
      BY <1>1, <1>2, <1>3, <2>3 DEF Numbered, Of
    <3> QED BY <1>5, <1>6, <2>1, <3>1
  <2>4. Numbered(r)'
    BY <1>1, <1>2, <1>8, <2>3 DEF Numbered
  <2> QED BY <2>2, <2>4
<1>7. CASE m.role # "user"
  <2>1. /\ Cardinality(Of(r, d, "assistant")') = Cardinality(Of(r, d, "assistant")) + 1
        /\ Of(r, d, "assistant")' = Of(r, d, "assistant") \cup {Len(log[d]) + 1}
        /\ Of(r, d, "user")' = Of(r, d, "user")
    BY <1>3, <1>4, <1>7, AppendedOf
  <2>2. Counted(r)'
    BY <1>1, <1>2, <1>3, <1>7, <2>1 DEF Counted
  <2>3. ASSUME r \notin crowded
        PROVE  /\ \A n \in Of(r, d, "user")' : log'[d][n].number = req'[r].last + 1
               /\ \A n \in Of(r, d, "assistant")' : log'[d][n].number >= req'[r].last + 2
    <3>1. /\ \A n \in Of(r, d, "user") : n \in 1 .. Len(log[d]) /\ log[d][n].number = req[r].last + 1
          /\ \A n \in Of(r, d, "assistant") : n \in 1 .. Len(log[d]) /\ log[d][n].number >= req[r].last + 2
      BY <1>1, <1>2, <1>3, <2>3 DEF Numbered, Of
    <3>2. \A n \in Of(r, d, "user")' : log'[d][n].number = req'[r].last + 1
      BY <1>5, <2>1, <3>1
    <3>3. m.number >= req'[r].last + 2
      BY <1>7, <2>3
    <3>4. \A n \in Of(r, d, "assistant")' : log'[d][n].number >= req'[r].last + 2
      BY <1>5, <2>1, <3>1, <3>3
    <3> QED BY <3>2, <3>4
  <2>4. Numbered(r)'
    BY <1>1, <1>2, <1>8, <2>3 DEF Numbered
  <2> QED BY <2>2, <2>4
<1> QED BY <1>6, <1>7

(***************************************************************************)
(* A request that acts: what is left to be shown of it.                    *)
(***************************************************************************)
LEMMA Acted ==
    ASSUME AgentInv, NEW r \in Requests, Active(r), Acts(r), Logs(r), AgentTypeOK', Registered',
           Bookkept(r)', Counted(r)', Numbered(r)'
    PROVE  AgentInv'
<1>1. \A o \in Requests : Bookkept(o)' /\ Counted(o)' /\ Numbered(o)'
  BY ActsOnOthers
<1> QED BY <1>1, ActsCrowds DEF AgentInv

LEMMA Updated ==
    ASSUME AgentInv, NEW r \in Requests, NEW v \in ReqRec, req' = [req EXCEPT ![r] = v]
    PROVE  /\ req' \in [Requests -> ReqRec] /\ req'[r] = v
           /\ \A o \in Requests : o # r => req'[o] = req[o]
<1>1. req \in [Requests -> ReqRec]
  BY AgentTypes
<1> QED BY <1>1

LEMMA FieldsOf ==
    ASSUME AgentInv, NEW r \in Requests
    PROVE  /\ req[r] \in ReqRec /\ req[r].place \in Places
           /\ req[r].home \in Instances \cup {Nobody} /\ req[r].conv \in Conversations \cup {Nobody}
           /\ req[r].since \in Nat /\ req[r].last \in Nat
           /\ req[r].aborted \in BOOLEAN /\ req[r].partial \in BOOLEAN
           /\ req[r].asked \in Requests \cup {Nobody}
<1>1. req[r] \in ReqRec
  BY AgentTypes
<1> QED BY <1>1 DEF ReqRec

\* The request goes on at another place, and nothing else of it changes.
Moves(r, place) ==
    /\ req' \in [Requests -> ReqRec]
    /\ \A o \in Requests : o # r => req'[o] = req[o]
    /\ req'[r].place = place /\ req'[r].home = req[r].home /\ req'[r].conv = req[r].conv
    /\ req'[r].last = req[r].last

LEMMA GoesIs ==
    ASSUME AgentInv, NEW r \in Requests, NEW p \in Places, Goes(r, p)
    PROVE  Moves(r, p) /\ req'[r].aborted = req[r].aborted /\ req'[r].partial = req[r].partial
<1>1. req[r] \in ReqRec
  BY AgentTypes
<1>2. PICK v : v = [req[r] EXCEPT !.place = p]
  OBVIOUS
<1>3. /\ v \in ReqRec /\ v.place = p /\ v.home = req[r].home /\ v.conv = req[r].conv
      /\ v.last = req[r].last /\ v.aborted = req[r].aborted /\ v.partial = req[r].partial
  BY <1>1, <1>2 DEF ReqRec
<1>4. req' = [req EXCEPT ![r] = v]
  BY <1>2 DEF Goes
<1>5. /\ req' \in [Requests -> ReqRec] /\ req'[r] = v
      /\ \A o \in Requests : o # r => req'[o] = req[o]
  BY <1>3, <1>4, Updated
<1> QED BY <1>3, <1>5 DEF Moves

LEMMA Together ==
    ASSUME AgentInv, NEW r \in Requests, Active(r), Acts(r), Logs(r),
           req' \in [Requests -> ReqRec], saves' \in [Requests \X Saver -> SaveRec],
           era' \in [Conversations -> Nat],
           failures' \in 0 .. MaxTrouble, blocked' \in 0 .. MaxTrouble,
           Bookkept(r)', Counted(r)', Numbered(r)',
           \/ UNCHANGED registry /\ (req[r].place \in Working <=> req'[r].place \in Working)
           \/ Unregistered(r) /\ (req'[r].place \in Working => req'[r].aborted)
    PROVE  AgentInv'
<1>1. log' \in [Conversations -> Seq(Message)]
  BY LogsOf
<1>2. /\ cancel' \in [Cancels -> CancelRec] /\ mail' \subseteq Instances \X Conversations
      /\ hurt' \subseteq Requests /\ crowded' \subseteq Requests
  BY AgentTypes DEF Acts
<1>3. Registered' /\ registry' \in [Instances -> [Conversations -> Requests \cup {Nobody}]]
  <2>1. CASE UNCHANGED registry /\ (req[r].place \in Working <=> req'[r].place \in Working)
    BY <2>1, AgentTypes, ActsInRegister
  <2>2. CASE Unregistered(r) /\ (req'[r].place \in Working => req'[r].aborted)
    BY <2>2, ActsUnregistered
  <2> QED BY <2>1, <2>2
<1>4. AgentTypeOK'
  BY <1>1, <1>2, <1>3, TypedAgain
<1> QED BY <1>3, <1>4, Acted

LEMMA MovesOn ==
    ASSUME AgentInv, NEW r \in Requests, Active(r), NEW p \in Places, Moves(r, p),
           req[r].aborted => req'[r].aborted,
           UNCHANGED <<saves, cancel, mail, crowded>>, hurt' \in {hurt, hurt \cup {r}},
           p \notin {"idle", "partial"}, req[r].place # "partial",
           p \in Early => req[r].place \in Early /\ hurt' = hurt
    PROVE  /\ Acts(r) /\ Bookkept(r)'
           /\ req'[r].place = p
           /\ (p \in {"last", "over"} <=> req[r].place \in {"last", "over"}) => Answered(r)' = Answered(r)
           /\ p \in {"last", "over"} /\ req[r].place \notin {"last", "over"} =>
                Answered(r)' = Answered(r) + 1
<1>1. Bookkept(r) /\ req[r].conv # Nobody
  BY ActiveIs, AgentTypes DEF AgentInv
<1>2. Acts(r)
  BY DEF Acts, Moves
<1>3. Bookkept(r)'
  BY <1>1 DEF Bookkept, Moves
<1>4. req'[r].place = p /\ saves' = saves
  BY DEF Moves
<1> QED BY <1>2, <1>3, <1>4 DEF Answered

LEMMA QuietMove ==
    ASSUME AgentInv, NEW r \in Requests, Active(r), NEW p \in Places, Moves(r, p),
           req[r].aborted => req'[r].aborted,
           UNCHANGED <<log, saves, cancel, mail, crowded>>, hurt' \in {hurt, hurt \cup {r}},
           era' \in [Conversations -> Nat],
           failures' \in 0 .. MaxTrouble, blocked' \in 0 .. MaxTrouble,
           p \notin {"idle", "partial"}, req[r].place # "partial",
           p \in Early => req[r].place \in Early /\ hurt' = hurt,
           r \notin hurt' => /\ Asked(p) = Asked(req[r].place)
                             /\ p \in {"last", "over"} <=> req[r].place \in {"last", "over"},
           p \in {"number", "declined", "over"} \/ req[r].place \notin {"configure", "number"},
           \/ UNCHANGED registry /\ (req[r].place \in Working <=> p \in Working)
           \/ Unregistered(r) /\ (p \in Working => req'[r].aborted)
    PROVE  AgentInv'
<1>1. /\ Acts(r) /\ Bookkept(r)' /\ req'[r].place = p
      /\ (p \in {"last", "over"} <=> req[r].place \in {"last", "over"}) => Answered(r)' = Answered(r)
  BY MovesOn
<1>2. ~Settled(r)' /\ req'[r].place \notin {"configure", "number"} => req[r].place \notin {"configure", "number"}
  <2>1. CASE p \in {"declined", "over"} /\ req[r].place \in {"configure", "number"}
    <3>1. saves[<<r, "catch">>].at = "no" /\ saves[<<r, "close">>].at = "no"
      BY <2>1 DEF AgentInv, Bookkept, Early
    <3>2. Settled(r)'
      BY <1>1, <2>1, <3>1 DEF Settled, Saving, Saver
    <3> QED BY <3>2
  <2> QED BY <1>1, <2>1
<1>3. req'[r].last = req[r].last /\ req' \in [Requests -> ReqRec]
  BY DEF Moves
<1>4. r \notin hurt' => Asked(req'[r].place) = Asked(req[r].place) /\ Answered(r)' = Answered(r)
  BY <1>1
<1>5. \A who \in Saver : saves'[<<r, who>>] = saves[<<r, who>>]
  OBVIOUS
<1>7. Counted(r)' /\ Numbered(r)'
  <2>1. \A who \in Saver : saves'[<<r, who>>].at = "store" =>
              \/ saves'[<<r, who>>] = saves[<<r, who>>]
              \/ saves'[<<r, who>>].number = LastNumber(req[r].conv)
                 /\ req[r].place \notin {"configure", "number"}
    BY <1>5
  <2> QED BY <1>1, <1>2, <1>3, <1>4, <2>1, OwnQuiet
<1>8. Logs(r)
  BY DEF Logs
<1>9. saves' \in [Requests \X Saver -> SaveRec]
  BY AgentTypes
<1> QED BY <1>1, <1>3, <1>7, <1>8, <1>9, Together

\* The request goes on, is aborted, is asked something else, or has something to save.
LEMMA PlacesAre ==
    ASSUME AgentInv, NEW r \in Requests, NEW p \in Places, NEW w \in Requests \cup {Nobody}
    PROVE  /\ req' = [req EXCEPT ![r] = [@ EXCEPT !.place = p, !.aborted = TRUE]] =>
                Moves(r, p) /\ req'[r].aborted
           /\ req' = [req EXCEPT ![r] = [@ EXCEPT !.place = p, !.asked = w]] =>
                Moves(r, p) /\ req'[r].aborted = req[r].aborted
           /\ req' = [req EXCEPT ![r].partial = TRUE] =>
                Moves(r, req[r].place) /\ req'[r].aborted = req[r].aborted
           /\ req' = [req EXCEPT ![r] = [@ EXCEPT !.partial = TRUE, !.aborted = TRUE]] =>
                Moves(r, req[r].place) /\ req'[r].aborted
           /\ req' = [req EXCEPT ![r].aborted = TRUE] =>
                Moves(r, req[r].place) /\ req'[r].aborted
<1>0. /\ req[r] \in ReqRec /\ req[r].place \in Places
      /\ TRUE \in BOOLEAN
  BY FieldsOf, Zenon
<1>1. ASSUME NEW v, req' = [req EXCEPT ![r] = v], v \in ReqRec, NEW q \in Places, v.place = q,
             v.home = req[r].home, v.conv = req[r].conv, v.last = req[r].last
      PROVE  Moves(r, q) /\ req'[r] = v
  BY <1>1, Updated DEF Moves
<1>2. ASSUME req' = [req EXCEPT ![r] = [@ EXCEPT !.place = p, !.aborted = TRUE]]
      PROVE  Moves(r, p) /\ req'[r].aborted
  <2>1. PICK v : v = [req[r] EXCEPT !.place = p, !.aborted = TRUE]
    OBVIOUS
  <2>2. req' = [req EXCEPT ![r] = v]
    BY <1>2, <2>1
  <2>3. /\ v \in ReqRec /\ v.place = p /\ v.home = req[r].home /\ v.conv = req[r].conv
        /\ v.last = req[r].last /\ v.aborted
    BY <1>0, <2>1 DEF ReqRec
  <2> QED BY <1>1, <2>2, <2>3
<1>3. ASSUME req' = [req EXCEPT ![r] = [@ EXCEPT !.place = p, !.asked = w]]
      PROVE  Moves(r, p) /\ req'[r].aborted = req[r].aborted
  <2>1. PICK v : v = [req[r] EXCEPT !.place = p, !.asked = w]
    OBVIOUS
  <2>2. req' = [req EXCEPT ![r] = v]
    BY <1>3, <2>1
  <2>3. /\ v \in ReqRec /\ v.place = p /\ v.home = req[r].home /\ v.conv = req[r].conv
        /\ v.last = req[r].last /\ v.aborted = req[r].aborted
    BY <1>0, <2>1 DEF ReqRec
  <2> QED BY <1>1, <2>2, <2>3
<1>4. ASSUME req' = [req EXCEPT ![r].partial = TRUE]
      PROVE  Moves(r, req[r].place) /\ req'[r].aborted = req[r].aborted
  <2>1. PICK v : v = [req[r] EXCEPT !.partial = TRUE]
    OBVIOUS
  <2>2. req' = [req EXCEPT ![r] = v]
    BY <1>4, <2>1
  <2>3. /\ v \in ReqRec /\ v.place = req[r].place /\ v.home = req[r].home /\ v.conv = req[r].conv
        /\ v.last = req[r].last /\ v.aborted = req[r].aborted
    BY <1>0, <2>1 DEF ReqRec
  <2> QED BY <1>0, <1>1, <2>2, <2>3
<1>5. ASSUME req' = [req EXCEPT ![r] = [@ EXCEPT !.partial = TRUE, !.aborted = TRUE]]
      PROVE  Moves(r, req[r].place) /\ req'[r].aborted
  <2>1. PICK v : v = [req[r] EXCEPT !.partial = TRUE, !.aborted = TRUE]
    OBVIOUS
  <2>2. req' = [req EXCEPT ![r] = v]
    BY <1>5, <2>1
  <2>3. /\ v \in ReqRec /\ v.place = req[r].place /\ v.home = req[r].home /\ v.conv = req[r].conv
        /\ v.last = req[r].last /\ v.aborted
    BY <1>0, <2>1 DEF ReqRec
  <2> QED BY <1>0, <1>1, <2>2, <2>3
<1>6. ASSUME req' = [req EXCEPT ![r].aborted = TRUE]
      PROVE  Moves(r, req[r].place) /\ req'[r].aborted
  <2>1. PICK v : v = [req[r] EXCEPT !.aborted = TRUE]
    OBVIOUS
  <2>2. req' = [req EXCEPT ![r] = v]
    BY <1>6, <2>1
  <2>3. /\ v \in ReqRec /\ v.place = req[r].place /\ v.home = req[r].home /\ v.conv = req[r].conv
        /\ v.last = req[r].last /\ v.aborted
    BY <1>0, <2>1 DEF ReqRec
  <2> QED BY <1>0, <1>1, <2>2, <2>3
<1> QED BY <1>2, <1>3, <1>4, <1>5, <1>6

LEMMA OneMore ==
    ASSUME AgentInv, failures + blocked < MaxTrouble
    PROVE  failures + 1 \in 0 .. MaxTrouble /\ blocked + 1 \in 0 .. MaxTrouble
  BY AgentTypes

LEMMA SendsErrorIs ==
    ASSUME AgentInv, NEW r \in Requests, NEW p \in Places, SendsError(r, p)
    PROVE  /\ Moves(r, p) /\ (req[r].aborted => req'[r].aborted)
           /\ blocked' \in 0 .. MaxTrouble
<1>1. CASE Goes(r, p) /\ UNCHANGED blocked
  BY <1>1, GoesIs, AgentTypes
<1>2. CASE /\ failures + blocked < MaxTrouble /\ blocked' = blocked + 1
           /\ req' = [req EXCEPT ![r] = [@ EXCEPT !.place = p, !.aborted = TRUE]]
  <2>1. Moves(r, p) /\ req'[r].aborted
    BY <1>2, PlacesAre
  <2> QED BY <1>2, <2>1, OneMore
<1> QED BY <1>1, <1>2 DEF SendsError

LEMMA ActiveAt ==
    ASSUME NEW r \in Requests, req[r].place \notin {"idle", "declined", "over"}
    PROVE  Active(r)
  BY DEF Active, Settled

LEMMA Configured == ASSUME AgentInv, NEW r \in Requests, NEW found \in BOOLEAN, Configure(r, found)
                    PROVE AgentInv'
<1>1. /\ req[r].place = "configure"
      /\ UNCHANGED <<log, era, saves, cancel, mail, failures, hurt, crowded>>
  BY DEF Configure, At
<1>2. Active(r)
  BY <1>1, ActiveAt
<1>3. era' \in [Conversations -> Nat] /\ failures' \in 0 .. MaxTrouble
  BY <1>1, AgentTypes
<1>4. CASE found
  <2>1. Goes(r, "number") /\ UNCHANGED <<registry, blocked>>
    BY <1>4 DEF Configure
  <2>2. Moves(r, "number") /\ (req[r].aborted => req'[r].aborted) /\ blocked' \in 0 .. MaxTrouble
    BY <2>1, GoesIs, AgentTypes DEF Places
  <2>3. PICK p \in Places : p = "number"
    BY DEF Places
  <2> QED BY <1>1, <1>2, <1>3, <2>1, <2>2, <2>3, QuietMove DEF Early, Working, Asked
<1>5. CASE ~found
  <2>1. PICK p \in Places : p = "declined"
    BY DEF Places
  <2>2. SendsError(r, p) /\ Unregistered(r)
    BY <1>5, <2>1 DEF Configure
  <2>3. Moves(r, p) /\ (req[r].aborted => req'[r].aborted) /\ blocked' \in 0 .. MaxTrouble
    BY <2>2, SendsErrorIs
  <2> QED BY <1>1, <1>2, <1>3, <2>1, <2>2, <2>3, QuietMove DEF Early, Working, Asked
<1> QED BY <1>4, <1>5

LEMMA WindowRead == ASSUME AgentInv, NEW r \in Requests, ReadWindow(r) PROVE AgentInv'
<1>1. /\ req[r].place = "window"
      /\ UNCHANGED <<log, era, registry, saves, cancel, mail, failures, hurt, crowded>>
  BY DEF ReadWindow, At
<1>2. Active(r) /\ AgentTypeOK
  BY <1>1, ActiveAt DEF AgentInv
<1>3. era' \in [Conversations -> Nat] /\ failures' \in 0 .. MaxTrouble
  BY <1>1, AgentTypes
<1>4. PICK w : /\ w = Window(r)
               /\ \/ SendsError(r, "refused")
                  \/ /\ req' = [req EXCEPT ![r] =
                          [@ EXCEPT !.place = IF Len(w) >= MaxMessages THEN "summary" ELSE "model",
                                    !.asked = AskedLast(w)]]
                     /\ UNCHANGED blocked
  BY DEF ReadWindow
<1>5. AskedLast(w) \in Requests \cup {Nobody}
  BY <1>2, <1>4, WindowIs, AskedLastIs, ActiveIs
<1>6. PICK p \in Places : /\ p \in {"refused", "summary", "model"} /\ Moves(r, p)
                          /\ (req[r].aborted => req'[r].aborted) /\ blocked' \in 0 .. MaxTrouble
  <2>1. CASE SendsError(r, "refused")
    BY <2>1, SendsErrorIs DEF Places
  <2>2. CASE /\ req' = [req EXCEPT ![r] =
                  [@ EXCEPT !.place = IF Len(w) >= MaxMessages THEN "summary" ELSE "model",
                            !.asked = AskedLast(w)]]
             /\ UNCHANGED blocked
    <3>1. PICK p \in Places : p = IF Len(w) >= MaxMessages THEN "summary" ELSE "model"
      BY DEF Places
    <3>2. PICK a \in Requests \cup {Nobody} : a = AskedLast(w)
      BY <1>5
    <3>3. Moves(r, p) /\ req'[r].aborted = req[r].aborted
      BY <2>2, <3>1, <3>2, PlacesAre
    <3> QED BY <2>2, <3>1, <3>3, AgentTypes
  <2> QED BY <1>4, <2>1, <2>2
<1> QED BY <1>1, <1>2, <1>3, <1>6, QuietMove DEF Early, Working, Asked

LEMMA Summarised == ASSUME AgentInv, NEW r \in Requests, Summarise(r) PROVE AgentInv'
<1>1. /\ req[r].place = "summary" /\ Goes(r, "delete")
      /\ UNCHANGED <<log, registry, saves, cancel, mail, failures, blocked, hurt, crowded>>
  BY DEF Summarise, At
<1>2. Active(r)
  BY <1>1, ActiveAt
<1>3. era' \in [Conversations -> Nat]
  <2>1. PICK c \in Conversations : c = req[r].conv
    BY <1>2, ActiveIs
  <2>2. era' = [era EXCEPT ![c] = @ + 1] /\ era[c] + 1 \in Nat
    BY <2>1, AgentTypes DEF Summarise
  <2> QED BY <2>2, AgentTypes
<1>4. PICK p \in Places : p = "delete"
  BY DEF Places
<1>5. Moves(r, p) /\ (req[r].aborted => req'[r].aborted)
  BY <1>1, <1>4, GoesIs
<1> QED BY <1>1, <1>2, <1>3, <1>4, <1>5, AgentTypes, QuietMove DEF Early, Working, Asked

LEMMA AgainRead == ASSUME AgentInv, NEW r \in Requests, ReadAgain(r) PROVE AgentInv'
<1>1. /\ req[r].place = "again"
      /\ UNCHANGED <<log, era, registry, saves, cancel, mail, failures, blocked, hurt, crowded>>
  BY DEF ReadAgain, At
<1>2. Active(r) /\ AgentTypeOK
  BY <1>1, ActiveAt DEF AgentInv
<1>3. PICK p \in Places : p = "model"
  BY DEF Places
<1>4. PICK w : /\ w = Page(req[r].conv, era[req[r].conv])
               /\ req' = [req EXCEPT ![r] = [@ EXCEPT !.place = p, !.asked = AskedLast(w)]]
  BY <1>3 DEF ReadAgain
<1>5. PICK a \in Requests \cup {Nobody} : a = AskedLast(w)
  <2>1. PICK c \in Conversations : c = req[r].conv
    BY <1>2, ActiveIs
  <2>2. era[c] \in Nat
    BY AgentTypes
  <2>3. w \in Seq(Message)
    BY <1>2, <1>4, <2>1, <2>2, PageIs
  <2> QED BY <2>3, AskedLastIs
<1>6. Moves(r, p) /\ req'[r].aborted = req[r].aborted
  BY <1>4, <1>5, PlacesAre
<1> QED BY <1>1, <1>2, <1>3, <1>6, AgentTypes, QuietMove DEF Early, Working, Asked

LEMMA Returned == ASSUME AgentInv, NEW r \in Requests, ModelReturns(r) PROVE AgentInv'
<1>1. /\ req[r].place = "model" /\ Unregistered(r)
      /\ req' = [req EXCEPT ![r] = [@ EXCEPT !.place = "answer", !.asked = Nobody]]
      /\ UNCHANGED <<log, era, saves, cancel, mail, failures, blocked, hurt, crowded>>
  BY DEF ModelReturns, At
<1>2. Active(r)
  BY <1>1, ActiveAt
<1>3. PICK p \in Places : p = "answer"
  BY DEF Places
<1>4. Moves(r, p) /\ req'[r].aborted = req[r].aborted
  BY <1>1, <1>3, PlacesAre
<1> QED BY <1>1, <1>2, <1>3, <1>4, AgentTypes, QuietMove DEF Early, Working, Asked

LEMMA Failing ==
    ASSUME AgentInv, NEW r \in Requests, RequestFails(r) \/ StoreFails(r)
    PROVE  AgentInv'
<1>1. /\ UNCHANGED <<log, era, saves, cancel, mail, blocked, crowded>> /\ Fails(r)
  BY DEF RequestFails, StoreFails
<1>2. failures' \in 0 .. MaxTrouble /\ hurt' = hurt \cup {r}
  BY <1>1, OneMore DEF Fails
<1>3. PICK p \in Places :
         /\ Goes(r, p)
         /\ \/ /\ req[r].place \in {"configure", "number"} /\ p = "over" /\ Unregistered(r)
            \/ /\ req[r].place \in {"question", "window", "summary", "delete", "recreate", "again"}
               /\ p = "error" /\ Unregistered(r)
            \/ req[r].place \in {"answer", "error"} /\ p = "over" /\ UNCHANGED registry
            \/ req[r].place = "refused" /\ p = "over" /\ Unregistered(r)
  <2>1. CASE RequestFails(r)
    BY <2>1 DEF RequestFails, Places
  <2>2. CASE StoreFails(r)
    <3>1. PICK p \in Places : p = "over"
      BY DEF Places
    <3> QED BY <2>2, <3>1 DEF StoreFails
  <2> QED BY <2>1, <2>2
<1>4. Active(r)
  BY <1>3, ActiveAt
<1>5. Moves(r, p) /\ req'[r].aborted = req[r].aborted
  BY <1>3, GoesIs
<1>6. r \in hurt'
  BY <1>2
<1>7. /\ p \notin {"idle", "partial"} /\ req[r].place # "partial" /\ p \notin Early
      /\ p \in {"number", "declined", "over"} \/ req[r].place \notin {"configure", "number"}
      /\ \/ UNCHANGED registry /\ (req[r].place \in Working <=> p \in Working)
         \/ Unregistered(r) /\ (p \in Working => req'[r].aborted)
  BY <1>3 DEF Early, Working
<1> QED BY <1>1, <1>2, <1>4, <1>5, <1>6, <1>7, AgentTypes, QuietMove

(***************************************************************************)
(* A message of the request is stored.                                     *)
(***************************************************************************)
LEMMA StoredIs ==
    ASSUME AgentInv, NEW r \in Requests, Active(r), NEW role \in {"user", "assistant"}, NEW n \in Nat,
           NEW error \in BOOLEAN, Stored(r, role, n, error)
    PROVE  \E m \in Message : /\ m.of = r /\ m.role = role /\ m.number = n
                              /\ Appended(req[r].conv, m)
<1>1. PICK e \in Nat : e = era[req[r].conv]
  BY ActiveIs, AgentTypes
<1>2. PICK m : m = [role |-> role, number |-> n, of |-> r, era |-> e, error |-> error]
  OBVIOUS
<1>3. m \in Message /\ m.of = r /\ m.role = role /\ m.number = n
  BY <1>2 DEF Message
<1>4. Appended(req[r].conv, m)
  BY <1>1, <1>2 DEF Stored, Appended
<1> QED BY <1>3, <1>4

LEMMA StoringMove ==
    ASSUME AgentInv, NEW r \in Requests, Active(r), NEW p \in Places, Moves(r, p),
           req'[r].aborted = req[r].aborted,
           UNCHANGED <<era, saves, cancel, mail, failures, blocked, hurt, crowded>>,
           NEW role \in {"user", "assistant"}, NEW n \in Nat, NEW error \in BOOLEAN,
           Stored(r, role, n, error),
           p \notin {"idle", "partial"}, req[r].place # "partial",
           p \in Early => req[r].place \in Early,
           req[r].place \notin {"configure", "number"},
           IF role = "user"
           THEN /\ n = req[r].last + 1
                /\ Asked(p) = Asked(req[r].place) + 1
                /\ p \in {"last", "over"} <=> req[r].place \in {"last", "over"}
           ELSE /\ n = req[r].last + 2
                /\ Asked(p) = Asked(req[r].place)
                /\ p \in {"last", "over"} /\ req[r].place \notin {"last", "over"},
           \/ UNCHANGED registry /\ (req[r].place \in Working <=> p \in Working)
           \/ Unregistered(r) /\ (p \in Working => req'[r].aborted)
    PROVE  AgentInv'
<1>1. /\ Acts(r) /\ Bookkept(r)' /\ req'[r].place = p
      /\ (p \in {"last", "over"} <=> req[r].place \in {"last", "over"}) => Answered(r)' = Answered(r)
      /\ p \in {"last", "over"} /\ req[r].place \notin {"last", "over"} =>
           Answered(r)' = Answered(r) + 1
  BY MovesOn
<1>2. req'[r].last = req[r].last /\ req' \in [Requests -> ReqRec] /\ req[r].last \in Nat
  BY FieldsOf DEF Moves
<1>3. PICK m \in Message : m.of = r /\ m.role = role /\ m.number = n /\ Appended(req[r].conv, m)
  BY StoredIs
<1>4. \A who \in Saver : saves'[<<r, who>>] = saves[<<r, who>>]
  OBVIOUS
<1>5. Counted(r)' /\ Numbered(r)'
  <2>1. CASE role = "user"
    <3>1. Answered(r)' = Answered(r) /\ m.number = req[r].last + 1 /\ Asked(req'[r].place) = Asked(req[r].place) + 1
      BY <1>1, <1>3, <2>1
    <3> QED BY <1>1, <1>2, <1>3, <1>4, <2>1, <3>1, OwnAppended
  <2>2. CASE role # "user"
    <3>1. Answered(r)' = Answered(r) + 1 /\ m.number >= req[r].last + 2 /\ Asked(req'[r].place) = Asked(req[r].place)
      BY <1>1, <1>2, <1>3, <2>2
    <3> QED BY <1>1, <1>2, <1>3, <1>4, <2>2, <3>1, OwnAppended
  <2> QED BY <2>1, <2>2
<1>6. Logs(r)
  BY <1>3 DEF Logs
<1>7. /\ saves' \in [Requests \X Saver -> SaveRec] /\ era' \in [Conversations -> Nat]
      /\ failures' \in 0 .. MaxTrouble /\ blocked' \in 0 .. MaxTrouble
  BY AgentTypes
<1> QED BY <1>1, <1>2, <1>5, <1>6, <1>7, Together

LEMMA Storing ==
    ASSUME AgentInv, NEW r \in Requests,
           StoreQuestion(r) \/ RecreateTrigger(r) \/ StoreAnswer(r) \/ Refuse(r)
    PROVE  AgentInv'
<1>0. UNCHANGED <<era, saves, cancel, mail, failures, blocked, hurt, crowded>>
  BY DEF StoreQuestion, RecreateTrigger, StoreAnswer, Refuse
<1>1. req[r].last + 1 \in Nat /\ req[r].last + 2 \in Nat
  BY FieldsOf
<1>2. CASE StoreQuestion(r) \/ RecreateTrigger(r)
  <2>1. PICK p \in Places, n \in Nat :
           /\ n = req[r].last + 1 /\ Stored(r, "user", n, FALSE) /\ Goes(r, p) /\ UNCHANGED registry
           /\ \/ req[r].place = "question" /\ p = "window"
              \/ req[r].place = "recreate" /\ p = "again"
    BY <1>1, <1>2 DEF StoreQuestion, RecreateTrigger, At, Places
  <2>2. Moves(r, p) /\ req'[r].aborted = req[r].aborted
    BY <2>1, GoesIs
  <2>3. Active(r)
    BY <2>1, ActiveAt
  <2>4. PICK role \in {"user", "assistant"}, f \in BOOLEAN : role = "user" /\ f = FALSE
    BY Zenon
  <2>5. Stored(r, role, n, f)
    BY <2>1, <2>4, Zenon
  <2>6. /\ p \notin {"idle", "partial"} /\ req[r].place # "partial"
        /\ (p \in Early => req[r].place \in Early) /\ req[r].place \notin {"configure", "number"}
        /\ Asked(p) = Asked(req[r].place) + 1
        /\ (p \in {"last", "over"} <=> req[r].place \in {"last", "over"})
        /\ (req[r].place \in Working <=> p \in Working)
    BY <2>1 DEF Early, Working, Asked
  <2>7. /\ n = req[r].last + 1 /\ UNCHANGED registry
        /\ UNCHANGED <<era, saves, cancel, mail, failures, blocked, hurt, crowded>>
    BY <1>0, <2>1
  <2> QED BY <2>2, <2>3, <2>4, <2>5, <2>6, <2>7, StoringMove
<1>3. CASE StoreAnswer(r) \/ Refuse(r)
  <2>1. PICK p \in Places, n \in Nat, f \in BOOLEAN :
           /\ n = req[r].last + 2 /\ Stored(r, "assistant", n, f) /\ Goes(r, p)
           /\ \/ req[r].place \in {"answer", "error"} /\ p = "last" /\ UNCHANGED registry
              \/ req[r].place = "refused" /\ p = "over" /\ Unregistered(r)
    <3>1. CASE StoreAnswer(r)
      <4>1. PICK f \in BOOLEAN : f = At(r, "error")
        BY Zenon DEF At
      <4> QED BY <1>1, <3>1, <4>1 DEF StoreAnswer, Places
    <3>2. CASE Refuse(r)
      <4>1. PICK f \in BOOLEAN : f = TRUE
        BY Zenon
      <4> QED BY <1>1, <3>2, <4>1 DEF Refuse, At, Places
    <3> QED BY <1>3, <3>1, <3>2
  <2>2. Moves(r, p) /\ req'[r].aborted = req[r].aborted
    BY <2>1, GoesIs
  <2>3. Active(r)
    BY <2>1, ActiveAt
  <2> QED BY <1>0, <2>1, <2>2, <2>3, StoringMove DEF Early, Working, Asked
<1> QED BY <1>2, <1>3

(***************************************************************************)
(* The last number is read: nothing of the request's own is there yet.     *)
(***************************************************************************)
LEMMA NothingYet ==
    ASSUME AgentInv, NEW r \in Requests, Active(r), req[r].place \in Early,
           NEW role \in {"user", "assistant"}, role = "user" => Asked(req[r].place) = 0
    PROVE  Of(r, req[r].conv, role) = {}
<1>1. PICK d \in Conversations : d = req[r].conv
  BY ActiveIs
<1>2. d # Nobody
  BY AgentTypes
<1>3. Counted(r) /\ Bookkept(r) /\ AgentTypeOK
  BY DEF AgentInv
<1>4. r \notin hurt /\ Answered(r) = 0
  BY <1>3 DEF Bookkept, Early, Answered
<1>5. Cardinality(Of(r, d, role)) = 0
  BY <1>1, <1>2, <1>3, <1>4 DEF Counted
<1>6. IsFiniteSet(Of(r, d, role))
  BY <1>3, OfIs
<1> QED BY <1>1, <1>5, <1>6, FS_EmptySet

LEMMA NumberRead == ASSUME AgentInv, NEW r \in Requests, ReadNumber(r) PROVE AgentInv'
<1>1. /\ req[r].place = "number"
      /\ req' = [req EXCEPT ![r] = [@ EXCEPT !.place = "question", !.last = LastNumber(req[r].conv)]]
      /\ UNCHANGED <<log, era, registry, saves, cancel, mail, failures, blocked, hurt, crowded>>
  BY DEF ReadNumber, At
<1>2. Active(r) /\ AgentTypeOK /\ Bookkept(r) /\ Counted(r)
  BY <1>1, ActiveAt DEF AgentInv
<1>3. PICK d \in Conversations : d = req[r].conv /\ d # Nobody
  BY <1>2, ActiveIs, AgentTypes
<1>4. PICK n \in Nat :
         /\ n = LastNumber(d)
         /\ n = 0 \/ \E k \in 1 .. Len(log[d]) : k <= PageLimit /\ log[d][k].number = n
  BY <1>2, <1>3, LastNumberIs
<1>5. PICK v : v = [req[r] EXCEPT !.place = "question", !.last = n]
  OBVIOUS
<1>6. /\ v \in ReqRec /\ v.place = "question" /\ v.home = req[r].home /\ v.conv = d
      /\ v.last = n /\ v.aborted = req[r].aborted
  <2>1. req[r] \in ReqRec
    BY FieldsOf
  <2> QED BY <1>3, <1>5, <2>1 DEF ReqRec, Places
<1>7. req' = [req EXCEPT ![r] = v]
  BY <1>1, <1>3, <1>4, <1>5
<1>8. /\ req' \in [Requests -> ReqRec] /\ req'[r] = v
      /\ \A o \in Requests : o # r => req'[o] = req[o]
  BY <1>6, <1>7, Updated
<1>9. Acts(r) /\ Logs(r)
  BY <1>1, <1>3, <1>6, <1>8 DEF Acts, Logs
<1>10. Of(r, d, "user") = {} /\ Of(r, d, "assistant") = {}
  BY <1>1, <1>2, <1>3, NothingYet DEF Early, Asked
<1>11. \A role : Of(r, d, role)' = Of(r, d, role)
  BY <1>1 DEF Of
<1>12. Bookkept(r)'
  BY <1>1, <1>2, <1>3, <1>6, <1>8 DEF Bookkept, Early
<1>13. Counted(r)'
  BY <1>1, <1>2, <1>3, <1>6, <1>8, <1>11 DEF Counted, Asked, Answered
<1>14. Backed(r)'
  <2>1. ASSUME NEW k \in 1 .. Len(log[d]), k <= PageLimit, log[d][k].number = n
        PROVE  k <= PageLimit /\ log[d][k].of # r /\ log[d][k].number >= n
    <3>1. log[d][k].number \in Nat /\ log[d][k].role \in {"user", "assistant"}
      <4>1. log[d][k] \in Message
        BY <1>2, OfIs
      <4> QED BY <4>1 DEF Message
    <3>2. k \notin Of(r, d, "user") /\ k \notin Of(r, d, "assistant")
      BY <1>10
    <3> QED BY <2>1, <3>1, <3>2 DEF Of
  <2>2. req'[r].conv = d /\ req'[r].last = n /\ log' = log
    BY <1>1, <1>6, <1>8
  <2>3. CASE n = 0
    BY <2>2, <2>3 DEF Backed
  <2>4. CASE n # 0
    <3>1. PICK k \in 1 .. Len(log[d]) : k <= PageLimit /\ log[d][k].number = n
      BY <1>4, <2>4
    <3>2. log[d][k].of # r /\ log[d][k].number >= n
      BY <2>1, <3>1
    <3> QED BY <2>2, <3>1, <3>2 DEF Backed
  <2> QED BY <2>3, <2>4
<1>15. Numbered(r)'
  <2>1. \A who \in Saver : saves'[<<r, who>>].at # "store"
    BY <1>1, <1>2 DEF Bookkept, Early, Saver
  <2> QED BY <1>3, <1>6, <1>8, <1>10, <1>11, <1>14, <2>1 DEF Numbered
<1> QED BY <1>1, <1>2, <1>6, <1>8, <1>9, <1>12, <1>13, <1>15, AgentTypes, Together DEF Working

(***************************************************************************)
(* The question is deleted, to be stored again after the summary.          *)
(***************************************************************************)
LEMMA TriggerDeleted == ASSUME AgentInv, NEW r \in Requests, DeleteTrigger(r) PROVE AgentInv'
<1>1. /\ req[r].place = "delete" /\ Goes(r, "recreate")
      /\ UNCHANGED <<era, registry, saves, cancel, mail, failures, blocked, hurt, crowded>>
  BY DEF DeleteTrigger, At
<1>2. Active(r) /\ AgentTypeOK /\ Bookkept(r) /\ Counted(r) /\ Numbered(r)
  BY <1>1, ActiveAt DEF AgentInv
<1>3. PICK d \in Conversations : d = req[r].conv /\ d # Nobody
  BY <1>2, ActiveIs, AgentTypes
<1>4. Deleted(d, r)
  <2>1. OfRequest(r, "user") = Of(r, d, "user")
    BY <1>3 DEF OfRequest, Of
  <2> QED BY <1>3, <2>1 DEF DeleteTrigger, Deleted
<1>5. PICK p \in Places : p = "recreate"
  BY DEF Places
<1>6. Moves(r, p) /\ req'[r].aborted = req[r].aborted
  BY <1>1, <1>5, GoesIs
<1>7. Acts(r) /\ Bookkept(r)' /\ req'[r].place = p /\ Answered(r)' = Answered(r)
  BY <1>1, <1>2, <1>5, <1>6, MovesOn DEF Early
<1>8. /\ Of(r, d, "user")' = {}
      /\ Cardinality(Of(r, d, "assistant")') = Cardinality(Of(r, d, "assistant"))
      /\ \A k \in Of(r, d, "assistant")' : \E n \in Of(r, d, "assistant") : log'[d][k] = log[d][n]
  BY <1>2, <1>4, DeletedOf
<1>9. Cardinality(Of(r, d, "user")') = 0
  BY <1>8, FS_EmptySet
<1>10. req'[r].last = req[r].last /\ req'[r].conv = d
  BY <1>3, <1>6 DEF Moves
<1>11. Counted(r)'
  BY <1>1, <1>2, <1>3, <1>5, <1>7, <1>8, <1>9, <1>10, SMTT(30) DEF Counted, Asked
<1>12. ASSUME r \notin crowded PROVE Backed(r)'
  <2>1. Backed(r)
    BY <1>1, <1>2, <1>3, <1>12 DEF Numbered, Active
  <2>2. CASE req[r].last = 0
    BY <1>10, <2>2 DEF Backed
  <2>3. ASSUME NEW n \in 1 .. Len(log[d]), n <= PageLimit, log[d][n].of # r,
               log[d][n].number >= req[r].last
        PROVE  Backed(r)'
    <3>1. n \notin Of(r, d, "user")
      BY <2>3 DEF Of
    <3>3. PICK k \in 1 .. Len(log'[d]) : k <= n /\ log'[d][k] = log[d][n]
      BY <1>2, <1>4, <3>1, DeletingKeeps
    <3>4. k <= PageLimit
      <4>1. Len(log'[d]) \in Nat /\ Len(log[d]) \in Nat /\ PageLimit \in Nat
        BY <1>2, <1>4, DeletingKeeps, OfIs, AgentAssumption
      <4> QED BY <2>3, <3>3, <4>1
    <3> QED BY <1>10, <2>3, <3>3, <3>4 DEF Backed
  <2> QED BY <1>3, <2>1, <2>2, <2>3 DEF Backed
<1>13. Numbered(r)'
  <2>1. ASSUME r \notin crowded
        PROVE  /\ \A n \in Of(r, d, "assistant") : log[d][n].number >= req[r].last + 2
               /\ \A who \in Saver : saves[<<r, who>>].at = "store" => saves[<<r, who>>].number >= req[r].last
    BY <1>2, <1>3, <2>1 DEF Numbered
  <2>2. ASSUME r \notin crowded
        PROVE  \A k \in Of(r, d, "assistant")' : log'[d][k].number >= req[r].last + 2
    BY <1>8, <2>1, <2>2
  <2> QED BY <1>1, <1>8, <1>10, <1>12, <2>1, <2>2 DEF Numbered
<1>14. Logs(r)
  BY <1>3, <1>4 DEF Logs
<1>15. UNCHANGED registry /\ (req[r].place \in Working <=> req'[r].place \in Working)
  BY <1>1, <1>5, <1>7 DEF Working
<1>16. req' \in [Requests -> ReqRec]
  BY <1>6 DEF Moves
<1> QED BY <1>1, <1>2, <1>7, <1>11, <1>13, <1>14, <1>15, <1>16, AgentTypes, Together

(***************************************************************************)
(* The saves at the side of a request.                                     *)
(***************************************************************************)
LEMMA SavesAre ==
    ASSUME AgentInv, NEW r \in Requests, NEW who \in Saver, NEW v \in SaveRec,
           saves' = [saves EXCEPT ![<<r, who>>] = v]
    PROVE  /\ saves' \in [Requests \X Saver -> SaveRec] /\ saves'[<<r, who>>] = v
           /\ \A o \in Requests, w \in Saver : ~(o = r /\ w = who) => saves'[<<o, w>>] = saves[<<o, w>>]
<1>1. saves \in [Requests \X Saver -> SaveRec] /\ <<r, who>> \in Requests \X Saver
  BY AgentTypes
<1> QED BY <1>1

LEMMA SaveFields ==
    ASSUME AgentInv, NEW r \in Requests, NEW who \in Saver
    PROVE  /\ saves[<<r, who>>] \in SaveRec /\ saves[<<r, who>>].number \in Nat
           /\ saves[<<r, who>>].at \in {"no", "read", "store", "over"}
<1>1. saves[<<r, who>>] \in SaveRec
  BY AgentTypes
<1> QED BY <1>1 DEF SaveRec

SaveAt(r, who, a) == saves' = [saves EXCEPT ![<<r, who>>].at = a]

LEMMA SaveGoes ==
    ASSUME AgentInv, NEW r \in Requests, NEW who \in Saver, NEW a \in {"read", "over"},
           SaveAt(r, who, a)
    PROVE  \E v \in SaveRec : /\ v.at = a /\ v.number = saves[<<r, who>>].number
                              /\ saves' = [saves EXCEPT ![<<r, who>>] = v]
<1>1. PICK v : v = [saves[<<r, who>>] EXCEPT !.at = a]
  OBVIOUS
<1>2. v \in SaveRec /\ v.at = a /\ v.number = saves[<<r, who>>].number
  <2>1. saves[<<r, who>>] \in SaveRec
    BY SaveFields
  <2> QED BY <1>1, <2>1 DEF SaveRec
<1>3. saves' = [saves EXCEPT ![<<r, who>>] = v]
  BY <1>1 DEF SaveAt
<1> QED BY <1>2, <1>3

\* A save goes on: nothing is stored.
LEMMA SavesMove ==
    ASSUME AgentInv, NEW r \in Requests, Active(r), NEW p \in Places, Moves(r, p),
           req[r].aborted => req'[r].aborted,
           NEW who \in Saver, NEW v \in SaveRec, saves' = [saves EXCEPT ![<<r, who>>] = v],
           UNCHANGED <<log, era, cancel, mail, crowded>>, hurt' \in {hurt, hurt \cup {r}},
           failures' \in 0 .. MaxTrouble, blocked' \in 0 .. MaxTrouble,
           req[r].place \notin Early, p \notin Early,
           p = "partial" <=> (IF who = "catch" THEN v ELSE saves[<<r, "catch">>]).at \in {"read", "store"},
           who = "close" => req'[r].aborted,
           r \notin hurt' =>
              /\ Asked(p) = Asked(req[r].place)
              /\ (p \in {"last", "over"} <=> req[r].place \in {"last", "over"})
              /\ who = "close" => v.at # "over" /\ saves[<<r, "close">>].at # "over",
           v.at = "store" => v.number = LastNumber(req[r].conv),
           \/ UNCHANGED registry /\ (req[r].place \in Working <=> p \in Working)
           \/ Unregistered(r) /\ (p \in Working => req'[r].aborted)
    PROVE  AgentInv'
<1>1. /\ saves' \in [Requests \X Saver -> SaveRec] /\ saves'[<<r, who>>] = v
      /\ \A o \in Requests, w \in Saver : ~(o = r /\ w = who) => saves'[<<o, w>>] = saves[<<o, w>>]
  BY SavesAre
<1>2. /\ req' \in [Requests -> ReqRec] /\ req'[r].place = p /\ req'[r].conv = req[r].conv
      /\ req'[r].home = req[r].home /\ req'[r].last = req[r].last
      /\ \A o \in Requests : o # r => req'[o] = req[o]
  BY DEF Moves
<1>3. Acts(r) /\ Logs(r)
  <2>1. \A o \in Requests : o # r => \A w \in Saver : saves'[<<o, w>>] = saves[<<o, w>>]
    BY <1>1
  <2> QED BY <1>2, <2>1 DEF Acts, Logs
<1>4. Bookkept(r) /\ req[r].conv # Nobody
  BY ActiveIs, AgentTypes DEF AgentInv
<1>5. "catch" \in Saver /\ "close" \in Saver /\ (who = "catch" \/ who = "close")
  BY DEF Saver
<1>6. Bookkept(r)'
  BY <1>1, <1>2, <1>4, <1>5 DEF Bookkept, Early
<1>7. r \notin hurt' => Asked(req'[r].place) = Asked(req[r].place) /\ Answered(r)' = Answered(r)
  BY <1>1, <1>2, <1>5 DEF Answered
<1>8. Counted(r)' /\ Numbered(r)'
  <2>1. \A w \in Saver : saves'[<<r, w>>].at = "store" =>
              \/ saves'[<<r, w>>] = saves[<<r, w>>]
              \/ saves'[<<r, w>>].number = LastNumber(req[r].conv)
                 /\ req[r].place \notin {"configure", "number"}
    BY <1>1 DEF Early
  <2>2. req[r].place \notin {"configure", "number"}
    BY DEF Early
  <2> QED BY <1>2, <1>3, <1>7, <2>1, <2>2, OwnQuiet
<1>9. era' \in [Conversations -> Nat]
  BY AgentTypes
<1> QED BY <1>1, <1>2, <1>3, <1>6, <1>8, <1>9, Together

\* A write to the response that blocks: the request is aborted, and goes on.
LEMMA Blocking ==
    ASSUME AgentInv, NEW r \in Requests, NEW p \in Places, Moves(r, p), req'[r].aborted,
           NEW partial, Blocks(r, partial),
           UNCHANGED <<log, era, cancel, mail, failures, hurt, crowded>>,
           (req[r].place = "model" /\ p = "model") \/ (req[r].place = "last" /\ p = "over")
    PROVE  AgentInv'
<1>1. Active(r)
  BY ActiveAt
<1>2. blocked' \in 0 .. MaxTrouble /\ ~req[r].aborted
  BY OneMore DEF Blocks
<1>3. failures' \in 0 .. MaxTrouble /\ era' \in [Conversations -> Nat]
  BY AgentTypes
<1>4. Bookkept(r)
  BY DEF AgentInv
<1>5. CASE partial
  <2>1. saves' = [saves EXCEPT ![<<r, "close">>].at = "read"] /\ UNCHANGED registry
    BY <1>5 DEF Blocks
  <2>2. PICK who \in Saver : who = "close"
    BY DEF Saver
  <2>3. PICK v \in SaveRec : v.at = "read" /\ saves' = [saves EXCEPT ![<<r, who>>] = v]
    <3>1. PICK a \in {"read", "over"} : a = "read"
      OBVIOUS
    <3>2. SaveAt(r, who, a)
      BY <2>1, <2>2, <3>1 DEF SaveAt
    <3> HIDE <2>1
    <3> QED BY <3>1, <3>2, SaveGoes
  <2>4. saves[<<r, "close">>].at = "no" /\ saves[<<r, "catch">>].at \notin {"read", "store"}
    BY <1>2, <1>4 DEF Bookkept
  <2>5. /\ req[r].place \notin Early /\ p \notin Early /\ p # "partial"
        /\ Asked(p) = Asked(req[r].place)
        /\ (p \in {"last", "over"} <=> req[r].place \in {"last", "over"})
        /\ (req[r].place \in Working <=> p \in Working)
    BY DEF Early, Working, Asked
  <2>6. p = "partial" <=> (IF who = "catch" THEN v ELSE saves[<<r, "catch">>]).at \in {"read", "store"}
    BY <2>2, <2>4, <2>5
  <2>7. v.at # "over" /\ v.at # "store" /\ saves[<<r, "close">>].at # "over"
    BY <2>3, <2>4
  <2>8. saves' = [saves EXCEPT ![<<r, who>>] = v]
    BY <2>3
  <2>9. UNCHANGED <<log, era, cancel, mail, crowded>> /\ hurt' \in {hurt, hurt \cup {r}}
    OBVIOUS
  <2> HIDE <2>1, <2>3
  <2> QED BY <1>1, <1>2, <1>3, <2>1, <2>5, <2>6, <2>7, <2>8, <2>9, SavesMove
<1>6. CASE ~partial
  <2>1. Unregistered(r) /\ UNCHANGED saves
    BY <1>6 DEF Blocks
  <2>2. /\ p \notin Early /\ p \notin {"idle", "partial"} /\ req[r].place # "partial"
        /\ Asked(p) = Asked(req[r].place)
        /\ (p \in {"last", "over"} <=> req[r].place \in {"last", "over"})
        /\ req[r].place \notin {"configure", "number"}
    BY DEF Early, Asked
  <2> QED BY <1>1, <1>2, <1>3, <2>1, <2>2, QuietMove
<1> QED BY <1>5, <1>6

LEMMA Streaming ==
    ASSUME AgentInv, NEW r \in Requests, StreamEvent(r) \/ StreamNotice(r) \/ SendDone(r)
    PROVE  AgentInv'
<1>1. UNCHANGED <<log, era, cancel, mail, failures, hurt, crowded>>
  BY DEF StreamEvent, StreamNotice, SendDone
<1>2. PICK p \in Places :
         /\ (req[r].place = "model" /\ p = "model") \/ (req[r].place = "last" /\ p = "over")
         /\ Moves(r, p)
         /\ \/ Sent /\ (req[r].aborted => req'[r].aborted)
            \/ req'[r].aborted /\ \E partial \in BOOLEAN : Blocks(r, partial)
  <2>1. req[r].partial \in BOOLEAN /\ TRUE \in BOOLEAN
    BY FieldsOf, Zenon
  <2>2. CASE StreamEvent(r)
    <3>1. PICK p \in Places : p = "model" /\ req[r].place = "model"
      BY <2>2 DEF StreamEvent, At, Places
    <3>2. CASE req' = [req EXCEPT ![r].partial = TRUE] /\ Sent
      BY <3>1, <3>2, PlacesAre
    <3>3. CASE req' = [req EXCEPT ![r] = [@ EXCEPT !.partial = TRUE, !.aborted = TRUE]] /\ Blocks(r, TRUE)
      <4>1. Moves(r, p) /\ req'[r].aborted
        BY <3>1, <3>3, PlacesAre
      <4> QED BY <2>1, <3>1, <3>3, <4>1
    <3> QED BY <2>2, <3>2, <3>3 DEF StreamEvent
  <2>3. CASE StreamNotice(r)
    <3>1. PICK p \in Places : p = "model" /\ req[r].place = "model"
      BY <2>3 DEF StreamNotice, At, Places
    <3>2. req' = [req EXCEPT ![r].aborted = TRUE] /\ Blocks(r, req[r].partial)
      BY <2>3 DEF StreamNotice
    <3>3. Moves(r, p) /\ req'[r].aborted
      BY <3>1, <3>2, PlacesAre
    <3> QED BY <2>1, <3>1, <3>2, <3>3
  <2>4. CASE SendDone(r)
    <3>1. PICK p \in Places : p = "over" /\ req[r].place = "last"
      BY <2>4 DEF SendDone, At, Places
    <3>2. CASE Goes(r, "over") /\ Sent
      BY <3>1, <3>2, GoesIs
    <3>3. CASE /\ req' = [req EXCEPT ![r] = [@ EXCEPT !.place = "over", !.aborted = TRUE]]
               /\ Blocks(r, req[r].partial)
      <4>1. Moves(r, p) /\ req'[r].aborted
        BY <3>1, <3>3, PlacesAre
      <4> QED BY <2>1, <3>1, <3>3, <4>1
    <3> QED BY <2>4, <3>2, <3>3 DEF SendDone
  <2> QED BY <2>2, <2>3, <2>4
<1>3. CASE Sent /\ (req[r].aborted => req'[r].aborted)
  <2>1. Active(r)
    BY <1>2, ActiveAt
  <2>2. /\ p \notin Early /\ p \notin {"idle", "partial"} /\ req[r].place # "partial"
        /\ Asked(p) = Asked(req[r].place)
        /\ (p \in {"last", "over"} <=> req[r].place \in {"last", "over"})
        /\ req[r].place \notin {"configure", "number"}
        /\ (req[r].place \in Working <=> p \in Working)
    BY <1>2 DEF Early, Asked, Working
  <2>3. UNCHANGED <<blocked, saves, registry>>
    BY <1>3 DEF Sent
  <2> QED BY <1>1, <1>2, <1>3, <2>1, <2>2, <2>3, AgentTypes, QuietMove
<1>4. ASSUME req'[r].aborted, NEW partial \in BOOLEAN, Blocks(r, partial) PROVE AgentInv'
  BY <1>1, <1>2, <1>4, Blocking
<1> QED BY <1>2, <1>3, <1>4

LEMMA Throws == ASSUME AgentInv, NEW r \in Requests, ModelThrows(r) PROVE AgentInv'
<1>1. /\ req[r].place = "model" /\ UNCHANGED <<log, era, cancel, mail, failures, blocked, hurt, crowded>>
      /\ req' = [req EXCEPT ![r] = [@ EXCEPT !.place = IF req[r].partial THEN "partial" ELSE "error",
                                             !.asked = Nobody]]
  BY DEF ModelThrows, At
<1>2. Active(r)
  BY <1>1, ActiveAt
<1>3. PICK p \in Places : p = IF req[r].partial THEN "partial" ELSE "error"
  BY DEF Places
<1>4. Moves(r, p) /\ req'[r].aborted = req[r].aborted
  BY <1>1, <1>3, PlacesAre
<1>5. CASE req[r].partial
  <2>1. saves' = [saves EXCEPT ![<<r, "catch">>].at = "read"] /\ UNCHANGED registry
    BY <1>5 DEF ModelThrows
  <2>2. PICK who \in Saver, a \in {"read", "over"} : who = "catch" /\ a = "read"
    BY DEF Saver
  <2>3. SaveAt(r, who, a)
    BY <2>1, <2>2 DEF SaveAt
  <2>4. PICK v \in SaveRec : v.at = a /\ saves' = [saves EXCEPT ![<<r, who>>] = v]
    BY <2>3, SaveGoes
  <2>5. /\ req[r].place \notin Early /\ p \notin Early /\ p = "partial"
        /\ Asked(p) = Asked(req[r].place)
        /\ (p \in {"last", "over"} <=> req[r].place \in {"last", "over"})
        /\ (req[r].place \in Working <=> p \in Working)
    BY <1>1, <1>3, <1>5 DEF Early, Working, Asked
  <2>6. p = "partial" <=> (IF who = "catch" THEN v ELSE saves[<<r, "catch">>]).at \in {"read", "store"}
    BY <2>2, <2>4, <2>5
  <2>7. v.at # "over" /\ v.at # "store" /\ who # "close"
    BY <2>2, <2>4
  <2>8. saves' = [saves EXCEPT ![<<r, who>>] = v] /\ UNCHANGED registry
    BY <2>1, <2>4
  <2>9. failures' \in 0 .. MaxTrouble /\ blocked' \in 0 .. MaxTrouble
    BY <1>1, AgentTypes
  <2> HIDE <2>1, <2>3
  <2> QED BY <1>1, <1>2, <1>4, <2>5, <2>6, <2>7, <2>8, <2>9, SavesMove
<1>6. CASE ~req[r].partial
  <2>1. Unregistered(r) /\ UNCHANGED saves
    BY <1>6 DEF ModelThrows
  <2> QED BY <1>1, <1>2, <1>3, <1>4, <1>6, <2>1, AgentTypes, QuietMove DEF Early, Working, Asked
<1> QED BY <1>5, <1>6

\* A save that is under way belongs to a request that has begun and is not settled.
LEMMA SavingIs ==
    ASSUME AgentInv, NEW r \in Requests, NEW who \in Saver, saves[<<r, who>>].at \in {"read", "store"}
    PROVE  /\ Active(r) /\ req[r].place \notin Early /\ req[r].place \notin {"configure", "number"}
           /\ who = "catch" \/ who = "close"
           /\ who = "catch" => req[r].place = "partial"
           /\ who = "close" => req[r].aborted
           /\ req[r].place = "partial" <=> saves[<<r, "catch">>].at \in {"read", "store"}
<1>1. Bookkept(r) /\ (who = "catch" \/ who = "close")
  BY DEF AgentInv, Saver
<1>2. req[r].place \notin Early
  BY <1>1 DEF Bookkept
<1>3. Active(r)
  BY <1>2 DEF Active, Settled, Saving, Early
<1> QED BY <1>1, <1>2, <1>3 DEF Bookkept, Early

LEMMA StandsStill ==
    ASSUME AgentInv, NEW r \in Requests, req' = req
    PROVE  Moves(r, req[r].place) /\ req[r].place \in Places /\ req'[r].aborted = req[r].aborted
  BY AgentTypes, FieldsOf DEF Moves

LEMMA SaveReads == ASSUME AgentInv, NEW r \in Requests, NEW who \in Saver, SaveRead(r, who) PROVE AgentInv'
<1>1. /\ saves[<<r, who>>].at = "read"
      /\ UNCHANGED <<log, era, registry, req, cancel, mail, failures, blocked, hurt, crowded>>
  BY DEF SaveRead
<1>2. /\ Active(r) /\ req[r].place \notin Early
      /\ who = "catch" \/ who = "close"
      /\ who = "catch" => req[r].place = "partial"
      /\ who = "close" => req[r].aborted
      /\ req[r].place = "partial" <=> saves[<<r, "catch">>].at \in {"read", "store"}
  BY <1>1, SavingIs
<1>3. PICK n \in Nat : n = LastNumber(req[r].conv)
  BY <1>2, ActiveIs, LastNumberIs DEF AgentInv
<1>4. PICK v \in SaveRec : /\ v.at = "store" /\ v.number = LastNumber(req[r].conv)
                           /\ saves' = [saves EXCEPT ![<<r, who>>] = v]
  <2>1. PICK v : v = [at |-> "store", number |-> n]
    OBVIOUS
  <2>2. v \in SaveRec /\ v.at = "store" /\ v.number = n
    BY <2>1 DEF SaveRec
  <2>3. saves' = [saves EXCEPT ![<<r, who>>] = v]
    BY <1>3, <2>1 DEF SaveRead
  <2> QED BY <1>3, <2>2, <2>3
<1>5. PICK p \in Places : p = req[r].place
  BY FieldsOf
<1>6. Moves(r, p) /\ req'[r].aborted = req[r].aborted
  BY <1>1, <1>5, StandsStill
<1>7. p = "partial" <=> (IF who = "catch" THEN v ELSE saves[<<r, "catch">>]).at \in {"read", "store"}
  BY <1>2, <1>4, <1>5
<1>8. who = "close" => v.at # "over" /\ saves[<<r, "close">>].at # "over"
  BY <1>1, <1>4
<1>9. failures' \in 0 .. MaxTrouble /\ blocked' \in 0 .. MaxTrouble
  BY <1>1, AgentTypes
<1> QED BY <1>1, <1>2, <1>4, <1>5, <1>6, <1>7, <1>8, <1>9, SavesMove

\* savePartialMessage() is over: who waited for it goes on.
LEMMA Resuming ==
    ASSUME AgentInv, NEW r \in Requests, NEW who \in Saver, saves[<<r, who>>].at \in {"read", "store"},
           Resume(r, who)
    PROVE  \E p \in Places : /\ Moves(r, p) /\ req'[r].aborted = req[r].aborted
                             /\ Unregistered(r) /\ (p \in Working => req'[r].aborted)
                             /\ who = "catch" => p = "last"
                             /\ who = "close" => p = req[r].place
<1>1. /\ who = "catch" \/ who = "close"
      /\ who = "close" => req[r].aborted
  BY SavingIs
<1>2. CASE who = "catch"
  <2>1. PICK p \in Places : p = "last"
    BY DEF Places
  <2>2. Goes(r, p) /\ Unregistered(r)
    BY <1>2, <2>1 DEF Resume
  <2>3. Moves(r, p) /\ req'[r].aborted = req[r].aborted
    BY <2>2, GoesIs
  <2>4. p \notin Working
    BY <2>1 DEF Working
  <2>5. /\ Moves(r, p) /\ req'[r].aborted = req[r].aborted
        /\ Unregistered(r) /\ (p \in Working => req'[r].aborted)
        /\ who = "catch" => p = "last"
        /\ who = "close" => p = req[r].place
    BY <1>2, <2>1, <2>2, <2>3, <2>4
  <2> QED BY <2>5
<1>3. CASE who = "close"
  <2>1. req' = req /\ Unregistered(r)
    BY <1>3 DEF Resume
  <2>2. PICK p \in Places : p = req[r].place
    BY FieldsOf
  <2>3. Moves(r, p) /\ req'[r].aborted = req[r].aborted
    BY <2>1, <2>2, StandsStill
  <2> QED BY <1>1, <1>3, <2>1, <2>2, <2>3
<1> QED BY <1>1, <1>2, <1>3

LEMMA SaveStores == ASSUME AgentInv, NEW r \in Requests, NEW who \in Saver, SaveStore(r, who) PROVE AgentInv'
<1>1. /\ saves[<<r, who>>].at = "store" /\ Resume(r, who)
      /\ UNCHANGED <<era, cancel, mail, failures, blocked, hurt, crowded>>
  BY DEF SaveStore
<1>2. /\ Active(r) /\ req[r].place \notin Early /\ req[r].place \notin {"configure", "number"}
      /\ who = "catch" \/ who = "close"
      /\ who = "catch" => req[r].place = "partial"
      /\ req[r].place = "partial" <=> saves[<<r, "catch">>].at \in {"read", "store"}
  BY <1>1, SavingIs
<1>3. PICK p \in Places : /\ Moves(r, p) /\ req'[r].aborted = req[r].aborted
                          /\ Unregistered(r) /\ (p \in Working => req'[r].aborted)
                          /\ who = "catch" => p = "last"
                          /\ who = "close" => p = req[r].place
  BY <1>1, Resuming
<1>4. PICK n \in Nat : n = saves[<<r, who>>].number
  BY SaveFields
<1>5. PICK m \in Message : m.of = r /\ m.role = "assistant" /\ m.number = n + 2 /\ Appended(req[r].conv, m)
  <2>1. PICK role \in {"user", "assistant"}, f \in BOOLEAN : role = "assistant" /\ f = FALSE
    BY Zenon
  <2>2. PICK k \in Nat : k = n + 2
    OBVIOUS
  <2>3. Stored(r, "assistant", saves[<<r, who>>].number + 2, FALSE)
    BY DEF SaveStore
  <2>4. Stored(r, role, k, f)
    BY <1>4, <2>1, <2>2, <2>3, Zenon
  <2> QED BY <1>2, <2>1, <2>2, <2>4, StoredIs
<1>6. PICK a \in {"read", "over"} : a = "over"
  OBVIOUS
<1>7. SaveAt(r, who, a)
  BY <1>6 DEF SaveStore, SaveAt
<1>8. PICK v \in SaveRec : v.at = "over" /\ saves' = [saves EXCEPT ![<<r, who>>] = v]
  BY <1>6, <1>7, SaveGoes
<1>9. /\ saves' \in [Requests \X Saver -> SaveRec] /\ saves'[<<r, who>>] = v
      /\ \A o \in Requests, w \in Saver : ~(o = r /\ w = who) => saves'[<<o, w>>] = saves[<<o, w>>]
  BY <1>8, SavesAre
<1>10. /\ req' \in [Requests -> ReqRec] /\ req'[r].place = p /\ req'[r].conv = req[r].conv
       /\ req'[r].home = req[r].home /\ req'[r].last = req[r].last
       /\ \A o \in Requests : o # r => req'[o] = req[o]
  BY <1>3 DEF Moves
<1>11. Acts(r) /\ Logs(r)
  <2>1. \A o \in Requests : o # r => \A w \in Saver : saves'[<<o, w>>] = saves[<<o, w>>]
    BY <1>9
  <2> QED BY <1>1, <1>3, <1>5, <1>10, <2>1 DEF Acts, Logs
<1>12. Bookkept(r) /\ Numbered(r) /\ req[r].conv # Nobody
  BY <1>2, ActiveIs, AgentTypes DEF AgentInv
<1>13. "catch" \in Saver /\ "close" \in Saver
  BY DEF Saver
<1>14. Bookkept(r)'
  BY <1>1, <1>2, <1>3, <1>8, <1>9, <1>10, <1>12, <1>13 DEF Bookkept, Early
<1>15. Asked(req'[r].place) = Asked(req[r].place) /\ Answered(r)' = Answered(r) + 1
  <2>1. CASE who = "catch"
    <3>1. saves'[<<r, "close">>] = saves[<<r, "close">>]
      BY <1>9, <1>13, <2>1
    <3> QED BY <1>2, <1>3, <1>10, <2>1, <3>1 DEF Asked, Answered
  <2>2. CASE who = "close"
    BY <1>1, <1>3, <1>8, <1>9, <1>10, <2>2 DEF Answered
  <2> QED BY <1>2, <2>1, <2>2
<1>16. r \notin crowded => m.number >= req[r].last + 2
  <2>1. r \notin crowded => saves[<<r, who>>].number >= req[r].last
    BY <1>1, <1>12 DEF Numbered
  <2>2. req[r].last \in Nat
    BY FieldsOf
  <2> QED BY <1>4, <1>5, <2>1, <2>2
<1>17. \A w \in Saver : saves'[<<r, w>>].at = "store" => saves'[<<r, w>>] = saves[<<r, w>>]
  BY <1>8, <1>9
<1>18. Counted(r)' /\ Numbered(r)'
  <2>1. m.role # "user"
    BY <1>5
  <2>2. /\ r \notin crowded => m.number >= req[r].last + 2
        /\ r \notin hurt' => /\ Asked(req'[r].place) = Asked(req[r].place)
                             /\ Answered(r)' = Answered(r) + 1
    BY <1>15, <1>16
  <2> QED BY <1>2, <1>5, <1>10, <1>11, <1>17, <2>1, <2>2, OwnAppended
<1>19. /\ era' \in [Conversations -> Nat]
       /\ failures' \in 0 .. MaxTrouble /\ blocked' \in 0 .. MaxTrouble
  BY <1>1, AgentTypes
<1> QED BY <1>2, <1>3, <1>9, <1>10, <1>11, <1>14, <1>18, <1>19, Together

LEMMA SaveFailed == ASSUME AgentInv, NEW r \in Requests, NEW who \in Saver, SaveFails(r, who) PROVE AgentInv'
<1>1. /\ saves[<<r, who>>].at \in {"read", "store"} /\ Resume(r, who) /\ Fails(r)
      /\ UNCHANGED <<log, era, cancel, mail, blocked, crowded>>
  BY DEF SaveFails
<1>2. /\ Active(r) /\ req[r].place \notin Early
      /\ who = "catch" \/ who = "close"
      /\ who = "close" => req[r].aborted
      /\ req[r].place = "partial" <=> saves[<<r, "catch">>].at \in {"read", "store"}
  BY <1>1, SavingIs
<1>3. PICK p \in Places : /\ Moves(r, p) /\ req'[r].aborted = req[r].aborted
                          /\ Unregistered(r) /\ (p \in Working => req'[r].aborted)
                          /\ who = "catch" => p = "last"
                          /\ who = "close" => p = req[r].place
  BY <1>1, Resuming
<1>4. PICK a \in {"read", "over"} : a = "over"
  OBVIOUS
<1>5. SaveAt(r, who, a)
  BY <1>4 DEF SaveFails, SaveAt
<1>6. PICK v \in SaveRec : v.at = "over" /\ saves' = [saves EXCEPT ![<<r, who>>] = v]
  BY <1>4, <1>5, SaveGoes
<1>7. failures' \in 0 .. MaxTrouble /\ blocked' \in 0 .. MaxTrouble /\ hurt' = hurt \cup {r}
  BY <1>1, OneMore, AgentTypes DEF Fails
<1>8. p = "partial" <=> (IF who = "catch" THEN v ELSE saves[<<r, "catch">>]).at \in {"read", "store"}
  BY <1>2, <1>3, <1>6
<1>9. p \notin Early
  BY <1>2, <1>3 DEF Early
<1>10. r \in hurt' /\ v.at # "store"
  BY <1>6, <1>7
<1>11. who = "close" => req'[r].aborted
  BY <1>2, <1>3
<1> QED BY <1>1, <1>2, <1>3, <1>6, <1>7, <1>8, <1>9, <1>10, <1>11, SavesMove

(***************************************************************************)
(* Steps that leave what a request stored as it is.                        *)
(***************************************************************************)
LEMMA LeftAlone ==
    ASSUME AgentInv, NEW o \in Requests,
           req'[o].place = req[o].place, req'[o].home = req[o].home, req'[o].conv = req[o].conv,
           req'[o].last = req[o].last, req[o].aborted => req'[o].aborted,
           UNCHANGED <<log, saves>>, o \in hurt' <=> o \in hurt, crowded \subseteq crowded'
    PROVE  Bookkept(o)' /\ Counted(o)' /\ Numbered(o)'
<1>1. Bookkept(o) /\ Counted(o) /\ Numbered(o)
  BY DEF AgentInv
<1>2. \A d, role : Of(o, d, role)' = Of(o, d, role)
  BY DEF Of
<1>3. Answered(o)' = Answered(o) /\ (Settled(o)' <=> Settled(o))
  BY DEF Answered, Settled, Saving
<1>4. Bookkept(o)'
  BY <1>1 DEF Bookkept
<1>5. Counted(o)'
  BY <1>1, <1>2, <1>3 DEF Counted
<1>6. Backed(o) => Backed(o)'
  BY DEF Backed
<1>7. Numbered(o)'
  BY <1>1, <1>2, <1>3, <1>6 DEF Numbered
<1> QED BY <1>4, <1>5, <1>7

LEMMA IdleIs ==
    ASSUME AgentInv, NEW r \in Requests, req[r].place = "idle"
    PROVE  /\ req[r].conv = Nobody /\ r \notin hurt
           /\ saves[<<r, "catch">>].at = "no" /\ saves[<<r, "close">>].at = "no"
           /\ \A d \in Conversations, role \in {"user", "assistant"} : Of(r, d, role) = {}
<1>1. Bookkept(r) /\ Counted(r)
  BY DEF AgentInv
<1>2. req[r].conv = Nobody
  BY <1>1 DEF Bookkept
<1> QED BY <1>1, <1>2 DEF Bookkept, Counted, Early

LEMMA Begins ==
    ASSUME AgentInv, NEW r \in Requests, NEW i \in Instances, NEW c \in Conversations, Begin(r, i, c)
    PROVE  AgentInv'
<1>1. /\ req[r].place = "idle"
      /\ req' = [req EXCEPT ![r] = [@ EXCEPT !.place = "configure", !.home = i, !.conv = c,
                                            !.since = era[c]]]
      /\ registry' = [registry EXCEPT ![i][c] = r]
      /\ UNCHANGED <<log, era, saves, cancel, mail, failures, blocked, hurt>>
  BY DEF Begin, At
<1>2. PICK others : /\ others = {o \in Requests : UnderWay(o, c)}
                    /\ crowded' = crowded \cup others \cup
                         (IF others # {} \/ CancelOf(c) THEN {r} ELSE {})
  BY DEF Begin
<1>3. /\ crowded \subseteq crowded' /\ crowded' \subseteq Requests
      /\ \A o \in Requests : UnderWay(o, c) => o \in crowded' /\ r \in crowded'
      /\ CancelOf(c) => r \in crowded'
  BY <1>2, AgentTypes
<1>4. /\ req[r].conv = Nobody /\ r \notin hurt
      /\ saves[<<r, "catch">>].at = "no" /\ saves[<<r, "close">>].at = "no"
      /\ \A d \in Conversations, role \in {"user", "assistant"} : Of(r, d, role) = {}
  BY <1>1, IdleIs
<1>5. PICK e \in Nat : e = era[c]
  BY AgentTypes
<1>6. PICK v : v = [req[r] EXCEPT !.place = "configure", !.home = i, !.conv = c, !.since = e]
  OBVIOUS
<1>7. /\ v \in ReqRec /\ v.place = "configure" /\ v.home = i /\ v.conv = c
      /\ v.aborted = req[r].aborted
  <2>1. req[r] \in ReqRec
    BY FieldsOf
  <2> QED BY <1>6, <2>1 DEF ReqRec, Places
<1>8. /\ req' \in [Requests -> ReqRec] /\ req'[r] = v
      /\ \A o \in Requests : o # r => req'[o] = req[o]
  <2>1. req' = [req EXCEPT ![r] = v]
    BY <1>1, <1>5, <1>6
  <2> QED BY <1>7, <2>1, Updated
<1>9. /\ registry' \in [Instances -> [Conversations -> Requests \cup {Nobody}]]
      /\ registry'[i][c] = r
      /\ \A j \in Instances, d \in Conversations : ~(j = i /\ d = c) => registry'[j][d] = registry[j][d]
  <2>1. registry \in [Instances -> [Conversations -> Requests \cup {Nobody}]]
    BY AgentTypes
  <2> QED BY <1>1, <2>1
<1>10. \A o \in Requests, d \in Conversations : o # r => (UnderWay(o, d)' <=> UnderWay(o, d))
  BY <1>1, <1>8 DEF UnderWay, Settled, Saving, At
<1>11. \A d \in Conversations : UnderWay(r, d)' => d = c
  BY <1>7, <1>8 DEF UnderWay
<1>12. Registered'
  <2>1. ASSUME NEW j \in Instances, NEW d \in Conversations, registry'[j][d] # Nobody
        PROVE  /\ req'[registry'[j][d]].home = j /\ req'[registry'[j][d]].conv = d
               /\ req'[registry'[j][d]].place \in Working
    <3>1. CASE j = i /\ d = c
      BY <1>7, <1>8, <1>9, <3>1 DEF Working
    <3>2. CASE ~(j = i /\ d = c)
      <4>1. registry[j][d] \in Requests \cup {Nobody} /\ registry'[j][d] = registry[j][d]
        BY <1>9, <3>2, AgentTypes
      <4>2. PICK o \in Requests : o = registry[j][d]
        BY <2>1, <4>1
      <4>3. req[o].home = j /\ req[o].conv = d /\ req[o].place \in Working
        BY <2>1, <4>1, <4>2 DEF AgentInv, Registered
      <4>4. o # r
        BY <1>1, <4>3 DEF Working
      <4> QED BY <1>8, <4>1, <4>2, <4>3, <4>4
    <3> QED BY <3>1, <3>2
  <2>2. ASSUME NEW o \in Requests, req'[o].place \in Working, ~req'[o].aborted, o \notin crowded'
        PROVE  registry'[req'[o].home][req'[o].conv] = o
    <3>1. CASE o = r
      BY <1>7, <1>8, <1>9, <3>1
    <3>2. CASE o # r
      <4>1. req'[o] = req[o] /\ o \notin crowded
        BY <1>3, <1>8, <2>2, <3>2
      <4>2. registry[req[o].home][req[o].conv] = o
        BY <2>2, <4>1 DEF AgentInv, Registered
      <4>3. Active(o)
        BY <2>2, <4>1 DEF Active, Settled, Working
      <4>4. req[o].conv \in Conversations /\ req[o].home \in Instances /\ UnderWay(o, req[o].conv)
        BY <4>3, ActiveIs
      <4>5. req[o].conv # c
        BY <1>3, <2>2, <4>4
      <4> QED BY <1>9, <4>1, <4>2, <4>4, <4>5
    <3> QED BY <3>1, <3>2
  <2> QED BY <2>1, <2>2 DEF Registered
<1>13. CrowdsAreKnown'
  <2>1. /\ \A p, o \in Requests, d \in Conversations :
             p # o /\ UnderWay(p, d) /\ UnderWay(o, d) => p \in crowded
        /\ \A p \in Requests, d \in Conversations : CancelOf(d) /\ UnderWay(p, d) => p \in crowded
        /\ \A k \in Cancels : cancel[k].at = "publish" =>
             cancel[k].on \in Instances /\ cancel[k].conv \in Conversations /\ cancel[k].of \in Requests
    BY DEF AgentInv, CrowdsAreKnown
  <2>2. \A d \in Conversations : CancelOf(d)' <=> CancelOf(d)
    BY <1>1 DEF CancelOf
  <2>3. ASSUME NEW p \in Requests, NEW o \in Requests, NEW d \in Conversations,
               p # o, UnderWay(p, d)', UnderWay(o, d)'
        PROVE  p \in crowded'
    BY <1>3, <1>10, <1>11, <2>1, <2>3
  <2>4. ASSUME NEW p \in Requests, NEW d \in Conversations, CancelOf(d)', UnderWay(p, d)'
        PROVE  p \in crowded'
    BY <1>3, <1>10, <1>11, <2>1, <2>2, <2>4
  <2> QED BY <1>1, <2>1, <2>3, <2>4 DEF CrowdsAreKnown
<1>14. ASSUME NEW o \in Requests, o # r PROVE Bookkept(o)' /\ Counted(o)' /\ Numbered(o)'
  BY <1>1, <1>3, <1>8, <1>14, LeftAlone
<1>15. Bookkept(r)'
  BY <1>1, <1>4, <1>7, <1>8, AgentTypes DEF Bookkept, Early
<1>16. Of(r, c, "user")' = {} /\ Of(r, c, "assistant")' = {}
  BY <1>1, <1>4 DEF Of
<1>17. Counted(r)'
  <2>1. Cardinality({}) = 0
    BY FS_EmptySet
  <2>2. Answered(r)' = 0 /\ Asked(req'[r].place) = 0
    BY <1>1, <1>4, <1>7, <1>8 DEF Answered, Asked
  <2>3. req'[r].conv = c /\ c # Nobody
    BY <1>7, <1>8, AgentTypes
  <2> QED BY <1>16, <2>1, <2>2, <2>3 DEF Counted
<1>18. Numbered(r)'
  BY <1>1, <1>4, <1>7, <1>8, <1>16 DEF Numbered, Saver
<1>19. AgentTypeOK'
  BY <1>1, <1>3, <1>8, <1>9, AgentTypes, TypedAgain
<1> QED BY <1>12, <1>13, <1>14, <1>15, <1>17, <1>18, <1>19 DEF AgentInv

LEMMA BeginFailed == ASSUME AgentInv, NEW r \in Requests, BeginFails(r) PROVE AgentInv'
<1>1. /\ req[r].place = "idle" /\ Fails(r) /\ Goes(r, "over")
      /\ UNCHANGED <<log, era, registry, saves, cancel, mail, blocked, crowded>>
  BY DEF BeginFails, At
<1>2. failures' \in 0 .. MaxTrouble /\ hurt' = hurt \cup {r}
  BY <1>1, OneMore DEF Fails
<1>3. /\ req[r].conv = Nobody
      /\ saves[<<r, "catch">>].at = "no" /\ saves[<<r, "close">>].at = "no"
      /\ \A d \in Conversations, role \in {"user", "assistant"} : Of(r, d, role) = {}
  BY <1>1, IdleIs
<1>4. Moves(r, "over")
  BY <1>1, GoesIs DEF Places
<1>5. /\ req' \in [Requests -> ReqRec] /\ req'[r].place = "over" /\ req'[r].conv = Nobody
      /\ \A o \in Requests : o # r => req'[o] = req[o]
  BY <1>3, <1>4 DEF Moves
<1>6. Registered'
  <2>1. ASSUME NEW j \in Instances, NEW d \in Conversations, registry'[j][d] # Nobody
        PROVE  /\ req'[registry'[j][d]].home = j /\ req'[registry'[j][d]].conv = d
               /\ req'[registry'[j][d]].place \in Working
    <3>1. registry[j][d] \in Requests \cup {Nobody} /\ registry' = registry
      BY <1>1, AgentTypes
    <3>2. PICK o \in Requests : o = registry[j][d]
      BY <2>1, <3>1
    <3>3. req[o].home = j /\ req[o].conv = d /\ req[o].place \in Working
      BY <2>1, <3>1, <3>2 DEF AgentInv, Registered
    <3>4. o # r
      BY <1>1, <3>3 DEF Working
    <3> QED BY <1>5, <3>1, <3>2, <3>3, <3>4
  <2>2. ASSUME NEW o \in Requests, req'[o].place \in Working, ~req'[o].aborted, o \notin crowded'
        PROVE  registry'[req'[o].home][req'[o].conv] = o
    <3>1. o # r
      BY <1>5, <2>2 DEF Working
    <3>2. req'[o] = req[o]
      BY <1>5, <3>1
    <3> QED BY <1>1, <2>2, <3>2 DEF AgentInv, Registered
  <2> QED BY <2>1, <2>2 DEF Registered
<1>7. CrowdsAreKnown'
  <2>1. \A o \in Requests, d \in Conversations : UnderWay(o, d)' => UnderWay(o, d)
    <3>1. ASSUME NEW o \in Requests, NEW d \in Conversations, UnderWay(o, d)' PROVE UnderWay(o, d)
      <4>1. o # r
        BY <1>5, <3>1, AgentTypes DEF UnderWay
      <4>2. req'[o] = req[o]
        BY <1>5, <4>1
      <4> QED BY <1>1, <3>1, <4>2 DEF UnderWay, Settled, Saving, At
    <3> QED BY <3>1
  <2>2. \A d \in Conversations : CancelOf(d)' => CancelOf(d)
    BY <1>1 DEF CancelOf
  <2> QED BY <1>1, <2>1, <2>2 DEF AgentInv, CrowdsAreKnown
<1>8. ASSUME NEW o \in Requests, o # r PROVE Bookkept(o)' /\ Counted(o)' /\ Numbered(o)'
  <2>1. o \in hurt' <=> o \in hurt
    BY <1>2, <1>8
  <2> QED BY <1>1, <1>5, <1>8, <2>1, LeftAlone
<1>9. Bookkept(r)' /\ Numbered(r)'
  BY <1>1, <1>2, <1>3, <1>5 DEF Bookkept, Early, Numbered
<1>10. Counted(r)'
  <2>1. \A d \in Conversations, role \in {"user", "assistant"} : Of(r, d, role)' = {}
    BY <1>1, <1>3 DEF Of
  <2> QED BY <1>5, <2>1 DEF Counted
<1>11. AgentTypeOK'
  BY <1>1, <1>2, <1>5, AgentTypes, TypedAgain
<1> QED BY <1>6, <1>7, <1>8, <1>9, <1>10, <1>11 DEF AgentInv

(***************************************************************************)
(* Cancels.                                                                *)
(***************************************************************************)
LEMMA CancelCalled ==
    ASSUME AgentInv, NEW k \in Cancels, NEW i \in Instances, NEW c \in Conversations,
           CancelCall(k, i, c)
    PROVE  AgentInv'
<1>1. /\ cancel[k].at = "free"
      /\ cancel' = [cancel EXCEPT ![k] =
                      [at |-> IF registry[i][c] = Nobody THEN "over" ELSE "publish",
                       on |-> i, conv |-> c, of |-> registry[i][c]]]
      /\ crowded' = IF registry[i][c] = Nobody THEN crowded
                    ELSE crowded \cup {r \in Requests : UnderWay(r, c)}
      /\ UNCHANGED <<log, era, registry, req, saves, mail, failures, blocked, hurt>>
  BY DEF CancelCall
<1>2. PICK o \in Requests \cup {Nobody} : o = registry[i][c]
  BY AgentTypes
<1>3. PICK a \in {"over", "publish"} : a = IF o = Nobody THEN "over" ELSE "publish"
  OBVIOUS
<1>4. PICK v : v = [at |-> a, on |-> i, conv |-> c, of |-> o]
  OBVIOUS
<1>5. v \in CancelRec /\ v.at = a /\ v.on = i /\ v.conv = c /\ v.of = o
  BY <1>4 DEF CancelRec
<1>6. /\ cancel' \in [Cancels -> CancelRec] /\ cancel'[k] = v
      /\ \A j \in Cancels : j # k => cancel'[j] = cancel[j]
  <2>1. cancel \in [Cancels -> CancelRec]
    BY AgentTypes
  <2>2. cancel' = [cancel EXCEPT ![k] = v]
    BY <1>1, <1>2, <1>3, <1>4
  <2> QED BY <1>5, <2>1, <2>2
<1>7. /\ crowded \subseteq crowded' /\ crowded' \subseteq Requests
      /\ o # Nobody => \A r \in Requests : UnderWay(r, c) => r \in crowded'
  BY <1>1, <1>2, AgentTypes
<1>8. \A r \in Requests : req'[r] = req[r] /\ (r \in hurt' <=> r \in hurt)
  BY <1>1
<1>9. \A r \in Requests : Bookkept(r)' /\ Counted(r)' /\ Numbered(r)'
  BY <1>1, <1>7, <1>8, LeftAlone
<1>10. Registered'
  BY <1>1, <1>7 DEF AgentInv, Registered
<1>11. CrowdsAreKnown'
  <2>1. /\ \A p, q \in Requests, d \in Conversations :
             p # q /\ UnderWay(p, d) /\ UnderWay(q, d) => p \in crowded
        /\ \A p \in Requests, d \in Conversations : CancelOf(d) /\ UnderWay(p, d) => p \in crowded
        /\ \A j \in Cancels : cancel[j].at = "publish" =>
             cancel[j].on \in Instances /\ cancel[j].conv \in Conversations /\ cancel[j].of \in Requests
    BY DEF AgentInv, CrowdsAreKnown
  <2>2. \A p \in Requests, d \in Conversations : UnderWay(p, d)' <=> UnderWay(p, d)
    BY <1>1 DEF UnderWay, Settled, Saving, At
  <2>3. \A d \in Conversations : CancelOf(d)' => CancelOf(d) \/ (d = c /\ o # Nobody)
    BY <1>1, <1>3, <1>5, <1>6 DEF CancelOf
  <2>4. \A j \in Cancels : cancel'[j].at = "publish" =>
             cancel'[j].on \in Instances /\ cancel'[j].conv \in Conversations /\ cancel'[j].of \in Requests
    BY <1>2, <1>3, <1>5, <1>6, <2>1
  <2> QED BY <1>7, <2>1, <2>2, <2>3, <2>4 DEF CrowdsAreKnown
<1>12. AgentTypeOK'
  BY <1>1, <1>6, <1>7, AgentTypes, TypedAgain
<1> QED BY <1>9, <1>10, <1>11, <1>12 DEF AgentInv

\* An entry is removed because of a cancel, and a request may be aborted.
LEMMA Cancelling ==
    ASSUME AgentInv, NEW i \in Instances, NEW c \in Conversations, CancelOf(c),
           registry' = [registry EXCEPT ![i][c] = Nobody],
           req' \in [Requests -> ReqRec],
           \A o \in Requests :
              /\ req'[o].place = req[o].place /\ req'[o].home = req[o].home
              /\ req'[o].conv = req[o].conv /\ req'[o].last = req[o].last
              /\ req[o].aborted => req'[o].aborted,
           UNCHANGED <<log, era, saves, failures, blocked, hurt, crowded>>,
           cancel' \in [Cancels -> CancelRec], mail' \subseteq Instances \X Conversations,
           \A d \in Conversations : CancelOf(d)' => CancelOf(d),
           \A k \in Cancels : cancel'[k].at = "publish" => cancel'[k] = cancel[k]
    PROVE  AgentInv'
<1>1. \A o \in Requests : o \in hurt' <=> o \in hurt
  OBVIOUS
<1>2. \A o \in Requests : Bookkept(o)' /\ Counted(o)' /\ Numbered(o)'
  BY <1>1, LeftAlone
<1>3. /\ registry' \in [Instances -> [Conversations -> Requests \cup {Nobody}]]
      /\ registry'[i][c] = Nobody
      /\ \A j \in Instances, d \in Conversations : ~(j = i /\ d = c) => registry'[j][d] = registry[j][d]
  <2>1. registry \in [Instances -> [Conversations -> Requests \cup {Nobody}]]
    BY AgentTypes
  <2> QED BY <2>1
<1>4. Registered'
  <2>1. ASSUME NEW j \in Instances, NEW d \in Conversations, registry'[j][d] # Nobody
        PROVE  /\ req'[registry'[j][d]].home = j /\ req'[registry'[j][d]].conv = d
               /\ req'[registry'[j][d]].place \in Working
    <3>1. registry[j][d] \in Requests \cup {Nobody} /\ registry'[j][d] = registry[j][d]
      BY <1>3, <2>1, AgentTypes
    <3>2. PICK o \in Requests : o = registry[j][d]
      BY <2>1, <3>1
    <3>3. req[o].home = j /\ req[o].conv = d /\ req[o].place \in Working
      BY <2>1, <3>1, <3>2 DEF AgentInv, Registered
    <3> QED BY <3>1, <3>2, <3>3
  <2>2. ASSUME NEW o \in Requests, req'[o].place \in Working, ~req'[o].aborted, o \notin crowded'
        PROVE  registry'[req'[o].home][req'[o].conv] = o
    <3>1. req[o].place \in Working /\ ~req[o].aborted /\ o \notin crowded
      BY <2>2
    <3>2. registry[req[o].home][req[o].conv] = o
      BY <3>1 DEF AgentInv, Registered
    <3>3. Active(o)
      BY <3>1 DEF Active, Settled, Working
    <3>4. req[o].conv \in Conversations /\ req[o].home \in Instances /\ UnderWay(o, req[o].conv)
      BY <3>3, ActiveIs
    <3>5. req[o].conv # c
      BY <3>1, <3>4 DEF AgentInv, CrowdsAreKnown
    <3> QED BY <1>3, <3>2, <3>4, <3>5
  <2> QED BY <2>1, <2>2 DEF Registered
<1>5. CrowdsAreKnown'
  <2>1. \A o \in Requests, d \in Conversations : UnderWay(o, d)' <=> UnderWay(o, d)
    BY DEF UnderWay, Settled, Saving, At
  <2> QED BY <2>1 DEF AgentInv, CrowdsAreKnown
<1>6. AgentTypeOK'
  BY <1>3, AgentTypes, TypedAgain
<1> QED BY <1>2, <1>4, <1>5, <1>6 DEF AgentInv

\* A request that is aborted keeps everything else.
LEMMA AbortIs ==
    ASSUME AgentInv, NEW r \in Requests, req' = [req EXCEPT ![r].aborted = TRUE]
    PROVE  /\ req' \in [Requests -> ReqRec]
           /\ \A o \in Requests :
                /\ req'[o].place = req[o].place /\ req'[o].home = req[o].home
                /\ req'[o].conv = req[o].conv /\ req'[o].last = req[o].last
                /\ req[o].aborted => req'[o].aborted
<1>1. PICK p \in Places, a \in Requests \cup {Nobody} : p = req[r].place /\ a = Nobody
  BY FieldsOf
<1>2. Moves(r, req[r].place) /\ req'[r].aborted
  BY <1>1, PlacesAre
<1> QED BY <1>2 DEF Moves

LEMMA CancelledHere == ASSUME AgentInv, NEW k \in Cancels, CancelHere(k) PROVE AgentInv'
<1>1. /\ cancel[k].at = "publish"
      /\ cancel' = [cancel EXCEPT ![k].at = "over"]
      /\ mail' = mail \cup {<<i, cancel[k].conv>> : i \in Instances \ {cancel[k].on}}
      /\ req' = [req EXCEPT ![cancel[k].of].aborted = TRUE]
      /\ registry' = [registry EXCEPT ![cancel[k].on][cancel[k].conv] = Nobody]
      /\ UNCHANGED <<log, era, saves, failures, blocked, hurt, crowded>>
  BY DEF CancelHere
<1>2. PICK i \in Instances, c \in Conversations, r \in Requests :
         i = cancel[k].on /\ c = cancel[k].conv /\ r = cancel[k].of
  BY <1>1 DEF AgentInv, CrowdsAreKnown
<1>3. CancelOf(c)
  BY <1>1, <1>2 DEF CancelOf
<1>4. registry' = [registry EXCEPT ![i][c] = Nobody] /\ req' = [req EXCEPT ![r].aborted = TRUE]
  BY <1>1, <1>2
<1>5. /\ req' \in [Requests -> ReqRec]
      /\ \A o \in Requests :
           /\ req'[o].place = req[o].place /\ req'[o].home = req[o].home
           /\ req'[o].conv = req[o].conv /\ req'[o].last = req[o].last
           /\ req[o].aborted => req'[o].aborted
  BY <1>4, AbortIs
<1>6. PICK v : v = [cancel[k] EXCEPT !.at = "over"]
  OBVIOUS
<1>7. v \in CancelRec /\ v.at = "over"
  <2>1. cancel[k] \in CancelRec
    BY AgentTypes
  <2> QED BY <1>6, <2>1 DEF CancelRec
<1>8. /\ cancel' \in [Cancels -> CancelRec] /\ cancel'[k] = v
      /\ \A j \in Cancels : j # k => cancel'[j] = cancel[j]
  <2>1. cancel \in [Cancels -> CancelRec] /\ cancel' = [cancel EXCEPT ![k] = v]
    BY <1>1, <1>6, AgentTypes
  <2> QED BY <1>7, <2>1
<1>9. mail' \subseteq Instances \X Conversations /\ \A m \in mail' : m \in mail \/ m[2] = c
  BY <1>1, <1>2, AgentTypes
<1>10. ASSUME NEW d \in Conversations, CancelOf(d)' PROVE CancelOf(d)
  BY <1>3, <1>7, <1>8, <1>9, <1>10 DEF CancelOf
<1>11. \A j \in Cancels : cancel'[j].at = "publish" => cancel'[j] = cancel[j]
  BY <1>7, <1>8
<1> QED BY <1>1, <1>3, <1>4, <1>5, <1>8, <1>9, <1>10, <1>11, Cancelling

LEMMA CancelledThere ==
    ASSUME AgentInv, NEW i \in Instances, NEW c \in Conversations, CancelThere(i, c)
    PROVE  AgentInv'
<1>1. /\ <<i, c>> \in mail /\ mail' = mail \ {<<i, c>>}
      /\ registry' = [registry EXCEPT ![i][c] = Nobody]
      /\ IF registry[i][c] = Nobody THEN UNCHANGED req
         ELSE req' = [req EXCEPT ![registry[i][c]].aborted = TRUE]
      /\ UNCHANGED <<log, era, saves, cancel, failures, blocked, hurt, crowded>>
  BY DEF CancelThere
<1>2. CancelOf(c)
  BY <1>1 DEF CancelOf
<1>3. PICK o \in Requests \cup {Nobody} : o = registry[i][c]
  BY AgentTypes
<1>4. /\ req' \in [Requests -> ReqRec]
      /\ \A q \in Requests :
           /\ req'[q].place = req[q].place /\ req'[q].home = req[q].home
           /\ req'[q].conv = req[q].conv /\ req'[q].last = req[q].last
           /\ req[q].aborted => req'[q].aborted
  <2>1. CASE o = Nobody
    BY <1>1, <1>3, <2>1, AgentTypes
  <2>2. CASE o # Nobody
    <3>1. PICK r \in Requests : r = o
      BY <2>2
    <3>2. req' = [req EXCEPT ![r].aborted = TRUE]
      BY <1>1, <1>3, <2>2, <3>1
    <3> QED BY <3>2, AbortIs
  <2> QED BY <2>1, <2>2
<1>5. cancel' \in [Cancels -> CancelRec] /\ mail' \subseteq Instances \X Conversations
  BY <1>1, AgentTypes
<1>6. \A d \in Conversations : CancelOf(d)' => CancelOf(d)
  BY <1>1 DEF CancelOf
<1>7. \A j \in Cancels : cancel'[j].at = "publish" => cancel'[j] = cancel[j]
  BY <1>1
<1> QED BY <1>1, <1>2, <1>4, <1>5, <1>6, <1>7, Cancelling

(***************************************************************************)
(* The requests keep the invariant, and have it at first.                  *)
(***************************************************************************)
LEMMA NextAgent == ASSUME AgentInv, AgentNext PROVE AgentInv'
<1>1. ASSUME NEW r \in Requests, RequestGoesOn(r) PROVE AgentInv'
  <2>1. CASE \E found \in BOOLEAN : Configure(r, found)
    BY <2>1, Configured
  <2>2. CASE ReadNumber(r)
    BY <2>2, NumberRead
  <2>3. CASE StoreQuestion(r) \/ RecreateTrigger(r) \/ StoreAnswer(r) \/ Refuse(r)
    BY <2>3, Storing
  <2>4. CASE ReadWindow(r)
    BY <2>4, WindowRead
  <2>5. CASE Summarise(r)
    BY <2>5, Summarised
  <2>6. CASE DeleteTrigger(r)
    BY <2>6, TriggerDeleted
  <2>7. CASE ReadAgain(r)
    BY <2>7, AgainRead
  <2>8. CASE ModelReturns(r)
    BY <2>8, Returned
  <2>9. CASE ModelThrows(r)
    BY <2>9, Throws
  <2>10. CASE SendDone(r)
    BY <2>10, Streaming
  <2>11. ASSUME NEW who \in Saver, SaveRead(r, who) \/ SaveStore(r, who) PROVE AgentInv'
    BY <2>11, SaveReads, SaveStores
  <2> QED BY <1>1, <2>1, <2>2, <2>3, <2>4, <2>5, <2>6, <2>7, <2>8, <2>9, <2>10, <2>11 DEF RequestGoesOn
<1>2. ASSUME NEW r \in Requests, NEW i \in Instances, NEW c \in Conversations, Begin(r, i, c)
      PROVE  AgentInv'
  BY <1>2, Begins
<1>3. ASSUME NEW r \in Requests, BeginFails(r) PROVE AgentInv'
  BY <1>3, BeginFailed
<1>4. ASSUME NEW r \in Requests, StreamEvent(r) \/ StreamNotice(r) PROVE AgentInv'
  BY <1>4, Streaming
<1>5. ASSUME NEW r \in Requests, RequestFails(r) \/ StoreFails(r) PROVE AgentInv'
  BY <1>5, Failing
<1>6. ASSUME NEW r \in Requests, NEW who \in Saver, SaveFails(r, who) PROVE AgentInv'
  BY <1>6, SaveFailed
<1>7. ASSUME NEW k \in Cancels, NEW i \in Instances, NEW c \in Conversations, CancelCall(k, i, c)
      PROVE  AgentInv'
  BY <1>7, CancelCalled
<1>8. ASSUME NEW k \in Cancels, CancelHere(k) PROVE AgentInv'
  BY <1>8, CancelledHere
<1>9. ASSUME NEW i \in Instances, NEW c \in Conversations, CancelThere(i, c) PROVE AgentInv'
  BY <1>9, CancelledThere
<1> QED BY <1>1, <1>2, <1>3, <1>4, <1>5, <1>6, <1>7, <1>8, <1>9 DEF AgentNext

LEMMA AgentStands == ASSUME AgentInv, UNCHANGED agentVars PROVE AgentInv'
<1>1. UNCHANGED <<log, era, registry, req, saves, cancel, mail, failures, blocked, hurt, crowded>>
  BY DEF agentVars
<1>2. \A o \in Requests : Bookkept(o)' /\ Counted(o)' /\ Numbered(o)'
  BY <1>1, LeftAlone
<1>3. AgentTypeOK'
  BY <1>1, AgentTypes, TypedAgain
<1>4. Registered'
  BY <1>1 DEF AgentInv, Registered
<1>5. CrowdsAreKnown'
  <2>1. CancelOf(Nobody)' = CancelOf(Nobody) /\ \A c : CancelOf(c)' = CancelOf(c)
    BY <1>1 DEF CancelOf
  <2>2. \A o, c : UnderWay(o, c)' = UnderWay(o, c)
    BY <1>1 DEF UnderWay, Settled, Saving, At
  <2> QED BY <1>1, <2>1, <2>2 DEF AgentInv, CrowdsAreKnown
<1> QED BY <1>2, <1>3, <1>4, <1>5 DEF AgentInv

LEMMA OldMessages ==
    ASSUME NEW n \in Nat
    PROVE  /\ Old(n) \in Seq(Message)
           /\ \A k \in 1 .. Len(Old(n)) : Old(n)[k].of = Nobody
<1>1. ASSUME NEW k \in 1 .. n
      PROVE  [role |-> IF k % 2 = 1 THEN "user" ELSE "assistant", number |-> k, of |-> Nobody,
              era |-> 0, error |-> FALSE] \in Message
  <2>1. PICK role \in {"user", "assistant"}, f \in BOOLEAN :
           role = (IF k % 2 = 1 THEN "user" ELSE "assistant") /\ f = FALSE
    BY Zenon
  <2>2. [role |-> role, number |-> k, of |-> Nobody, era |-> 0, error |-> f] \in Message
    BY DEF Message
  <2> QED BY <2>1, <2>2, Zenon
<1>2. Old(n) \in [1 .. n -> Message]
  BY <1>1, Zenon DEF Old
<1>3. \A k \in 1 .. n : Old(n)[k].of = Nobody
  BY DEF Old
<1>4. PICK s \in [1 .. n -> Message] : s = Old(n)
  BY <1>2
<1>5. s \in Seq(Message) /\ Len(s) = n
  OBVIOUS
<1> QED BY <1>3, <1>4, <1>5

LEMMA InitAgent == ASSUME NEW n \in Nat, AgentInitWith(Old(n)) PROVE AgentInv
<1>1. PICK old \in Seq(Message) : old = Old(n) /\ \A k \in 1 .. Len(old) : old[k].of = Nobody
  BY OldMessages
<1>2. /\ log = [c \in Conversations |-> old]
      /\ era = [c \in Conversations |-> 0]
      /\ registry = [i \in Instances |-> [c \in Conversations |-> Nobody]]
      /\ cancel = [k \in Cancels |-> [at |-> "free", on |-> Nobody, conv |-> Nobody, of |-> Nobody]]
      /\ mail = {} /\ failures = 0 /\ blocked = 0 /\ hurt = {} /\ crowded = {}
  BY <1>1 DEF AgentInitWith
<1>3. PICK none \in ReqRec :
         /\ req = [r \in Requests |-> none]
         /\ none.place = "idle" /\ none.home = Nobody /\ none.conv = Nobody
  <2>1. PICK f \in BOOLEAN : f = FALSE
    BY Zenon
  <2>2. PICK none : none = [place |-> "idle", home |-> Nobody, conv |-> Nobody, since |-> 0,
                            last |-> 0, aborted |-> f, partial |-> f, asked |-> Nobody]
    OBVIOUS
  <2>3. none \in ReqRec /\ none.place = "idle" /\ none.home = Nobody /\ none.conv = Nobody
    BY <2>2 DEF ReqRec, Places
  <2>4. req = [r \in Requests |-> none]
    BY <2>1, <2>2, Zenon DEF AgentInitWith
  <2> QED BY <2>3, <2>4
<1>4. PICK save \in SaveRec : saves = [w \in Requests \X Saver |-> save] /\ save.at = "no"
  <2>1. PICK save : save = [at |-> "no", number |-> 0]
    OBVIOUS
  <2>2. save \in SaveRec /\ save.at = "no"
    BY <2>1 DEF SaveRec
  <2>3. saves = [w \in Requests \X Saver |-> save]
    BY <2>1 DEF AgentInitWith
  <2> QED BY <2>2, <2>3
<1>5. /\ req \in [Requests -> ReqRec] /\ saves \in [Requests \X Saver -> SaveRec]
      /\ \A r \in Requests : req[r] = none
      /\ \A r \in Requests, who \in Saver : saves[<<r, who>>] = save
  BY <1>3, <1>4
<1>6. cancel \in [Cancels -> CancelRec] /\ \A k \in Cancels : cancel[k].at = "free"
  BY <1>2 DEF CancelRec
<1>7. AgentTypeOK
  <2>1. log \in [Conversations -> Seq(Message)] /\ era \in [Conversations -> Nat]
    BY <1>1, <1>2
  <2>2. registry \in [Instances -> [Conversations -> Requests \cup {Nobody}]]
    BY <1>2
  <2>3. 0 \in 0 .. MaxTrouble
    BY AgentAssumption
  <2> QED BY <1>2, <1>5, <1>6, <2>1, <2>2, <2>3 DEF AgentTypeOK, ReqRec, SaveRec, CancelRec
<1>8. Registered
  BY <1>2, <1>3, <1>5 DEF Registered, Working
<1>9. CrowdsAreKnown
  BY <1>2, <1>3, <1>5, <1>6 DEF CrowdsAreKnown, UnderWay, At, CancelOf
<1>10. ASSUME NEW r \in Requests PROVE Bookkept(r) /\ Counted(r) /\ Numbered(r)
  <2>1. \A d \in Conversations, role \in {"user", "assistant"} : Of(r, d, role) = {}
    <3>1. \A d \in Conversations : log[d] = old
      BY <1>2
    <3>2. r # Nobody
      BY AgentAssumption
    <3> QED BY <1>1, <3>1, <3>2 DEF Of
  <2>2. req[r].place = "idle" /\ req[r].conv = Nobody /\ r \notin hurt
    BY <1>2, <1>3, <1>5
  <2>3. \A who \in Saver : saves[<<r, who>>].at = "no"
    BY <1>4, <1>5
  <2> QED BY <2>1, <2>2, <2>3 DEF Bookkept, Counted, Numbered, Early, Saver
<1> QED BY <1>7, <1>8, <1>9, <1>10 DEF AgentInv

LEMMA AgentHolds == MCSpec => []AgentInv
<1>1. MCInit => AgentInv
  <2>1. \A n \in (IF half = "request" THEN OldLengths ELSE {0}) : n \in Nat
    BY OldAssumption
  <2> QED BY <2>1, InitAgent DEF MCInit
<1>2. ASSUME AgentInv, [MCNext]_allVars PROVE AgentInv'
  <2>1. CASE AgentNext
    BY <1>2, <2>1, NextAgent
  <2>2. CASE UNCHANGED agentVars
    BY <1>2, <2>2, AgentStands
  <2> QED BY <1>2, <2>1, <2>2 DEF MCNext, allVars
<1> QED BY <1>1, <1>2, PTL DEF MCSpec

(***************************************************************************)
(* However many requests, instances and cancels there are: the registry    *)
(* names no request that is over, and a request that is alone on its       *)
(* conversation can be cancelled as long as the model works for it.        *)
(***************************************************************************)
THEOREM RegistryIsRight == MCSpec => []RegistryNamesTheRunning
<1>1. ASSUME AgentInv PROVE RegistryNamesTheRunning
  <2>1. ASSUME NEW i \in Instances, NEW c \in Conversations, registry[i][c] # Nobody
        PROVE  ~Settled(registry[i][c])
    BY <1>1, <2>1 DEF AgentInv, Registered, Working, Settled
  <2>2. ASSUME NEW r \in Requests, At(r, "model"), ~req[r].aborted, r \notin crowded
        PROVE  registry[req[r].home][req[r].conv] = r
    BY <1>1, <2>2 DEF AgentInv, Registered, Working, At
  <2> QED BY <2>1, <2>2 DEF RegistryNamesTheRunning
<1> QED BY <1>1, AgentHolds, PTL

(***************************************************************************)
(* However many requests share a conversation: one that met no failed      *)
(* operation leaves its question once and its answer once, or twice when    *)
(* its stream was closed by a write; and if it was alone, the answer has    *)
(* the later number.  The messages of a request are counted by the place it *)
(* is at, and the number it took for the last one is backed by a message on *)
(* the first page.                                                          *)
(***************************************************************************)
THEOREM RequestsAnswered == MCSpec => []EndedIsAnswered
<1>1. ASSUME AgentInv PROVE EndedIsAnswered
  <2>1. SUFFICES ASSUME NEW r \in Requests, At(r, "over"), ~Saving(r), r \notin hurt
                 PROVE  /\ Cardinality(OfRequest(r, "user")) = 1
                        /\ Cardinality(OfRequest(r, "assistant")) \in
                             1 .. (IF saves[<<r, "close">>].at = "over" THEN 2 ELSE 1)
                        /\ r \notin crowded =>
                             \A q \in OfRequest(r, "user"), p \in OfRequest(r, "assistant") :
                                log[req[r].conv][q].number < log[req[r].conv][p].number
    BY DEF EndedIsAnswered
  <2>2. Bookkept(r) /\ Counted(r) /\ Numbered(r)
    BY <1>1 DEF AgentInv
  <2>3. PICK d \in Conversations : d = req[r].conv /\ d # Nobody
    BY <1>1, <2>1, <2>2, FieldsOf DEF Bookkept, At
  <2>4. \A role : OfRequest(r, role) = Of(r, d, role)
    BY <2>3 DEF OfRequest, Of
  <2>5. /\ Cardinality(Of(r, d, "user")) = 1
        /\ Cardinality(Of(r, d, "assistant")) = IF saves[<<r, "close">>].at = "over" THEN 2 ELSE 1
    BY <2>1, <2>2, <2>3 DEF Counted, Asked, Answered, At
  <2>6. ASSUME r \notin crowded, NEW q \in Of(r, d, "user"), NEW p \in Of(r, d, "assistant")
        PROVE  log[d][q].number < log[d][p].number
    <3>1. log[d][q].number = req[r].last + 1 /\ log[d][p].number >= req[r].last + 2
      BY <2>2, <2>3, <2>6 DEF Numbered
    <3>2. log[d][p].number \in Nat
      <4>1. AgentTypeOK /\ p \in 1 .. Len(log[d])
        BY <1>1 DEF AgentInv, Of
      <4> QED BY <4>1, OfIs
    <3> QED BY <1>1, <3>1, <3>2, FieldsOf
  <2> QED BY <2>3, <2>4, <2>5, <2>6
<1> QED BY <1>1, AgentHolds, PTL

(***************************************************************************)
(* The variables of both halves keep their types.                          *)
(***************************************************************************)
THEOREM AgentTypesCorrect == MCSpec => []TypesOK
<1>1. AgentInv /\ LoopInv => TypesOK
  BY DEF AgentInv, LoopInv, TypesOK
<1> QED BY <1>1, AgentHolds, LoopHolds, PTL
=============================================================================
