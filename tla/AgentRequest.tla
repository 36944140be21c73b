---------------------------- MODULE AgentRequest ----------------------------
(***************************************************************************)
(* One question to the AI agent: AiAgentService.processRequestStream() with *)
(* the conversation it writes (ConversationService), the summary that       *)
(* replaces old messages (ConversationSummaryService) and the registry of   *)
(* running streams that cancel() looks in (StreamManagementService).        *)
(*                                                                          *)
(* Requests of one conversation are not kept apart: each reads the last     *)
(* number, stores its question, and stores its answer when the model is     *)
(* done.  The registry of an instance has one entry per conversation.       *)
(* The model provider is the environment: it streams, answers or fails.     *)
(***************************************************************************)
EXTENDS Naturals, Sequences, FiniteSetsExt, Subsequence

CONSTANTS Instances, Conversations, Requests, Cancels, Nobody,
          PageLimit,     \* rows find() returns when asked for no limit: 10
          MaxMessages,   \* maxConversationMessages of the configuration
          MaxTrouble     \* bound on database operations that fail and on writes to
                         \* the response that return false, together

ASSUME AgentAssumption ==
    /\ Nobody \notin Requests \cup Conversations \cup Instances
    /\ {PageLimit, MaxMessages, MaxTrouble} \subseteq Nat

VARIABLES log,       \* the messages of each conversation, as inserted
          era,       \* summaries made of each conversation (lastSummaryAt)
          registry,  \* activeStreams of each instance
          req,       \* where each request is, and its local variables
          saves,     \* the two calls of savePartialMessage() a request may make
          cancel,    \* calls of cancel()
          mail,      \* cancel messages not yet delivered to an instance
          failures, blocked,
          hurt,      \* history: requests that met a failed operation
          crowded    \* history: requests that were not alone on their conversation

agentVars == <<log, era, registry, req, saves, cancel, mail, failures,
               blocked, hurt, crowded>>

Saver == {"catch", "close"}   \* who calls savePartialMessage()
Message == [role : {"user", "assistant"}, number : Nat, of : Requests \cup {Nobody},
            era : Nat, error : BOOLEAN]   \* error: the content begins with "Error:"
Places == {"idle", "configure", "number", "question", "window", "refused", "summary",
           "delete", "recreate", "again", "model", "partial", "error", "answer", "last",
           "declined", "over"}

AgentTypeOK ==
    /\ log \in [Conversations -> Seq(Message)]
    /\ era \in [Conversations -> Nat]
    /\ registry \in [Instances -> [Conversations -> Requests \cup {Nobody}]]
    /\ req \in [Requests -> [place : Places, home : Instances \cup {Nobody},
                             conv : Conversations \cup {Nobody},
                             since : Nat, last : Nat, aborted : BOOLEAN,
                             partial : BOOLEAN, asked : Requests \cup {Nobody}]]
    /\ saves \in [Requests \X Saver -> [at : {"no", "read", "store", "over"},
                                        number : Nat]]
    /\ cancel \in [Cancels -> [at : {"free", "publish", "over"},
                               on : Instances \cup {Nobody},
                               conv : Conversations \cup {Nobody},
                               of : Requests \cup {Nobody}]]
    /\ mail \subseteq Instances \X Conversations
    /\ {failures, blocked} \subseteq 0 .. MaxTrouble
    /\ hurt \subseteq Requests
    /\ crowded \subseteq Requests

AgentInitWith(old) ==
    /\ log = [c \in Conversations |-> old]
    /\ era = [c \in Conversations |-> 0]
    /\ registry = [i \in Instances |-> [c \in Conversations |-> Nobody]]
    /\ req = [r \in Requests |-> [place |-> "idle", home |-> Nobody, conv |-> Nobody,
                                  since |-> 0, last |-> 0, aborted |-> FALSE, partial |-> FALSE,
                                  asked |-> Nobody]]
    /\ saves = [w \in Requests \X Saver |-> [at |-> "no", number |-> 0]]
    /\ cancel = [k \in Cancels |-> [at |-> "free", on |-> Nobody, conv |-> Nobody,
                                    of |-> Nobody]]
    /\ mail = {}
    /\ failures = 0 /\ blocked = 0 /\ hurt = {} /\ crowded = {}

---------------------------------------------------------------------------
(* What the conversation service reads.                                    *)

\* getLastSequence(): the greatest number among the rows one find() returns, and
\* a find() without a limit returns the first page in the order of the ids.
LastNumber(c) ==
    LET page == {n \in 1 .. Len(log[c]) : n <= PageLimit}
    IN  Max({0} \cup {log[c][n].number : n \in page})

\* getMessages() with a limit, newest first, and only those made after "since".
Page(c, since) ==
    LET recent == {n \in 1 .. Len(log[c]) : since = 0 \/ log[c][n].era >= since}
        all == Subsequence(log[c], recent)
    IN  SubSeq(all, Max({1, Len(all) - MaxMessages + 1}), Len(all))

\* The question of the request is added when the page does not hold it.
Window(r) ==
    LET c == req[r].conv
        page == Page(c, req[r].since)
        mine == [role |-> "user", number |-> req[r].last + 1, of |-> r, era |-> era[c],
                 error |-> FALSE]
    IN  IF \E n \in 1 .. Len(page) :
              page[n].role = "user" /\ (page[n].of = r \/ page[n].number = mine.number)
        THEN page ELSE Append(page, mine)

\* buildLLMMessages(): the positions the model is shown.  Errors are left out, and
\* of questions that then follow each other only the first is shown.  (Answers of
\* the last four messages are kept; those with tool calls, kept at any distance,
\* are not told apart.)
Shown(w) ==
    LET answers == {n \in 1 .. Len(w) : w[n].role = "assistant" /\ ~w[n].error
                                          /\ n > Len(w) - 4}
    IN  answers \cup {n \in 1 .. Len(w) :
           /\ w[n].role = "user"
           /\ ~\E m \in 1 .. n - 1 : /\ w[m].role = "user"
                                      /\ answers \cap (m + 1 .. n - 1) = {}}

\* The request whose question the model is shown last.
AskedLast(w) ==
    LET questions == {n \in Shown(w) : w[n].role = "user"}
    IN  IF questions = {} THEN Nobody ELSE w[Max(questions)].of

OfRequest(r, role) ==
    {n \in 1 .. Len(log[req[r].conv]) :
       log[req[r].conv][n].of = r /\ log[req[r].conv][n].role = role}

At(r, place) == req[r].place = place
Goes(r, place) == req' = [req EXCEPT ![r].place = place]
Stored(r, role, number, error) ==
    log' = [log EXCEPT ![req[r].conv] =
              Append(@, [role |-> role, number |-> number, of |-> r,
                         era |-> era[req[r].conv], error |-> error])]

\* cleanup(): whatever entry the conversation has now is removed.
Unregistered(r) ==
    registry' = [registry EXCEPT ![req[r].home][req[r].conv] = Nobody]

(***************************************************************************)
(* sendEvent(): nothing after an abort; when the write returns false (the  *)
(* buffer of the response is full) or throws, onClose() aborts the request *)
(* and saves what there is at the side of the request, which goes on.      *)
(***************************************************************************)
Blocks(r, partial) ==
    /\ ~req[r].aborted
    /\ failures + blocked < MaxTrouble
    /\ blocked' = blocked + 1
    /\ IF partial
       THEN saves' = [saves EXCEPT ![<<r, "close">>].at = "read"] /\ UNCHANGED registry
       ELSE Unregistered(r) /\ UNCHANGED saves
Sent == UNCHANGED <<blocked, saves, registry>>

\* An "error" event, when there is nothing to save.
SendsError(r, next) ==
    \/ Goes(r, next) /\ UNCHANGED blocked
    \/ /\ ~req[r].aborted /\ failures + blocked < MaxTrouble
       /\ blocked' = blocked + 1
       /\ req' = [req EXCEPT ![r] = [@ EXCEPT !.place = next, !.aborted = TRUE]]

Saving(r) == \E who \in Saver : saves[<<r, who>>].at \in {"read", "store"}
Settled(r) == req[r].place \in {"declined", "over"} /\ ~Saving(r)
UnderWay(r, c) == ~At(r, "idle") /\ ~Settled(r) /\ req[r].conv = c
CancelOf(c) == \/ \E k \in Cancels : cancel[k].at = "publish" /\ cancel[k].conv = c
               \/ \E i \in Instances : <<i, c>> \in mail

---------------------------------------------------------------------------
(* A request, from its registration to its end.                            *)

\* getConversation() or createConversation(), then registerStream() at once.
Begin(r, i, c) ==
    /\ At(r, "idle")
    /\ req' = [req EXCEPT ![r] = [@ EXCEPT !.place = "configure", !.home = i, !.conv = c,
                                          !.since = era[c]]]
    /\ registry' = [registry EXCEPT ![i][c] = r]
    /\ LET others == {o \in Requests : UnderWay(o, c)}
       IN  crowded' = crowded \cup others \cup
                        (IF others # {} \/ CancelOf(c) THEN {r} ELSE {})
    /\ UNCHANGED <<log, era, saves, cancel, mail, failures, blocked, hurt>>

\* The configuration is there and enabled, or the request ends with an error
\* that is sent and not stored.
Configure(r, found) ==
    /\ At(r, "configure")
    /\ IF found THEN Goes(r, "number") /\ UNCHANGED <<registry, blocked>>
                ELSE SendsError(r, "declined") /\ Unregistered(r)
    /\ UNCHANGED <<log, era, saves, cancel, mail, failures, hurt, crowded>>

ReadNumber(r) ==
    /\ At(r, "number")
    /\ req' = [req EXCEPT ![r] = [@ EXCEPT !.place = "question",
                                          !.last = LastNumber(req[r].conv)]]
    /\ UNCHANGED <<log, era, registry, saves, cancel, mail, failures, blocked, hurt, crowded>>

StoreQuestion(r) ==
    /\ At(r, "question")
    /\ Stored(r, "user", req[r].last + 1, FALSE)
    /\ Goes(r, "window")
    /\ UNCHANGED <<era, registry, saves, cancel, mail, failures, blocked, hurt, crowded>>

ReadWindow(r) ==
    /\ At(r, "window")
    /\ \E w \in {Window(r)} :
         IF w[Len(w)].role # "user" THEN SendsError(r, "refused")
         ELSE /\ req' = [req EXCEPT ![r] =
                   [@ EXCEPT !.place = IF Len(w) >= MaxMessages THEN "summary" ELSE "model",
                             !.asked = AskedLast(w)]]
              /\ UNCHANGED blocked
    /\ UNCHANGED <<log, era, registry, saves, cancel, mail, failures, hurt, crowded>>

\* "Invalid conversation state": the error is stored as the answer, and the
\* conversation loses its entry.
Refuse(r) ==
    /\ At(r, "refused")
    /\ Stored(r, "assistant", req[r].last + 2, TRUE)
    /\ Goes(r, "over")
    /\ Unregistered(r)
    /\ UNCHANGED <<era, saves, cancel, mail, failures, blocked, hurt, crowded>>

\* createSummary(): the model is asked without the abort signal, the summary is
\* stored, and the question is deleted and stored again, to be newer than it.
Summarise(r) ==
    /\ At(r, "summary")
    /\ era' = [era EXCEPT ![req[r].conv] = @ + 1]
    /\ Goes(r, "delete")
    /\ UNCHANGED <<log, registry, saves, cancel, mail, failures, blocked, hurt, crowded>>

DeleteTrigger(r) ==
    /\ At(r, "delete")
    /\ LET c == req[r].conv
           kept == (1 .. Len(log[c])) \ OfRequest(r, "user")
       IN  log' = [log EXCEPT ![c] = Subsequence(@, kept)]
    /\ Goes(r, "recreate")
    /\ UNCHANGED <<era, registry, saves, cancel, mail, failures, blocked, hurt, crowded>>

RecreateTrigger(r) ==
    /\ At(r, "recreate")
    /\ Stored(r, "user", req[r].last + 1, FALSE)
    /\ Goes(r, "again")
    /\ UNCHANGED <<era, registry, saves, cancel, mail, failures, blocked, hurt, crowded>>

\* The messages are read again, from the summary on.
ReadAgain(r) ==
    /\ At(r, "again")
    /\ \E w \in {Page(req[r].conv, era[req[r].conv])} :
         req' = [req EXCEPT ![r] = [@ EXCEPT !.place = "model", !.asked = AskedLast(w)]]
    /\ UNCHANGED <<log, era, registry, saves, cancel, mail, failures, blocked, hurt, crowded>>

\* onEvent(): text or a call is kept and sent on.
StreamEvent(r) ==
    /\ At(r, "model")
    /\ \/ req' = [req EXCEPT ![r].partial = TRUE] /\ ~req[r].partial /\ Sent
       \/ /\ req' = [req EXCEPT ![r] = [@ EXCEPT !.partial = TRUE, !.aborted = TRUE]]
          /\ Blocks(r, TRUE)
    /\ UNCHANGED <<log, era, cancel, mail, failures, hurt, crowded>>

\* onEvent() of an event that keeps nothing ("tokens", "error").
StreamNotice(r) ==
    /\ At(r, "model")
    /\ req' = [req EXCEPT ![r].aborted = TRUE]
    /\ Blocks(r, req[r].partial)
    /\ UNCHANGED <<log, era, cancel, mail, failures, hurt, crowded>>

\* chatStream() returns: cleanup(), then the answer is stored on the side.
ModelReturns(r) ==
    /\ At(r, "model")
    /\ req' = [req EXCEPT ![r] = [@ EXCEPT !.place = "answer", !.asked = Nobody]]
    /\ Unregistered(r)
    /\ UNCHANGED <<log, era, saves, cancel, mail, failures, blocked, hurt, crowded>>

\* A slip: no cleanup() when there is nothing to save.
ModelThrowsUnclean(r) ==
    /\ At(r, "model")
    /\ IF req[r].partial THEN saves' = [saves EXCEPT ![<<r, "catch">>].at = "read"]
                         ELSE UNCHANGED saves
    /\ req' = [req EXCEPT ![r] = [@ EXCEPT !.place = IF req[r].partial THEN "partial" ELSE "error",
                                          !.asked = Nobody]]
    /\ UNCHANGED <<log, era, registry, cancel, mail, failures, blocked, hurt, crowded>>

\* chatStream() throws, as it does when it sees the abort signal.
ModelThrows(r) ==
    /\ At(r, "model")
    /\ IF req[r].partial
       THEN /\ saves' = [saves EXCEPT ![<<r, "catch">>].at = "read"]
            /\ UNCHANGED registry
       ELSE Unregistered(r) /\ UNCHANGED saves
    /\ req' = [req EXCEPT ![r] = [@ EXCEPT !.place = IF req[r].partial THEN "partial" ELSE "error",
                                          !.asked = Nobody]]
    /\ UNCHANGED <<log, era, cancel, mail, failures, blocked, hurt, crowded>>

\* The full answer, or "Error: ...", under the number after the question's.
StoreAnswer(r) ==
    /\ req[r].place \in {"answer", "error"}
    /\ Stored(r, "assistant", req[r].last + 2, At(r, "error"))
    /\ Goes(r, "last")
    /\ UNCHANGED <<era, registry, saves, cancel, mail, failures, blocked, hurt, crowded>>

\* The "done" event and the end of the response.
SendDone(r) ==
    /\ At(r, "last")
    /\ \/ Goes(r, "over") /\ Sent
       \/ /\ req' = [req EXCEPT ![r] = [@ EXCEPT !.place = "over", !.aborted = TRUE]]
          /\ Blocks(r, req[r].partial)
    /\ UNCHANGED <<log, era, cancel, mail, failures, hurt, crowded>>

---------------------------------------------------------------------------
(* savePartialMessage(), called by the catch of the model's error and by    *)
(* onClose(): the caller goes on when it is over, saved or not.             *)

\* A slip: the catch of the model's error goes on to store the error as well.
ResumeAnswering(r, who) ==
    /\ Unregistered(r)
    /\ IF who = "catch" THEN Goes(r, "error") ELSE UNCHANGED req

Resume(r, who) ==
    /\ Unregistered(r)
    /\ IF who = "catch" THEN Goes(r, "last") ELSE UNCHANGED req

SaveRead(r, who) ==
    /\ saves[<<r, who>>].at = "read"
    /\ saves' = [saves EXCEPT ![<<r, who>>] = [at |-> "store",
                                           number |-> LastNumber(req[r].conv)]]
    /\ UNCHANGED <<log, era, registry, req, cancel, mail, failures, blocked, hurt, crowded>>

SaveStore(r, who) ==
    /\ saves[<<r, who>>].at = "store"
    /\ Stored(r, "assistant", saves[<<r, who>>].number + 2, FALSE)
    /\ saves' = [saves EXCEPT ![<<r, who>>].at = "over"]
    /\ Resume(r, who)
    /\ UNCHANGED <<era, cancel, mail, failures, blocked, hurt, crowded>>

---------------------------------------------------------------------------
(* Database operations that fail.                                          *)

Fails(r) ==
    /\ failures + blocked < MaxTrouble
    /\ failures' = failures + 1
    /\ hurt' = hurt \cup {r}

\* getConversation() or createConversation() throws before the registration.
BeginFails(r) ==
    /\ At(r, "idle") /\ Fails(r)
    /\ Goes(r, "over")
    /\ UNCHANGED <<log, era, registry, saves, cancel, mail, blocked, crowded>>

\* The outer catch: until the last number is read there is nothing to answer,
\* from then on an "Error: ..." message is stored before cleanup().
RequestFails(r) ==
    /\ Fails(r)
    /\ \/ /\ req[r].place \in {"configure", "number"}
          /\ Goes(r, "over") /\ UNCHANGED <<saves, blocked>> /\ Unregistered(r)
       \/ /\ req[r].place \in {"question", "window", "summary", "delete", "recreate", "again"}
          /\ Unregistered(r)
          /\ Goes(r, "error") /\ UNCHANGED <<saves, blocked>>
    /\ UNCHANGED <<log, era, cancel, mail, crowded>>

\* Storing the answer, the error or the refusal fails: it is logged.
StoreFails(r) ==
    /\ req[r].place \in {"answer", "error", "refused"} /\ Fails(r)
    /\ Goes(r, "over")
    /\ IF req[r].place \in {"answer", "error"} THEN UNCHANGED registry ELSE Unregistered(r)
    /\ UNCHANGED <<log, era, saves, cancel, mail, blocked, crowded>>

\* A slip: the error leaves savePartialMessage(), and nobody goes on.
SaveFailsLoud(r, who) ==
    /\ saves[<<r, who>>].at \in {"read", "store"} /\ Fails(r)
    /\ saves' = [saves EXCEPT ![<<r, who>>].at = "over"]
    /\ UNCHANGED <<log, era, registry, req, cancel, mail, blocked, crowded>>

SaveFails(r, who) ==
    /\ saves[<<r, who>>].at \in {"read", "store"} /\ Fails(r)
    /\ saves' = [saves EXCEPT ![<<r, who>>].at = "over"]
    /\ Resume(r, who)
    /\ UNCHANGED <<log, era, cancel, mail, blocked, crowded>>

---------------------------------------------------------------------------
(* StreamManagementService.cancelStream() on the instance the call reaches, *)
(* and the message it publishes to the others.                              *)

\* No stream of the conversation here: {success: false}, and nothing is
\* published.
CancelCall(k, i, c) ==
    /\ cancel[k].at = "free"
    /\ cancel' = [cancel EXCEPT ![k] =
                    [at |-> IF registry[i][c] = Nobody THEN "over" ELSE "publish",
                     on |-> i, conv |-> c, of |-> registry[i][c]]]
    /\ crowded' = IF registry[i][c] = Nobody THEN crowded
                  ELSE crowded \cup {r \in Requests : UnderWay(r, c)}
    /\ UNCHANGED <<log, era, registry, req, saves, mail, failures, blocked, hurt>>

\* After the publish: the controller read before it is aborted, and the entry
\* the conversation has now is removed.
CancelHere(k) ==
    /\ cancel[k].at = "publish"
    /\ cancel' = [cancel EXCEPT ![k].at = "over"]
    /\ mail' = mail \cup {<<i, cancel[k].conv>> : i \in Instances \ {cancel[k].on}}
    /\ req' = [req EXCEPT ![cancel[k].of].aborted = TRUE]
    /\ registry' = [registry EXCEPT ![cancel[k].on][cancel[k].conv] = Nobody]
    /\ UNCHANGED <<log, era, saves, failures, blocked, hurt, crowded>>

\* handleCancelMessage(): abort() comes first, so onClose() returns at once.
CancelThere(i, c) ==
    /\ <<i, c>> \in mail
    /\ mail' = mail \ {<<i, c>>}
    /\ registry' = [registry EXCEPT ![i][c] = Nobody]
    /\ IF registry[i][c] = Nobody THEN UNCHANGED req
       ELSE req' = [req EXCEPT ![registry[i][c]].aborted = TRUE]
    /\ UNCHANGED <<log, era, saves, cancel, failures, blocked, hurt, crowded>>

---------------------------------------------------------------------------
RequestGoesOn(r) ==
    \/ \E found \in BOOLEAN : Configure(r, found)
    \/ ReadNumber(r) \/ StoreQuestion(r) \/ ReadWindow(r) \/ Refuse(r)
    \/ Summarise(r) \/ DeleteTrigger(r) \/ RecreateTrigger(r) \/ ReadAgain(r)
    \/ ModelReturns(r) \/ ModelThrows(r) \/ StoreAnswer(r) \/ SendDone(r)
    \/ \E who \in Saver : SaveRead(r, who) \/ SaveStore(r, who)

AgentNext ==
    \/ \E r \in Requests :
         \/ \E i \in Instances, c \in Conversations : Begin(r, i, c)
         \/ BeginFails(r)
         \/ RequestGoesOn(r)
         \/ StreamEvent(r) \/ StreamNotice(r)
         \/ RequestFails(r) \/ StoreFails(r)
         \/ \E who \in Saver : SaveFails(r, who)
    \/ \E k \in Cancels, i \in Instances, c \in Conversations : CancelCall(k, i, c)
    \/ \E k \in Cancels : CancelHere(k)
    \/ \E i \in Instances, c \in Conversations : CancelThere(i, c)

---------------------------------------------------------------------------
(* A request that met no failed operation leaves its question once, and one *)
(* answer; a second one only when its stream was closed by a write, since   *)
(* onClose() saves what the request saves too.  The answer has the later    *)
(* number, unless the summary of another request of the conversation may    *)
(* have deleted the question that the last number was taken from.           *)
EndedIsAnswered ==
    \A r \in Requests :
        At(r, "over") /\ ~Saving(r) /\ r \notin hurt =>
          /\ Cardinality(OfRequest(r, "user")) = 1
          /\ Cardinality(OfRequest(r, "assistant")) \in
               1 .. (IF saves[<<r, "close">>].at = "over" THEN 2 ELSE 1)
          /\ r \notin crowded => \A q \in OfRequest(r, "user"), p \in OfRequest(r, "assistant") :
               log[req[r].conv][q].number < log[req[r].conv][p].number

(* The registry names no request that is over, and a request that shared    *)
(* its conversation with no other request and no cancel can be cancelled as *)
(* long as the model works for it.                                          *)
RegistryNamesTheRunning ==
    /\ \A i \in Instances, c \in Conversations :
         registry[i][c] # Nobody => ~Settled(registry[i][c])
    /\ \A r \in Requests :
         At(r, "model") /\ ~req[r].aborted /\ r \notin crowded =>
           registry[req[r].home][req[r].conv] = r

(* Each request that begins is over some time, and so are the saves at its  *)
(* side: no place waits for something that may never come but the provider. *)
RequestsEnd == \A r \in Requests : ~At(r, "idle") ~> Settled(r)

(* The model is asked the question of the request: "Invalid conversation    *)
(* state: last message must be a user message" is what the code makes sure  *)
(* of, before the history is built that leaves a message out.               *)
AskedTheQuestion ==
    \A r \in Requests : At(r, "model") /\ r \notin crowded => req[r].asked = r

(* "Message sequence number within conversation (incremental)".             *)
NumbersIncrease ==
    \A c \in Conversations : \A m, n \in 1 .. Len(log[c]) :
        m < n /\ {log[c][m].of, log[c][n].of} \cap crowded = {}
          => log[c][m].number < log[c][n].number
=============================================================================
