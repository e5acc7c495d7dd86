--------------------------- MODULE AssistantChat ---------------------------
(***************************************************************************)
(* Chats of ai-service's assistant (services/ai-service/app).  A chat      *)
(* stores the question, asks memory-service for context, asks a language   *)
(* model, logs how that went and stores the answer, each in a commit of    *)
(* its own, with two other services to wait for in between.  Sessions can  *)
(* be deleted all the while; SQLite enforces no foreign key and gives the  *)
(* highest id again once it is free.                                       *)
(*                                                                         *)
(* Contexts and tool calls are rows nothing here reads: left out, the      *)
(* commits that store them kept.  Events are EventBus's subject.           *)
(***************************************************************************)
EXTENDS Integers, FiniteSets, FiniteSetsExt

CONSTANTS
  Requests,       \* concurrent HTTP calls
  MaxSession, MaxMessage,  \* bounds on ids
  MaxChat,        \* bound on the number of chats
  NULL

SessionIds == 1..MaxSession
MessageIds == 1..MaxMessage
Chats == 1..MaxChat
ResponseIds == 1..MaxChat  \* a chat has one response at most
Outcomes == {"success", "failure"}  \* "failure" for the statuses "timeout" and "error"

VARIABLES
  sessions,       \* ids of assistant_sessions
  messages,       \* MessageIds -> [session_id, role, chat], or NULL
  responses,      \* ResponseIds -> [session_id, message_id, chat], or NULL
  logs,           \* ai_request_logs: rows [chat, status]
  providers,      \* the number of ai_providers, all active and of one type
  talk,           \* what each call is doing
  begun,          \* the number of chats begun
  broken,         \* history: chats that stopped, or lost their session or a row
  torn            \* history: sessions that were deleted while a call still wrote to them

assistantVars == <<sessions, messages, responses, logs, providers, talk, begun, broken, torn>>
rows == <<sessions, messages, responses, logs, providers>>

Silent == [at |-> "idle", chat |-> 0, session |-> 0, message |-> 0, outcome |-> NULL, loaded |-> {},
           answers |-> {}]

Init ==
  /\ sessions = {} /\ responses = [n \in ResponseIds |-> NULL] /\ logs = {} /\ providers = 0
  /\ messages = [n \in MessageIds |-> NULL]
  /\ talk = [r \in Requests |-> Silent]
  /\ begun = 0 /\ broken = {} /\ torn = {}

-----------------------------------------------------------------------------
NextOf(ids) == 1 + Max(ids \cup {0})
Stored == {n \in MessageIds : messages[n] # NULL}
MessagesOf(s) == {n \in Stored : messages[n].session_id = s}
StoredResponses == {n \in ResponseIds : responses[n] # NULL}
ResponsesOf(s) == {n \in StoredResponses : responses[n].session_id = s}
Writing(s) == {r \in Requests : talk[r].at \notin {"idle", "delete"} /\ talk[r].session = s}
Open(r) == talk[r].session \in sessions

Speak(r, at) == talk' = [talk EXCEPT ![r].at = at]
\* The chat ends without an answer; broken ones say nothing more about their outcome.
BreakOff(r) == talk' = [talk EXCEPT ![r] = Silent] /\ broken' = broken \cup ({talk[r].chat} \ {0})

\* The next step needs the session's row, expired by the commit before: it is read
\* again, and that fails when it is gone.
IfOpen(r, at) == IF Open(r) THEN Speak(r, at) /\ UNCHANGED broken ELSE BreakOff(r)

Insert(r, role) ==
  LET n == NextOf(Stored)
  IN /\ n \in MessageIds
     /\ messages' = [messages EXCEPT ![n] = [session_id |-> talk[r].session, role |-> role, chat |-> talk[r].chat]]

-----------------------------------------------------------------------------
(* AssistantService.chat                                                   *)

Chat(r, s) ==
  LET new == [Silent EXCEPT !.at = "question", !.chat = begun + 1, !.session = s]
  IN /\ talk[r] = Silent /\ begun < MaxChat /\ begun' = begun + 1
     /\ talk' = [talk EXCEPT ![r] = new]

\* _resolve_session: the session named, or a new one.
ChatIn(r, s) == s \in sessions /\ Chat(r, s) /\ UNCHANGED <<rows, broken, torn>>
ChatNew(r) ==
  LET s == NextOf(sessions)
  IN /\ s \in SessionIds /\ sessions' = sessions \cup {s}
     /\ Chat(r, s)
     /\ UNCHANGED <<messages, responses, logs, providers, broken, torn>>

\* A message is stored without a chat about it.
PostMessage(r, s) ==
  /\ talk[r] = Silent /\ s \in sessions
  /\ talk' = [talk EXCEPT ![r] = [Silent EXCEPT !.at = "question", !.session = s]]
  /\ UNCHANGED <<rows, begun, broken, torn>>

\* create_message looks the session up, but it was just read and no commit expired it:
\* only the event, after the insert, needs it again.
AskQuestion(r) ==
  /\ talk[r].at = "question"
  /\ Insert(r, "user") /\ Speak(r, "asked")
  /\ UNCHANGED <<sessions, responses, logs, providers, begun, broken, torn>>

AnnounceQuestion(r) ==
  /\ talk[r].at = "asked" /\ IfOpen(r, IF talk[r].chat = 0 THEN "done" ELSE "context")
  /\ UNCHANGED <<rows, begun, torn>>

\* memory-service answers, the sources and the tool call are stored; or it does not.
Retrieve(r) ==
  /\ talk[r].at = "context"
  /\ IfOpen(r, "history") \/ BreakOff(r)
  /\ UNCHANGED <<rows, begun, torn>>

\* The history is read for the prompt, and the provider looked for.
ReadHistory(r) ==
  /\ talk[r].at = "history"
  /\ IfOpen(r, IF providers = 0 THEN "register" ELSE "model")
  /\ UNCHANGED <<rows, begun, torn>>

\* _get_or_create_env_provider: nothing stops a second call from doing so too.
Register(r) ==
  /\ talk[r].at = "register"
  /\ providers' = providers + 1
  /\ Speak(r, "model")
  /\ UNCHANGED <<sessions, messages, responses, logs, begun, broken, torn>>

\* The model answers, fails or does not answer in time.
Complete(r) ==
  /\ talk[r].at = "model"
  /\ \E outcome \in Outcomes : talk' = [talk EXCEPT ![r].at = "log", ![r].outcome = outcome]
  /\ UNCHANGED <<rows, begun, broken, torn>>

\* Mutant of _log_request: an error is logged and not raised.
log_and_go_on(r) ==
  /\ talk[r].at = "log"
  /\ logs' = logs \cup {[chat |-> talk[r].chat, status |-> talk[r].outcome]}
  /\ Speak(r, "answer")
  /\ UNCHANGED <<sessions, messages, responses, providers, begun, broken, torn>>

_log_request(r) ==
  /\ talk[r].at = "log"
  /\ logs' = logs \cup {[chat |-> talk[r].chat, status |-> talk[r].outcome]}
  /\ IF talk[r].outcome = "success" THEN Speak(r, "answer") ELSE talk' = [talk EXCEPT ![r] = Silent]
  /\ UNCHANGED <<sessions, messages, responses, providers, begun, broken, torn>>

\* The log's commit expired the session: it is read for its id, then the answer stored.
ReadSession(r) ==
  /\ talk[r].at = "answer" /\ IfOpen(r, "store")
  /\ UNCHANGED <<rows, begun, torn>>

StoreAnswer(r) ==
  /\ talk[r].at = "store"
  /\ Insert(r, "assistant")
  /\ talk' = [talk EXCEPT ![r].at = "answered", ![r].message = NextOf(Stored)]
  /\ UNCHANGED <<sessions, responses, logs, providers, begun, broken, torn>>

AnnounceAnswer(r) ==
  /\ talk[r].at = "answered" /\ IfOpen(r, "response")
  /\ UNCHANGED <<rows, begun, torn>>

\* The session was read for the event; it may be gone by now.
create_response(r) ==
  /\ talk[r].at = "response"
  /\ NextOf(StoredResponses) \in ResponseIds
  /\ responses' = [responses EXCEPT ![NextOf(StoredResponses)] =
       [session_id |-> talk[r].session, message_id |-> talk[r].message, chat |-> talk[r].chat]]
  /\ Speak(r, "done")
  /\ UNCHANGED <<sessions, messages, logs, providers, begun, broken, torn>>

\* The last event of a chat needs the session once more; then the answer is returned.
Return(r) ==
  /\ talk[r].at = "done"
  /\ IF Open(r) THEN talk' = [talk EXCEPT ![r] = Silent] /\ UNCHANGED broken ELSE BreakOff(r)
  /\ UNCHANGED <<rows, begun, torn>>

\* The process stops, a database call fails.
Fail(r) ==
  /\ talk[r] # Silent
  /\ BreakOff(r)
  /\ UNCHANGED <<rows, begun, torn>>

-----------------------------------------------------------------------------
(* Sessions                                                                *)

create_session ==
  LET s == NextOf(sessions)
  IN /\ s \in SessionIds /\ sessions' = sessions \cup {s}
     /\ UNCHANGED <<messages, responses, logs, providers, talk, begun, broken, torn>>

\* The rows that go with the session are those there when it is loaded.
DeleteLoad(r, s) ==
  /\ talk[r] = Silent /\ s \in sessions
  /\ talk' = [talk EXCEPT ![r] = [Silent EXCEPT !.at = "delete", !.session = s, !.loaded = MessagesOf(s),
                                    !.answers = ResponsesOf(s)]]
  /\ UNCHANGED <<rows, begun, broken, torn>>

\* The chats that write to the session now, or have written since it was loaded.
Torn(r) ==
  LET s == talk[r].session
  IN {talk[q].chat : q \in Writing(s)} \cup {messages[n].chat : n \in MessagesOf(s) \ talk[r].loaded}
       \cup {responses[n].chat : n \in ResponsesOf(s) \ talk[r].answers}

\* The chats of another session whose messages or responses have ids that were loaded:
\* the rows of these ids go, whatever they are by now.
Mistaken(r) ==
  LET s == talk[r].session
  IN {messages[n].chat : n \in (Stored \cap talk[r].loaded) \ MessagesOf(s)}
       \cup {responses[n].chat : n \in (StoredResponses \cap talk[r].answers) \ ResponsesOf(s)}

\* Mutant of DeleteCommit: the rows of the session stay.
delete_session_only(r) ==
  LET s == talk[r].session
  IN /\ talk[r].at = "delete"
     /\ sessions' = sessions \ {s}
     /\ torn' = IF Torn(r) = {} THEN torn ELSE torn \cup {s}
     /\ broken' = broken \cup (Torn(r) \ {0})
     /\ talk' = [talk EXCEPT ![r] = Silent]
     /\ UNCHANGED <<messages, responses, logs, providers, begun>>

DeleteCommit(r) ==
  LET s == talk[r].session
  IN /\ talk[r].at = "delete"
     /\ sessions' = sessions \ {s}
     /\ messages' = [n \in MessageIds |-> IF n \in talk[r].loaded THEN NULL ELSE messages[n]]
     /\ responses' = [n \in ResponseIds |-> IF n \in talk[r].answers THEN NULL ELSE responses[n]]
     /\ torn' = IF Torn(r) = {} THEN torn ELSE torn \cup {s}
     /\ broken' = broken \cup ((Torn(r) \cup Mistaken(r)) \ {0})
     /\ talk' = [talk EXCEPT ![r] = Silent]
     /\ UNCHANGED <<logs, providers, begun>>

Next ==
  \/ create_session
  \/ \E r \in Requests :
       \/ \E s \in SessionIds : ChatIn(r, s) \/ PostMessage(r, s) \/ DeleteLoad(r, s)
       \/ ChatNew(r) \/ AskQuestion(r) \/ AnnounceQuestion(r) \/ Retrieve(r) \/ ReadHistory(r)
       \/ Register(r) \/ Complete(r) \/ _log_request(r) \/ ReadSession(r) \/ StoreAnswer(r)
       \/ AnnounceAnswer(r) \/ create_response(r) \/ Return(r) \/ DeleteCommit(r) \/ Fail(r)

Spec == Init /\ [][Next]_assistantVars

-----------------------------------------------------------------------------
(* Properties                                                              *)

Finished(c) == c <= begun /\ \A r \in Requests : talk[r].chat # c
Logged(c) == {row.status : row \in {l \in logs : l.chat = c}}

\* A chat that was not broken off has told its story once it is over: one log of how
\* the model did and, exactly when it answered, an answer after the question in the
\* same session, with its response; or all of that went with the session.
ChatsAreTold ==
  \A c \in Chats \ broken : Finished(c) =>
    LET said(role) == {n \in Stored : messages[n].chat = c /\ messages[n].role = role}
        told == {responses[n] : n \in {m \in StoredResponses : responses[m].chat = c}}
    IN /\ Cardinality(Logged(c)) = 1
       /\ said("assistant") # {} => Logged(c) = {"success"}
       /\ Logged(c) = {"success"} /\ said("user") # {} =>
            \E q \in said("user"), a \in said("assistant") :
              /\ q < a /\ messages[q].session_id = messages[a].session_id
              /\ told = {[session_id |-> messages[a].session_id, message_id |-> a, chat |-> c]}

\* What is stored of a session went with it when it was deleted, so that a later one
\* of the same id does not show it, unless a call wrote to it at the time.
NothingOutlivesItsSession ==
  \A s \in SessionIds \ (sessions \cup torn) :
    MessagesOf(s) = {} /\ ResponsesOf(s) = {}
=============================================================================
