----------------------------- MODULE RoomContext -----------------------------
(***************************************************************************)
(* What a turn tells the AI of a Room (ai_dispatch.rs, ADR 0020): either it  *)
(* resumes the native session the store of continuations names and tells     *)
(* only the messages by others since the last one that was synchronized, or  *)
(* it starts a new session and tells the last messages before its source.    *)
(* The wording of prompts and the shortening of long messages are left out.   *)
(***************************************************************************)
EXTENDS RoomCatalog

CONSTANT MaxContext    \* MAXIMUM_CONTEXT_MESSAGES

ASSUME RoomContextConstants == MaxContext \in Nat \ {0}

\* What the environment of a turn depends on: the profile's access mode,
\* instructions and model, and the folder only when the profile opens it.
ChatProfile == "chat"
Profiles == {ChatProfile, "reader", "writer"}
NoFolder == "no_folder"

\* AiAccessMode: what the profile lets Codex do in the Room's folder.
AccessOf(profile) ==
  CASE profile = "reader" -> "read"
    [] profile = "writer" -> "write"
    [] OTHER -> "none"

EnvironmentOf(profile, folder) ==
  <<profile, IF profile = ChatProfile THEN NoFolder ELSE folder>>

\* Where the messages by others are between the cursor and the source.
Since(room, cursor, source, participant) ==
  {i \in (IndexIn(room, cursor) + 1)..(IndexIn(room, source) - 1) :
     room.log[i].author # participant}

\* continuation is <<>> or <<the stored continuation>>.
Resumes(room, source, participant, continuation, environment) ==
  \E i \in DOMAIN continuation :
    LET c == continuation[i] IN
      /\ c.environment = environment
      /\ IndexIn(room, c.cursor) \in 1..(IndexIn(room, source) - 1)
      /\ Cardinality(Since(room, c.cursor, source, participant)) <= MaxContext

IdsAt(room, positions) == {room.log[i].id : i \in positions}

\* room_context_plan: the session to resume (0 for a new one), the messages
\* told and the older ones a new session is told were left out.
Plan(room, source, participant, continuation, environment) ==
  IF Resumes(room, source, participant, continuation, environment)
  THEN [session |-> continuation[1].session,
        told |-> IdsAt(room, Since(room, continuation[1].cursor, source, participant)),
        omitted |-> {}]
  ELSE LET before == IndexIn(room, source) - 1
           start == IF before > MaxContext THEN before - MaxContext ELSE 0
       IN [session |-> 0,
           told |-> IdsAt(room, (start + 1)..before),
           omitted |-> IdsAt(room, 1..start)]

\* The prompt of each of the four native providers: what is told of the Room,
\* how much was left out, and the message to answer.
Prompt(plan, source) ==
  [messages |-> plan.told, omitted |-> plan.omitted, current |-> source]

\* What the prompt makes known; the omitted messages by their number.
MakesKnown(prompt) == prompt.messages \cup prompt.omitted \cup {prompt.current}

\* thread_open_request: a thread is resumed or started, with the tools of the turn.
OpensThread(plan, tools) ==
  [method |-> IF plan.session = 0 THEN "thread/start" ELSE "thread/resume",
   thread |-> plan.session, tools |-> tools]

\* gemini_search_prompt: the question for the browser comes after the last few
\* messages before it (eight in the code; the bound is MaxContext here too).
SearchContext(room, source) ==
  LET before == IndexIn(room, source) - 1
      start == IF before > MaxContext THEN before - MaxContext ELSE 0
  IN IdsAt(room, (start + 1)..before)

\* What is stored after the reply was saved.
Continuation(session, source, environment) ==
  [session |-> session, cursor |-> source, environment |-> environment]
=============================================================================
