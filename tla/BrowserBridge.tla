---------------------------- MODULE BrowserBridge ----------------------------
(***************************************************************************)
(* The bridge to the browser extension (browser_bridge.rs): questions for    *)
(* Gemini search wait in an outbox in memory, the extension fetches the      *)
(* first one and posts its answer, which is appended to the Room before the   *)
(* question counts as completed.  The HTTP requests, the shortening of long   *)
(* answers and the extension's presence are left out; the token of a question *)
(* is that of the outbox it was put in, so none survives a restart.           *)
(***************************************************************************)
EXTENDS RoomCatalog, TLC

EmptyOutbox == [order |-> <<>>, completed |-> <<>>]

Pending(outbox) == {outbox.order[i].id : i \in DOMAIN outbox.order}
Completed(outbox) == DOMAIN outbox.completed

SearchReplyId(id) == <<"browser", id>>

\* queue(): a question that is waiting or answered is not put there again.
Enqueue(outbox, source, told) ==
  IF source.id \in Pending(outbox) \cup Completed(outbox) THEN outbox
  ELSE [outbox EXCEPT !.order = Append(@, [id |-> source.id, room |-> source.room, told |-> told])]

\* next_dispatch(), for an outbox that is not empty
NextQuestion(outbox) == Head(outbox.order)

SearchReply(question, participant, human, text) ==
  [id |-> SearchReplyId(question.id), room |-> question.room, author |-> participant,
   to |-> {human}, text |-> text, proxy |-> FALSE, images |-> {}]

\* complete_reply() after the answer was saved: the question leaves the outbox.
Complete(outbox, question, reply) ==
  [order |-> SelectSeq(outbox.order, LAMBDA q : q.id # question.id),
   completed |-> (question.id :> reply) @@ outbox.completed]
=============================================================================
