------------------------------- MODULE RelayLink -------------------------------
(***************************************************************************)
(* One attempt to link the desktop to the Relay and what the Relay sends      *)
(* over the link, as classes of what the peer does: the TLS transport          *)
(* (moe-relay-transport), its frames (moe-protocol) and the error codes        *)
(* (moe-relay-client).                                                       *)
(***************************************************************************)

\* What load() finds in the credential store of the operating system.
Credentials == {"unreadable", "missing", "unusable", "usable"}

\* How a Relay answers the headers and the hello frame of a device.
Handshakes == [reached : BOOLEAN, status : {"ok", "forbidden", "other"},
               ndjson : BOOLEAN, acknowledged : BOOLEAN]

\* RelayClientService::connect with the transport's connect(): "linked", or the
\* class of the error code.
LinkResult(credential, peer) ==
  CASE credential \in {"unreadable", "missing"} -> "final"
    [] credential = "unusable" -> "retryable"
    [] ~peer.reached -> "retryable"
    [] peer.status = "forbidden" -> "final"
    [] peer.status = "other" \/ ~peer.ndjson -> "retryable"
    [] ~peer.acknowledged -> "retryable"
    [] OTHER -> "linked"

LinkResults == {LinkResult(c, p) : c \in Credentials, p \in Handshakes}

\* How reading a frame fails: an I/O error or timeout, a chunk or a line over
\* the limit, a finished response, a frame that is no request.  A link that was
\* cancelled reports that instead, which is final.
FrameErrors == {"broken", "tooLong", "finished", "noRequest"}
FrameCode(error, cancelled) ==
  IF cancelled /\ error # "noRequest" THEN "final" ELSE "retryable"

\* A request the desktop can be sent.
Requests(ids) == [id : ids, method : {"moe_read_room", "other"}, valid : BOOLEAN]

\* route_request: only a valid moe_read_room reads the Room.
ReadsRoom(request) == request.method = "moe_read_room" /\ request.valid
=============================================================================
