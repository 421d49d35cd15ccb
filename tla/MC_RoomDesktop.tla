---------------------------- MODULE MC_RoomDesktop ----------------------------
(* The desktop of a new installation and of an older version, each run with    *)
(* the commands of one scenario.                                              *)
EXTENDS RoomDesktop

\* A Room the owner wrote to before the owner's ID changed.
OldOwner == "previous_owner"

OldSnapshot ==
  [people |-> (OldOwner :> "human") @@ (Codex :> "ai"),
   rooms |-> BundledRoom :>
     [name |-> "bundled", members |-> {OldOwner, Codex},
      log |-> <<Message(<<"old", 1>>, BundledRoom, OldOwner, {Codex}, "text", FALSE, {})>>]]

Missing == [primary |-> NoFile, backup |-> NoFile]

NewInstallation == [s \in Stores |-> Missing]

OlderVersion ==
  [NewInstallation EXCEPT
     !["rooms"].primary = OldSnapshot,
     !["profiles"].primary = (OldOwner :> "reader") @@ (Codex :> "writer"),
     !["workspaces"].primary = BundledRoom :> (CHOOSE f \in Folders : TRUE)]

MCPaths == {<<"notes">>, <<"drafts">>, <<"drafts", "plan">>, <<"picture">>}

\* A text, an empty directory and room for a plan and a picture.
MCOwnerFolders ==
  {[root |-> "here", temporary |-> FALSE,
    entry |-> [p \in MCPaths |-> CASE p = <<"notes">> -> "owner_text"
                                   [] p = <<"drafts">> -> "directory"
                                   [] OTHER -> "absent"]]}

MCInstallations == {NewInstallation, OlderVersion}

Bounded(does, writes, orders, failures) ==
  [does |-> does, posts |-> writes, commands |-> orders, faults |-> failures]

MCScenarios ==
  {Bounded({"write", "rooms", "backup", "damage"}, 1, 2, 1),
   Bounded({"write", "rooms", "backup"}, 1, 1, 2),
   Bounded({"write", "mcp", "bridge", "backup"}, 1, 0, 1),
   Bounded({"write", "turn", "backup"}, 3, 3, 0),
   Bounded({"write", "mcp", "turn", "backup"}, 2, 3, 0),
   Bounded({"write", "turn", "backup"}, 2, 2, 1),
   Bounded({"write", "turn", "damage"}, 2, 2, 1),
   Bounded({"write", "turn", "folders", "profiles"}, 1, 3, 1),
   Bounded({"write", "profiles", "damage"}, 1, 1, 2),
   Bounded({"profiles", "folders", "images"}, 0, 2, 2),
   Bounded({"write", "turn", "folders", "images"}, 1, 2, 2),
   Bounded({"write", "turn", "tools", "edits"}, 1, 4, 0),
   Bounded({"write", "turn", "tools", "edits"}, 1, 3, 1),
   Bounded({"rooms", "settings", "directory", "damage"}, 0, 3, 1),
   Bounded({"rooms", "settings", "directory"}, 0, 3, 2)}
=============================================================================
