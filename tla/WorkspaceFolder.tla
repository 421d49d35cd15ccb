--------------------------- MODULE WorkspaceFolder ---------------------------
(***************************************************************************)
(* A folder of the owner's as the workspace broker sees it                   *)
(* (moe-workspace-broker) and the tools Codex has in it                       *)
(* (codex_app_server.rs).  A folder has a root, which may be gone, and an      *)
(* entry for every path; what a file says is who wrote it.  Sizes, names that  *)
(* are no valid path of the platform and the text of the answers are left out.*)
(***************************************************************************)
EXTENDS Naturals, Sequences

CONSTANT Paths    \* the paths that may be in a folder, as sequences of names

Up == ".."
Outside == <<Up, "file">>

\* A "part" is what a write that did not come to its end left; "shared" is a
\* file that has a second hard link.
FileEntries == {"owner_text", "codex_text", "image", "part", "shared"}
Entries == FileEntries \cup {"absent", "directory", "link"}

\* workspace_relative_path
ValidPath(p) == p # <<>> /\ \A i \in DOMAIN p : p[i] # Up

Parent(p) == SubSeq(p, 1, Len(p) - 1)
Entry(folder, p) == IF p = <<>> THEN "directory" ELSE folder.entry[p]

\* walk_existing: every name on the way is a directory, none is a link.
HasWay(folder, p) == \A i \in 1..(Len(p) - 1) : Entry(folder, SubSeq(p, 1, i)) = "directory"
Reaches(folder, p) == folder.root = "here" /\ HasWay(folder, p)

ExistingFile(folder, p) ==
  ValidPath(p) /\ Reaches(folder, p) /\ Entry(folder, p) \in FileEntries

\* The root itself may be listed.
ListingDirectory(folder, p) ==
  /\ p = <<>> \/ ValidPath(p)
  /\ Reaches(folder, p) /\ Entry(folder, p) = "directory"

NewFile(folder, p) ==
  /\ ValidPath(p) /\ ListingDirectory(folder, Parent(p))
  /\ Entry(folder, p) = "absent"

\* What is no text cannot be read by Codex, a file with two links by nobody.
CanRead(folder, p) ==
  ExistingFile(folder, p) /\ Entry(folder, p) \notin {"shared", "image"}

KindOf(entry) ==
  CASE entry \in FileEntries -> "file"
    [] entry = "link" -> "blocked_link"
    [] OTHER -> entry

Listing(folder, p) ==
  LET there == {q \in Paths : Parent(q) = p /\ Entry(folder, q) # "absent"}
  IN [q \in there |-> KindOf(Entry(folder, q))]

-----------------------------------------------------------------------------
(* Writing                                                                  *)

Left(folder, p, entry) == [folder EXCEPT !.entry[p] = entry]

\* create_file, create_binary_file: the file is new, and is written in place.
\* A write that fails removes it, if it can.
Created(folder, p, content) == Left(folder, p, content)
CreationsFailed(folder, p) == {folder, Left(folder, p, "part")}

\* replace_file looks at the file, writes a temporary one beside it and renames
\* that over whatever has the name by then, unless it is a directory.  It renames in
\* the root it has open, which may have been moved away.
CanReplace(folder, p) == ExistingFile(folder, p) /\ Entry(folder, p) # "shared"
WithTemporary(folder) == [folder EXCEPT !.temporary = TRUE]
WithoutTemporary(folder) == [folder EXCEPT !.temporary = FALSE]
CanRename(folder, p) == HasWay(folder, p) /\ Entry(folder, p) # "directory"
Renamed(folder, p) == WithoutTemporary(Left(folder, p, "codex_text"))

\* Fault: the file itself is opened and cut to nothing before it is written.
TruncatedFirst(folder, p) == Left(folder, p, "part")

\* The file while its replacement is being written.
Replacing(folder, p) == WithTemporary(folder)

-----------------------------------------------------------------------------
(* The tools of a turn                                                      *)

\* workspace_dynamic_tools, and what WorkspaceToolContext::call lets through
Tools(access) ==
  CASE access = "none" -> {}
    [] access = "read" -> {"list_directory", "read_file"}
    [] access = "write" -> {"list_directory", "read_file", "create_file", "replace_file"}

\* What Codex is answered when it lists or reads.
Answer(folder, access, tool, p) ==
  CASE tool \notin Tools(access) -> "denied"
    [] tool \in Tools(access) /\ tool = "read_file" /\ CanRead(folder, p) -> Entry(folder, p)
    [] tool \in Tools(access) /\ tool = "list_directory" /\ ListingDirectory(folder, p) ->
         Listing(folder, p)
    [] OTHER -> "refused"

\* workspace_identity_key, safe_workspace_root: a turn gets a folder that is there.
Available(folder) == folder.root = "here"
=============================================================================
