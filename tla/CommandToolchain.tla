---------------------------- MODULE CommandToolchain ----------------------------
(***************************************************************************)
(* The tools the desktop finds on the machine when it starts                   *)
(* (command_toolchain_product.rs, command_helper_product.rs): the first safe       *)
(* Git and the first safe Node of the installation roots, the npm beside that      *)
(* Node, and the command helper beside the desktop.                            *)
(*                                                                         *)
(* A file is missing, safe or unsafe: a link, not a plain file, empty or too        *)
(* long, outside its root or with a second name.                                 *)
(***************************************************************************)
EXTENDS CommandPolicy
LOCAL INSTANCE SequencesExt

CONSTANTS InstallRoots,  \* what the installation roots hold, in the order of their paths
          Helper         \* the helper beside the desktop, "unbundled" without a hash

Files == {"missing", "safe", "unsafe"}
Roots == [git : Files, node : Files, npm : Files]

ASSUME ToolchainConstants ==
  /\ InstallRoots \in Seq(Roots)
  /\ Helper \in Files \cup {"unbundled"}

NotFound == [root |-> 0, rejected |-> FALSE]

\* The loop of locate_git and of locate_node: the first safe candidate ends it,
\* an unsafe one is passed over and remembered.
Located(roots, tool) ==
  LET Look(found, i) ==
        IF found.root # 0 THEN found
        ELSE CASE roots[i][tool] = "missing" -> found
               [] roots[i][tool] = "safe" -> [root |-> i, rejected |-> FALSE]
               [] roots[i][tool] = "unsafe" -> [found EXCEPT !.rejected = TRUE]
  IN FoldLeft(Look, NotFound, [i \in 1..Len(roots) |-> i])

\* An unsafe npm counts as none.
NpmBeside(roots, node) == node.root # 0 /\ roots[node.root].npm = "safe"

\* An unsafe Git makes Node unavailable as well, and the other way around.
Toolchain(roots) ==
  LET git == Located(roots, "git")
      node == Located(roots, "node")
  IN IF git.rejected \/ node.rejected THEN {}
     ELSE {tool \in {"Git", "Node", "Npm"} :
             CASE tool = "Git" -> git.root # 0
               [] tool = "Node" -> node.root # 0
               [] tool = "Npm" -> NpmBeside(roots, node)}

HelperReady == Helper = "safe"

\* The tools a command is run with; there is none for cargo.
ToolsOf(command) ==
  CASE Tool(command) \in {"Git", "Node"} -> {Tool(command)}
    [] Tool(command) = "Npm" -> {"Node", "Npm"}
    [] OTHER -> {"Cargo"}

ToolsFound(command) == HelperReady /\ ToolsOf(command) \subseteq Toolchain(InstallRoots)

-----------------------------------------------------------------------------
(* The loops find what a reader of the code expects: the least root with a      *)
(* safe tool, and a refusal only where there is an unsafe one and no safe one.   *)
\* Bound: three installation roots, as product_install_roots has.
ASSUME LocatedIsTheFirstSafe ==
  \A roots \in UNION {[1..n -> Roots] : n \in 0..3}, tool \in {"git", "node"} :
    LET safe == {i \in DOMAIN roots : roots[i][tool] = "safe"}
        unsafe == {i \in DOMAIN roots : roots[i][tool] = "unsafe"}
    IN Located(roots, tool) =
         [root |-> IF safe = {} THEN 0 ELSE CHOOSE i \in safe : \A j \in safe : i <= j,
          rejected |-> safe = {} /\ unsafe # {}]
=================================================================================
