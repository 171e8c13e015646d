--------------------------- MODULE PathResolution ---------------------------
(***************************************************************************)
(* Names and paths of the virtual file system (Fs.cpp).  A path is what    *)
(* String::Split and strtok leave of its characters: whether it starts     *)
(* with a slash, and its components.  The nodes are the ones the drivers   *)
(* hand out; FindDir of a driver is the function "entry".                  *)
(***************************************************************************)
EXTENDS Integers, Sequences, SequencesExt

CONSTANTS
    Dirs, Files, Links,   \* the nodes, by FS_NODE_TYPE
    Names,
    Root,                 \* the node of "/", whose entries are the volumes
    Target,               \* what ReadLink of a symbolic link returns
    MaxSymlinks,          \* MAXIMUM_SYMLINK_AMOUNT
    MaxDepth,             \* nested calls of ResolvePath that the stack allows
    None

Nodes == Dirs \cup Files \cup Links
Path(absolute, comps) == [absolute |-> absolute, comps |-> comps]
-----------------------------------------------------------------------------
\* entry[d][n] is the node named n in d, up[d] the parent of d.
FindDir(t, d, c) ==
    CASE c = "." -> d
      [] c = ".." -> t.up[d]
      [] OTHER -> t.entry[d][c]

\* What the text of a path may be.
Texts == [absolute : BOOLEAN, comps : Seq(Names \cup {".", ".."})]

\* The path of a link is read from the directory it is in, and a link at its end is not
\* followed.  A link that goes through itself has no end: the stack has.
FollowLink(resolve, n, wd, depth) == IF depth = 0 THEN None ELSE resolve[Target[n], wd, FALSE, depth - 1]

\* Every component but the last; a link among them is followed once.
Walk(t, resolve, start, comps, depth) ==
    LET walk[d \in Dirs, i \in 1 .. Len(comps)] ==
          IF i = Len(comps) THEN d
          ELSE LET found == FindDir(t, d, comps[i])
                   n == IF found \in Links THEN FollowLink(resolve, found, d, depth) ELSE found
               IN  IF n \in Dirs THEN walk[n, i + 1] ELSE None
    IN  walk[start, 1]

FollowLast(resolve, node, d, depth) ==
    LET last[n \in Nodes \cup {None}, followed \in 0 .. MaxSymlinks + 1] ==
          IF n \notin Links THEN n
          ELSE IF followed > MaxSymlinks THEN None
          ELSE last[FollowLink(resolve, n, d, depth), followed + 1]
    IN  last[node, 0]

ResolvePath(t) ==
    LET resolve[path \in Texts, wd \in Dirs, follow \in BOOLEAN, depth \in 0 .. MaxDepth] ==
          LET d == Walk(t, resolve, IF path.absolute THEN Root ELSE wd, path.comps, depth)
          IN  IF path.comps = <<>> THEN IF path.absolute THEN Root ELSE None
              ELSE IF d = None THEN None
              ELSE LET n == FindDir(t, d, Last(path.comps))
                   IN  IF follow THEN FollowLast(resolve, n, d, depth) ELSE n
    IN  resolve

Resolve(t, path, wd) == ResolvePath(t)[path, wd, TRUE, MaxDepth]

\* The directory of a path with one component is the working directory; what is left of an
\* absolute path with one component is the empty string, which names nothing.
ResolveParent(t, path, wd) ==
    CASE Len(path.comps) > 1 -> Resolve(t, [path EXCEPT !.comps = Front(@)], wd)
      [] Len(path.comps) = 1 /\ ~path.absolute -> wd
      [] OTHER -> None

BaseName(path) == Last(path.comps)
-----------------------------------------------------------------------------
\* The loop over the tokens.  A ".." at the front is dropped and the token after it passed
\* over.
Canonical(path) ==
    LET cut[tokens \in Seq(Names \cup {".", ".."}), i \in Nat \ {0}] ==
          IF i > Len(tokens) THEN tokens
          ELSE CASE tokens[i] = "." -> cut[RemoveAt(tokens, i), i]
                 [] tokens[i] = ".." /\ i > 1 -> cut[RemoveAt(RemoveAt(tokens, i), i - 1), i - 1]
                 [] tokens[i] = ".." /\ i = 1 -> cut[Tail(tokens), 2]
                 [] OTHER -> cut[tokens, i + 1]
    IN  cut[path, 1]

CanonicalizePathFromRoot(path, wdPath) == Path(TRUE, Canonical(path.comps))
CanonicalizePath(path, wdPath) ==
    Path(TRUE, Canonical(IF path.absolute THEN path.comps ELSE wdPath \o path.comps))
=============================================================================
