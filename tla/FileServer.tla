----------------------------- MODULE FileServer -----------------------------
(***************************************************************************)
(* The static file server (files.rs): a request path is resolved below the *)
(* base path, by the rules of canonicalize(), and the file is read.        *)
(*                                                                         *)
(* A path is the sequence of its components; tree holds the entries that   *)
(* exist.  Files may be removed at any time, also between the two calls.   *)
(***************************************************************************)
EXTENDS Naturals, Sequences, SequencesExt

CONSTANTS
    Gets,          \* requests
    Uris,          \* request paths, without their leading slashes
    Tree,          \* the entries at first: [type, target] of absolute paths
    Cwd,           \* working directory
    IndexFile,     \* index.html
    Up             \* the component ".."

ASSUME TreeAssumption ==
    /\ Uris \subseteq Seq(STRING) /\ Cwd \in Seq(STRING)
    /\ IndexFile \in STRING /\ IndexFile # Up
    /\ <<>> \in DOMAIN Tree /\ Tree[<<>>].type = "dir"
    /\ \A p \in DOMAIN Tree :
          /\ p \in Seq(STRING)
          /\ Tree[p].type \in {"dir", "file", "link"}
          /\ p # <<>> => Front(p) \in DOMAIN Tree /\ Tree[Front(p)].type = "dir"

VARIABLES
    tree,      \* the entries that exist
    get        \* of every request: [pc, base, uri, path, status]

fileVars == <<tree, get>>

NoBase == [given |-> FALSE, abs |-> FALSE, path |-> <<>>]
NotAsked == [pc |-> "new", base |-> NoBase, uri |-> <<>>, path |-> <<>>, status |-> 0]

FileInit == tree = Tree /\ get = [g \in Gets |-> NotAsked]

-----------------------------------------------------------------------------
(* Paths.  A set with at most one path is the result of a lookup.          *)

\* A link leads to its target.
Enter(p) ==
    CASE p \notin DOMAIN tree       -> {}
      [] p \in DOMAIN tree /\ tree[p].type = "link" -> {tree[p].target} \cap DOMAIN tree
      [] OTHER                      -> {p}

Walk(found, name) ==
    UNION {IF name = Up THEN {IF p = <<>> THEN p ELSE Front(p)} ELSE Enter(Append(p, name)) :
           p \in {q \in found : tree[q].type = "dir"}}

Canonicalize(path) ==
    LET reach[n \in 0..Len(path)] == IF n = 0 THEN {<<>>} ELSE Walk(reach[n - 1], path[n])
    IN  reach[Len(path)]

\* Where the system looks for a path below the base path.
Full(base, uri) == (IF base.abs THEN base.path ELSE Cwd \o base.path) \o uri

IsDir(path) == \E p \in Canonicalize(path) : tree[p].type = "dir"

\* Mutant: no look at where the path leads.
ResolvePath_Anywhere(base, uri) ==
    LET full == Full(base, uri)
    IN  Canonicalize(IF IsDir(full) THEN Append(full, IndexFile) ELSE full)

\* Nothing begins with a relative base path, but everything with an empty one,
\* which stands for the working directory; two empty paths name nothing.
Comparable(base, uri) == base.abs \/ (base.path = <<>> /\ uri # <<>>)

\* resolve_path.  The canonical path is compared with the base path as written,
\* component by component.
ResolvePath(base, uri) ==
    LET full == Full(base, uri)
    IN  {p \in Canonicalize(IF IsDir(full) THEN Append(full, IndexFile) ELSE full) :
            Comparable(base, uri) /\ IsPrefix(base.path, p)}

-----------------------------------------------------------------------------

Answer(base, uri, path, status) ==
    [pc |-> "done", base |-> base, uri |-> uri, path |-> path, status |-> status]

\* request_filter up to serve_file; upstream_peer fails without a base path.
Ask(g, base, uri) ==
    /\ get[g].pc = "new"
    /\ LET found == IF base.given THEN ResolvePath(base, uri) ELSE {}
       IN  get' = [get EXCEPT ![g] =
              IF found # {}
              THEN [pc |-> "read", base |-> base, uri |-> uri,
                    path |-> CHOOSE p \in found : TRUE, status |-> 0]
              ELSE Answer(base, uri, <<>>, IF base.given THEN 404 ELSE 502)]
    /\ UNCHANGED tree

\* serve_file: what cannot be read is not found.
ServeFile(g) ==
    /\ get[g].pc = "read"
    /\ get' = [get EXCEPT ![g] =
          Answer(get[g].base, get[g].uri, get[g].path,
                 IF get[g].path \in DOMAIN tree /\ tree[get[g].path].type = "file"
                 THEN 200 ELSE 404)]
    /\ UNCHANGED tree

RemoveFile(p) ==
    /\ p \in DOMAIN tree
    /\ tree[p].type = "file"
    /\ tree' = [q \in DOMAIN tree \ {p} |-> tree[q]]
    /\ UNCHANGED get

-----------------------------------------------------------------------------
(* Property.                                                               *)

\* No link and no ".." on the way.
Plain(path) ==
    /\ \A i \in DOMAIN path : path[i] # Up
    /\ \A n \in 0..Len(path) :
          SubSeq(path, 1, n) \in DOMAIN Tree => Tree[SubSeq(path, 1, n)].type # "link"

\* The paths at which a plain request may find its file.
Named(full) == {full, Append(full, IndexFile)}

\* What is said below of the request r.
ServedAsAsked(r, full) ==
    /\ r.status = 200 =>
          /\ IsPrefix(r.base.path, r.path)
          /\ Plain(Append(full, IndexFile)) => r.path \in Named(full)
    /\ r.status = 404 /\ Comparable(r.base, r.uri) /\ Plain(full) =>
          \A p \in Named(full) \cap DOMAIN tree : tree[p].type # "file"

\* A file that is sent lies below the base path and is the one the request
\* names, if no link leads there; a request is told 404 only when there is no
\* such file, or it was removed meanwhile, as long as the base path is absolute
\* or empty and has no links: resolve_path and serve_file leave out nothing and
\* nothing else.
FilesAsAsked == \A g \in Gets : ServedAsAsked(get[g], Full(get[g].base, get[g].uri))
=============================================================================
