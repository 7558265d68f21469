-------------------------------- MODULE Files --------------------------------
(***************************************************************************)
(* The part of node's fs and path that glob uses.  A file system is a      *)
(* function from real paths (sequences of names) to nodes: a directory, a  *)
(* directory that may not be read, a file, or a link to another path.      *)
(***************************************************************************)
EXTENDS Integers, Sequences, FiniteSets, SequencesExt, Functions

\* Names are strings. (So are the three, but the provers do not know it.)
Name == STRING \cup {"", ".", "**"}
Path == Seq(Name)

Dir       == [kind |-> "dir"]
Locked    == [kind |-> "locked"]
File      == [kind |-> "file"]
Link(to)  == [kind |-> "link", to |-> to]

\* The answers of fs: an error, a kind of node, or the entries of a directory.
Fails(er)   == [er |-> er, kind |-> "none", entries |-> <<>>]
Kind(kind)  == [er |-> "", kind |-> kind, entries |-> <<>>]
Entries(es) == [er |-> "", kind |-> "entries", entries |-> es]
Nothing     == Kind("none")

\* Where a path leads, through all links: not in the domain of t if nowhere.
real(t, p) ==
    LET to[path \in Path] ==
          LET q == Append(to[Front(path)], Last(path))
          IN  IF path = <<>> THEN path
              ELSE IF q \in DOMAIN t /\ t[q].kind = "link" THEN to[t[q].to] ELSE q
    IN  to[p]

\* The same, but a link in the last place is not followed.
place(t, p) == IF p = <<>> THEN p ELSE Append(real(t, Front(p)), Last(p))

kindOf(t, q) == IF q \notin DOMAIN t THEN Fails("ENOENT")
                ELSE Kind(IF t[q].kind = "locked" THEN "dir" ELSE t[q].kind)

lstat(t, p) == kindOf(t, place(t, p))
stat(t, p)  == kindOf(t, real(t, p))

children(t, q) == {Last(c) : c \in {c \in DOMAIN t : c # <<>> /\ Front(c) = q}}
readdir(t, p) ==
    LET q == real(t, p)
    IN  IF q \notin DOMAIN t THEN Fails("ENOENT")
        ELSE IF t[q].kind = "locked" THEN Fails("EACCES")
        ELSE IF t[q].kind = "file" THEN Fails("ENOTDIR")
        ELSE Entries(SetToSeq(children(t, q)))

answer(t, call, p) == CASE call = "lstat"   -> lstat(t, p)
                        [] call = "stat"    -> stat(t, p)
                        [] call = "readdir" -> readdir(t, p)

-----------------------------------------------------------------------------
(***************************************************************************)
(* path.resolve                                                            *)
(***************************************************************************)
\* Absolute paths only: a ".." above the root is dropped.
normalizeArray(parts) ==
    LET step(name, acc) ==
            IF name = "." THEN acc
            ELSE IF name = ".." THEN [acc EXCEPT !.up = @ + 1]
            ELSE IF acc.up > 0 THEN [acc EXCEPT !.up = @ - 1]
            ELSE [acc EXCEPT !.out = <<name>> \o @]
    IN  FoldRight(step, parts, [out |-> <<>>, up |-> 0]).out

\* What slashes side by side, and a last one, leave between them is no name.
filter(f) == FoldRight(LAMBDA name, acc : IF name = "" THEN acc ELSE <<name>> \o acc, f, <<>>)
resolve(cwd, f) == normalizeArray(cwd \o filter(f))
=============================================================================
