------------------------------- MODULE MCSftp -------------------------------
(* Sessions for TLC, each about one part of the helper.                     *)
EXTENDS Sftp

Rel(comps) == [abs |-> FALSE, comps |-> comps, slash |-> FALSE]
Abs(comps) == [abs |-> TRUE, comps |-> comps, slash |-> FALSE]
Link(abs, comps) == [Node("link") EXCEPT !.target = [abs |-> abs, comps |-> comps]]

\* /f and /d/x are files, /d/e an empty directory, /p a FIFO, /l a link to d,
\* /d/k one to ../f, /n a dangling one and /o one to itself.
Tree == <<>> :> 1 @@ <<"f">> :> 2 @@ <<"d">> :> 3 @@ <<"d", "x">> :> 4 @@ <<"d", "e">> :> 5
        @@ <<"l">> :> 6 @@ <<"d", "k">> :> 7 @@ <<"n">> :> 8 @@ <<"o">> :> 9 @@ <<"p">> :> 10
Inodes == <<Node("dir"), [Node("file") EXCEPT !.data = <<7, 8>>], Node("dir"), Node("file"), Node("dir"),
            Link(FALSE, <<"d">>), Link(FALSE, <<"..", "f">>), Link(TRUE, <<"d", "gone">>),
            Link(FALSE, <<"o">>), Node("fifo")>>

Session(requests, length) ==
  [tree |-> Tree, ino |-> Inodes, cwd |-> <<"d">>, requests |-> requests, length |-> length,
   hardlinks |-> TRUE, touches |-> {}, long |-> {}, faults |-> 1, others |-> 0]

On(kind, hs) == {[kind |-> kind, handle |-> i] : i \in hs}
OpenReq(path, flags) == [kind |-> "OPEN", path |-> path, flags |-> flags]
WriteReq(i, offset, data) == [kind |-> "WRITE", handle |-> i, offset |-> offset, data |-> data]
PathReq(kind, path) == [kind |-> kind, path |-> path]

Files == Session(
  {OpenReq(Rel(<<"x">>), {"WRITE"}), OpenReq(Abs(<<"f">>), {"READ", "WRITE", "APPEND"}),
   OpenReq(Rel(<<"new">>), {"WRITE", "CREAT", "EXCL"}), OpenReq(Abs(<<"f">>), {"CREAT", "TRUNC"}),
   OpenReq(Abs(<<"p">>), {"READ", "WRITE", "APPEND"})}
  \cup On("CLOSE", {1, 2}) \cup On("fsync", {1})
  \cup {WriteReq(i, 1, <<1, 2>>) : i \in {1, 2}}
  \cup {[kind |-> "READ", handle |-> 1, offset |-> 1, len |-> 9]}, 4)

Attributes == Session(
  {OpenReq(Abs(<<"f">>), {"WRITE"}), OpenReq(Abs(<<"f">>), {})} \cup On("FSTAT", {1})
  \cup {[kind |-> "FSETSTAT", handle |-> 1, attrs |-> a] : a \in {
          [owner |-> 1, perm |-> "setuid"], [size |-> 1, times |-> "set"], [perm |-> "setuid"]}}
  \cup {[kind |-> "SETSTAT", path |-> p, attrs |-> a] :
          p \in {Abs(<<"d", "k">>), Abs(<<"p">>), Abs(<<"n">>)}, a \in {
          [size |-> 3, owner |-> 2, perm |-> "setuid", times |-> "set"], [owner |-> 3]}}
  \cup {PathReq(k, Abs(<<"l">>)) : k \in {"STAT", "LSTAT", "READLINK", "REMOVE", "OPENDIR"}}
  \cup {PathReq(k, Abs(<<"f">>)) : k \in {"READLINK", "RMDIR", "OPENDIR"}}, 3)

Directories == [Session(
  {PathReq("OPENDIR", Abs(<<"l">>)), PathReq("REMOVE", Rel(<<"x">>)),
   PathReq("RMDIR", Rel(<<"e">>)), PathReq("MKDIR", Rel(<<"m">>))} \cup On("READDIR", {1, 2}) \cup On("CLOSE", {1}), 5)
  EXCEPT !.touches = {<<"d", "x">>}, !.others = 1]

\* With /d/m as well, so that a reply can stop at MAX_NAMES with room left in it;
\* the entry of /d/k is long, so that one can stop short of MAX_NAMES.
Listing == [Session(
  {PathReq("OPENDIR", Abs(<<"l">>))} \cup On("READDIR", {1}), 6)
  EXCEPT !.tree = Tree @@ <<"d", "m">> :> 11, !.ino = Append(Inodes, Node("file")),
         !.long = {"k"}, !.faults = 2, !.touches = {<<"d", "x">>}, !.others = 1]

Moves(hard, length) == [Session(
  {[kind |-> "RENAME", path |-> o, new |-> n] :
     o \in {Abs(<<"f">>), Abs(<<"d">>), Abs(<<"none">>)},
     n \in {Abs(<<"n">>), Abs(<<"new">>), Rel(<<"d", "e">>)}}
  \cup {[kind |-> "posix-rename", path |-> o, new |-> Rel(<<"d", "x">>)] : o \in {Abs(<<"f">>), Abs(<<"d">>)}}
  \cup {[kind |-> "SYMLINK", path |-> Abs(<<"new">>), target |-> [abs |-> FALSE, comps |-> <<"f">>]]}, length)
  EXCEPT !.cwd = <<>>, !.hardlinks = hard, !.faults = 2, !.touches = {<<"new">>, <<"f">>, <<"n">>}, !.others = 2]

Paths == [Session(
  {PathReq(k, p) : k \in {"REALPATH", "expand-path"}, p \in {
     Rel(<<>>), Rel(<<"..", "l", "k">>), Rel(<<"k">>), Abs(<<"n">>), Abs(<<"l", "..", "o">>),
     Abs(<<"l", "", ".", "e", "..", "k">>), Abs(<<"none", "x">>), Rel(<<"~", "e">>), Rel(<<"~u">>),
     [Rel(<<"zz">>) EXCEPT !.slash = TRUE], [Abs(<<"l">>) EXCEPT !.slash = TRUE],
     Abs(<<"n", "y">>), Abs(<<"f", "y">>)}}
  \cup {[kind |-> "SYMLINK", path |-> Rel(<<"zz">>), target |-> [abs |-> FALSE, comps |-> <<"..", "l", "k">>]],
        [kind |-> "limits"], [kind |-> "other"]}, 3)
  EXCEPT !.touches = {<<"n">>, <<"d", "k">>}, !.others = 1]

AnySession == [files |-> Files, attributes |-> Attributes, directories |-> Directories, listing |-> Listing,
               links |-> Moves(TRUE, 2), nolinks |-> Moves(FALSE, 1), paths |-> Paths]
=============================================================================
