-------------------------------- MODULE Sftp --------------------------------
(***************************************************************************)
(* One session of the SFTP helper (crates/quantumssh-core/src/sftp.rs):    *)
(* the handle table, the request handlers and the file-system calls they   *)
(* make, with another process changing the same directories in between.    *)
(*                                                                         *)
(* The helper is sequential.  A handler is one action, except the three    *)
(* that make several calls on names another process can change meanwhile:  *)
(* RENAME, SETSTAT and REALPATH, which go on in op.  tree maps paths       *)
(* (sequences of names, <<>> the root) to inodes; the operators on it are  *)
(* the kernel's and external to the repository.  A call may also fail for  *)
(* a reason the model does not know, at most profile.faults times.         *)
(***************************************************************************)
EXTENDS Integers, Sequences, SequencesExt, FiniteSets, FiniteSetsExt

CONSTANTS
  Profiles,      \* the sessions by name: first tree and inodes, working directory,
                 \* requests the client may send, whether the file system has
                 \* hard links, names the other process touches, names
                 \* whose directory entries are long, and the bounds
                 \* length, faults and others
  MaxInode,      \* bound: inodes that may ever exist
  MAX_HANDLES, MAX_NAMES, MAX_PACKET, MAX_DATA, SYMLOOP_MAX,
  KernelLoops    \* links the kernel follows, more than SYMLOOP_MAX

ASSUME SftpAssumption ==
  /\ {MaxInode, MAX_HANDLES, MAX_NAMES, MAX_DATA, SYMLOOP_MAX} \subseteq Nat \ {0}
  /\ MAX_PACKET \in Nat /\ MAX_PACKET >= 2
  /\ KernelLoops \in Nat /\ KernelLoops > SYMLOOP_MAX

VARIABLES
  profile,   \* which session this is
  state,     \* "first" before INIT, "serving", or "exit 0", "exit 2"
  tree,      \* names: path -> inode
  ino,       \* inodes: number -> node
  handles,   \* Server.handles: Vec<Option<Handle>>
  op,        \* a RENAME, SETSTAT or REALPATH under way
  reply,     \* the last reply, with the request it answers
  held,      \* history: what the client opened and has not closed
  spent      \* history: requests, faults and steps of the other process

vars == <<profile, state, tree, ino, handles, op, reply, held, spent>>

session == Profiles[profile]

None == [kind |-> "none"]
NoReply == [req |-> None, code |-> "", body |-> <<>>]

\* A session starts in the home directory, or in / (run_server_if_requested).
Init ==
  /\ profile \in DOMAIN Profiles
  /\ state = "first"
  /\ tree = session.tree
  /\ ino = session.ino
  /\ handles = <<>>
  /\ op = None
  /\ reply = NoReply
  /\ held = <<>>
  /\ spent = [requests |-> 0, faults |-> 0, others |-> 0]
-----------------------------------------------------------------------------
(* The kernel: looking up names and changing the tree.                     *)

Node(type) == [type |-> type, data |-> <<>>, owner |-> 0, perm |-> "rw", mtime |-> "old",
               dirty |-> FALSE, target |-> [abs |-> FALSE, comps |-> <<>>]]

exists(p) == p \in DOMAIN tree
kind_of(p) == ino[tree[p]].type
parent(p) == IF p = <<>> THEN p ELSE Front(p)
children(p) == {q \in DOMAIN tree : q # <<>> /\ parent(q) = p}

fresh == 1 + Max(DOMAIN ino)
Less(f, S) == [x \in DOMAIN f \ S |-> f[x]]
With(f, x, v) == (x :> v) @@ f

\* Path resolution.  err is "" when at exists, "last" when only its last
\* component is missing, else the error.
namei(d, comps, follow, loops) ==
  LET walk[at \in Seq(STRING), cs \in Seq(STRING), n \in Nat] ==
        LET name == Head(cs)
            rest == Tail(cs)
            next == Append(at, name)
            to == ino[tree[next]].target
        IN  IF cs = <<>> THEN [err |-> "", at |-> at]
            ELSE IF kind_of(at) # "dir" THEN [err |-> "FAILURE", at |-> at]
            ELSE IF name \in {"", "."} THEN walk[at, rest, n]
            ELSE IF name = ".." THEN walk[parent(at), rest, n]
            ELSE IF ~exists(next)
            THEN [err |-> IF rest = <<>> THEN "last" ELSE "NO_SUCH_FILE", at |-> next]
            ELSE IF kind_of(next) # "link" \/ (rest = <<>> /\ ~follow) THEN walk[next, rest, n]
            ELSE IF n = 0 THEN [err |-> "FAILURE", at |-> at]
            ELSE walk[IF to.abs THEN <<>> ELSE at, to.comps \o rest, n - 1]
  IN  walk[d, comps, loops]

\* A path: absolute or not, its components, and whether a slash ends it.
resolve(path, follow, loops) ==
  namei(IF path.abs THEN <<>> ELSE session.cwd,
        path.comps \o (IF path.slash THEN <<"">> ELSE <<>>), follow, loops)

lookup(path, follow) == resolve(path, follow, KernelLoops)

errno(l) == IF l.err = "last" THEN "NO_SUCH_FILE" ELSE l.err

\* rename(2): everything under old is under new.
moved(t, old, new) ==
  LET came == {p \in DOMAIN t : IsPrefix(old, p)}
      stays == {p \in DOMAIN t : ~IsPrefix(old, p) /\ p # new}
      to(p) == new \o SubSeq(p, Len(old) + 1, Len(p))
      from(p) == old \o SubSeq(p, Len(new) + 1, Len(p))
  IN  [p \in stays \cup {to(q) : q \in came} |-> IF p \in stays THEN t[p] ELSE t[from(p)]]

rename_error(o, n) ==
  IF o.err # "" THEN errno(o)
  ELSE IF n.err \notin {"", "last"} THEN n.err
  ELSE IF n.err = "" /\ tree[o.at] = tree[n.at] THEN ""
  ELSE IF \/ IsPrefix(o.at, n.at) \/ IsPrefix(n.at, o.at)
          \/ n.err = "" /\ (kind_of(o.at) = "dir") # (kind_of(n.at) = "dir")
          \/ n.err = "" /\ children(n.at) # {}
  THEN "FAILURE" ELSE ""

renamed(o, n) ==
  IF n.err = "" /\ tree[o.at] = tree[n.at] THEN tree ELSE moved(tree, o.at, n.at)

\* What setting one attribute does: a new size touches the file, a new owner
\* takes the set-user-id bit away.
set_attr(node, name, v) ==
  CASE name = "size" ->
         [node EXCEPT !.mtime = "now", !.data = [i \in 1..v |-> IF i <= Len(@) THEN @[i] ELSE 0]]
    [] name = "owner" -> [node EXCEPT !.owner = v, !.perm = IF @ = "setuid" THEN "rw" ELSE @]
    [] name = "perm" -> [node EXCEPT !.perm = v]
    [] name = "times" -> [node EXCEPT !.mtime = v]

\* Whether the node has the attribute's value.
has_attr(node, name, v) ==
  CASE name = "size" -> Len(node.data) = v
    [] name = "owner" -> node.owner = v
    [] name = "perm" -> node.perm = v
    [] name = "times" -> node.mtime = v
-----------------------------------------------------------------------------
(* Requests and replies.                                                   *)

answer(req, code, body) == reply' = [req |-> req, code |-> code, body |-> body]

count(failed) ==
  spent' = [spent EXCEPT !.requests = @ + 1, !.faults = IF failed THEN @ + 1 ELSE @]

\* The next request is read; the handler adds what it changes.
takes(req) ==
  /\ state = "serving" /\ op = None
  /\ req \in session.requests
  /\ spent.requests < session.length
  /\ UNCHANGED <<profile, state>>

fsVars == <<tree, ino>>
tableVars == <<handles, held>>

\* Answered with nothing changed.
inform(req, code, body) ==
  answer(req, code, body) /\ count(FALSE) /\ UNCHANGED <<fsVars, tableVars, op>>

refuse(req, code) == inform(req, code, <<>>)

\* error_code, of a call that failed for a reason the model does not know.
Errors == {"NO_SUCH_FILE", "PERMISSION_DENIED", "FAILURE"}

faulty(req) ==
  /\ spent.faults < session.faults
  /\ \E code \in Errors : answer(req, code, <<>>)
  /\ count(TRUE)
  /\ UNCHANGED op

fails(req) == faulty(req) /\ UNCHANGED <<fsVars, tableVars>>

succeed(req) == answer(req, "OK", <<>>) /\ count(FALSE) /\ UNCHANGED op

FreeSlots == {i \in DOMAIN handles : handles[i] = None}

has_free_slot == Len(handles) < MAX_HANDLES \/ FreeSlots # {}

\* Mutant: the slot after the last closed one, open or not.
insert_slot_next == IF FreeSlots # {} THEN Min({Max(FreeSlots) + 1, Len(handles)})
                    ELSE Len(handles) + 1

\* insert: the first closed slot, else a new one.
insert_slot == IF FreeSlots # {} THEN Min(FreeSlots) ELSE Len(handles) + 1

\* The handle is stored and named to the client, within the cap; broken says
\* that a later read of it will fail.
insert(req, handle, seen, broken) ==
  LET i == insert_slot IN
  /\ IF i > MAX_HANDLES THEN answer(req, "FAILURE", <<>>) /\ UNCHANGED tableVars
     ELSE /\ handles' = IF i > Len(handles) THEN Append(handles, handle)
                        ELSE [handles EXCEPT ![i] = handle]
          /\ held' = With(held, i, seen)
          /\ answer(req, "HANDLE", i)
  /\ count(broken)
  /\ UNCHANGED op

\* The handle a request names, None when it names no open one.
index(i) == IF i \in DOMAIN handles THEN handles[i] ELSE None

\* The serve loop around the handlers: INIT comes first; a malformed packet or
\* a write that fails ends the session, as the end of the input does.
serve_init ==
  /\ state = "first"
  /\ state' \in {"serving", "exit 2"}
  /\ UNCHANGED <<profile, fsVars, tableVars, op, reply, spent>>

serve_ends ==
  /\ state \in {"first", "serving"} /\ op = None
  /\ state' \in {"exit 0", "exit 2"}
  /\ UNCHANGED <<profile, fsVars, tableVars, op, reply, spent>>
-----------------------------------------------------------------------------
(* OPEN, READ, WRITE, CLOSE.                                               *)

open_flags(pflags) ==
  [read |-> "WRITE" \notin pflags \/ "READ" \in pflags,
   write |-> "WRITE" \in pflags,
   append |-> "APPEND" \in pflags]

exclusive(pflags) == {"CREAT", "EXCL"} \subseteq pflags

\* open(2)
open_error(l, pflags) ==
  IF l.err = "last" THEN IF "CREAT" \in pflags THEN "" ELSE "NO_SUCH_FILE"
  ELSE IF l.err # "" THEN l.err
  ELSE IF exclusive(pflags) THEN "FAILURE"
  ELSE IF kind_of(l.at) = "dir" /\ pflags \cap {"WRITE", "CREAT", "TRUNC"} # {} THEN "FAILURE"
  ELSE ""

opened(l, pflags) ==
  IF l.err = "last"
  THEN /\ fresh <= MaxInode
       /\ tree' = With(tree, l.at, fresh)
       /\ ino' = With(ino, fresh, Node("file"))
  ELSE /\ tree' = tree
       /\ ino' = IF "TRUNC" \notin pflags \/ kind_of(l.at) # "file" THEN ino
                 ELSE [ino EXCEPT ![tree[l.at]] = set_attr(@, "size", 0)]

open_handle(req, l) ==
  insert(req, [kind |-> "file", ino |-> tree'[l.at], mode |-> open_flags(req.flags),
               written |-> FALSE],
              [kind |-> "file", ino |-> tree'[l.at], wrote |-> FALSE], FALSE)

\* Mutant: only insert looks at the cap, after the file was opened.
open_unchecked(req) ==
  LET l == lookup(req.path, ~exclusive(req.flags))
      error == open_error(l, req.flags)
  IN
  /\ takes(req)
  /\ \/ error # "" /\ refuse(req, error)
     \/ error = "" /\ opened(l, req.flags) /\ open_handle(req, l)

\* The table is checked before the file is touched.
open(req) ==
  LET l == lookup(req.path, ~exclusive(req.flags))
      error == open_error(l, req.flags)
  IN
  /\ takes(req)
  /\ \/ ~has_free_slot /\ refuse(req, "FAILURE")
     \/ has_free_slot /\ error # "" /\ refuse(req, error)
     \/ has_free_slot /\ fails(req)
     \/ has_free_slot /\ error = "" /\ opened(l, req.flags) /\ open_handle(req, l)

read(req) ==
  LET h == index(req.handle)
      data == ino[h.ino].data
      n == Min({req.len, MAX_DATA, Len(data) - req.offset})
      readable == h.kind = "file" /\ h.mode.read /\ ino[h.ino].type = "file"
  IN
  /\ takes(req)
  /\ \/ ~readable /\ refuse(req, "FAILURE")
     \/ readable /\ n <= 0 /\ refuse(req, "EOF")
     \/ readable /\ n > 0 /\ inform(req, "DATA", SubSeq(data, req.offset + 1, req.offset + n))
     \/ readable /\ fails(req)

\* Bytes land over what is there, past a hole of zeros if need be.
stored(data, at, bytes) ==
  [i \in 1..Max({Len(data), at + Len(bytes)}) |->
     IF i > at /\ i <= at + Len(bytes) THEN bytes[i - at]
     ELSE IF i <= Len(data) THEN data[i] ELSE 0]

\* Mutant: a write that fails part-way does not count as one.
write_tracked_whole(written, n, all) == written \/ (n > 0 /\ n = all)

\* written, after n of all bytes reached the file.
write_tracked(written, n, all) == written \/ n > 0

\* pwrite(2), or write(2) for APPEND, as often as it takes.  n bytes arrive.
write_some(req, h, n) ==
  LET at == IF h.mode.append THEN Len(ino[h.ino].data) ELSE req.offset
      bytes == SubSeq(req.data, 1, n)
  IN
  /\ ino' = IF n = 0 THEN ino
            ELSE [ino EXCEPT ![h.ino].data = IF ino[h.ino].type = "file" THEN stored(@, at, bytes) ELSE @,
                             ![h.ino].mtime = "now", ![h.ino].dirty = TRUE]
  /\ handles' = [handles EXCEPT ![req.handle].written = write_tracked(@, n, Len(req.data))]
  /\ held' = [held EXCEPT ![req.handle].wrote = @ \/ n > 0]
  /\ tree' = tree

write(req) ==
  LET h == index(req.handle)
      writable == h.kind = "file" /\ \/ req.data = <<>>
                                     \/ h.mode.write /\ (ino[h.ino].type = "fifo" => h.mode.append)
  IN
  /\ takes(req)
  /\ \/ ~writable /\ refuse(req, "FAILURE")
     \/ writable /\ write_some(req, h, Len(req.data)) /\ succeed(req)
     \/ /\ writable
        /\ \E n \in 0..Len(req.data) - 1 : write_some(req, h, n)
        /\ faulty(req)

\* Mutant: a CLOSE whose sync fails keeps the handle.
slot_closed_if(h, ok) == IF ok THEN None ELSE h

\* close takes the handle out of its slot whatever the sync says.
slot_closed(h, ok) == None

\* A written regular file is synced.
close(req) ==
  LET h == index(req.handle)
      syncs == h.kind = "file" /\ h.written /\ ino[h.ino].type = "file"
      dropped(ok) == /\ handles' = [handles EXCEPT ![req.handle] = slot_closed(@, ok)]
                     /\ held' = Less(held, {req.handle})
                     /\ tree' = tree
  IN
  /\ takes(req)
  /\ \/ h = None /\ refuse(req, "FAILURE")
     \/ /\ h # None /\ dropped(TRUE) /\ succeed(req)
        /\ ino' = IF syncs THEN [ino EXCEPT ![h.ino].dirty = FALSE] ELSE ino
     \/ h # None /\ syncs /\ dropped(FALSE) /\ ino' = ino /\ faulty(req)

fsync(req) ==
  LET h == index(req.handle)
      syncable == h.kind = "file" /\ ino[h.ino].type # "fifo"
  IN
  /\ takes(req)
  /\ \/ ~syncable /\ refuse(req, "FAILURE")
     \/ /\ syncable /\ ino' = [ino EXCEPT ![h.ino].dirty = FALSE]
        /\ succeed(req) /\ UNCHANGED <<tree, tableVars>>
     \/ syncable /\ fails(req)
-----------------------------------------------------------------------------
(* Attributes.                                                             *)

\* Mutant: the permissions before the owner.
attr_order_perm_first == <<"size", "perm", "owner", "times">>

attr_order == <<"size", "owner", "perm", "times">>

asked(attrs) == SelectSeq(attr_order, LAMBDA a : a \in DOMAIN attrs)

\* FSETSTAT: all attributes, or those before the first that fails.
fsetstat(req) ==
  LET h == index(req.handle)
      names == asked(req.attrs)
      allowed == h.kind = "file" /\ ("size" \in DOMAIN req.attrs => h.mode.write /\ ino[h.ino].type = "file")
      set(n) == ino' = [ino EXCEPT ![h.ino] =
                          FoldLeft(LAMBDA nd, a : set_attr(nd, a, req.attrs[a]), @, SubSeq(names, 1, n))]
  IN
  /\ takes(req)
  /\ \/ ~allowed /\ refuse(req, "FAILURE")
     \/ allowed /\ set(Len(names)) /\ succeed(req) /\ UNCHANGED <<tree, tableVars>>
     \/ /\ allowed
        /\ \E n \in 0..Len(names) - 1 : set(n)
        /\ faulty(req) /\ UNCHANGED <<tree, tableVars>>

stat(req) ==
  LET l == lookup(req.path, req.kind = "STAT") IN
  /\ takes(req)
  /\ \/ l.err # "" /\ refuse(req, errno(l))
     \/ l.err = "" /\ inform(req, "ATTRS", ino[tree[l.at]])
     \/ fails(req)

fstat(req) ==
  LET h == index(req.handle) IN
  /\ takes(req)
  /\ \/ h.kind # "file" /\ refuse(req, "FAILURE")
     \/ h.kind = "file" /\ inform(req, "ATTRS", ino[h.ino])
     \/ h.kind = "file" /\ fails(req)
-----------------------------------------------------------------------------
(* Directories.  "!" in a stream of entries is a read that fails.          *)

entry_names(p) == {Last(q) : q \in children(p)}

\* The orders the kernel hands entries out in: the long ones may come anywhere
\* among the others (bound: these keep one order).
orders(names) ==
  {s \in SetToSeqs(names) :
     SelectSeq(s, LAMBDA n : n \notin session.long) = SetToSeq(names \ session.long)}

opendir(req) ==
  LET l == lookup(req.path, TRUE)
      error == IF l.err = "" /\ kind_of(l.at) # "dir" THEN "FAILURE" ELSE errno(l)
      stream(es, broken) ==
        insert(req, [kind |-> "dir", ino |-> tree[l.at], entries |-> es],
                    [kind |-> "dir", ino |-> tree[l.at], listed |-> <<>>, unread |-> {},
                     owed |-> IF broken THEN 1 ELSE 0,
                     whole |-> [n \in entry_names(l.at) |-> tree[Append(l.at, n)]]], broken)
  IN
  /\ takes(req)
  /\ \/ ~has_free_slot /\ refuse(req, "FAILURE")
     \/ has_free_slot /\ error # "" /\ refuse(req, error)
     \/ has_free_slot /\ fails(req)
     \/ /\ has_free_slot /\ error = ""
        /\ \E names \in orders(entry_names(l.at)) :
             \/ stream(names, FALSE)
             \/ /\ spent.faults < session.faults
                /\ \E k \in 1..Len(names) + 1 : stream(InsertAt(names, k, "!"), TRUE)
        /\ UNCHANGED fsVars

\* Where the open directory is now; the entry's metadata is read through it.
in_dir(d, name) == \E p \in DOMAIN tree : tree[p] = d /\ Append(p, name) \in DOMAIN tree
entry_ino(d, name) == tree[CHOOSE q \in DOMAIN tree :
                             q # <<>> /\ tree[parent(q)] = d /\ Last(q) = name]

\* What an entry takes of a packet: one unit, like the reply's head, or all the
\* rest when it is long.  None is longer: a name has at most 255 bytes.
entry_size(name) == IF name \in session.long THEN MAX_PACKET - 1 ELSE 1

\* Mutant: the entry the count stops at has already been taken.
gather_takes_next(d, entries, unread) ==
  LET go[es \in Seq(STRING), names \in Seq(STRING), size \in Nat] ==
        LET n == Head(es) IN
        IF es = <<>> \/ n = "!" THEN [names |-> names, rest |-> es]
        ELSE IF Len(names) = MAX_NAMES THEN [names |-> names, rest |-> Tail(es)]
        ELSE IF n \in unread \/ ~in_dir(d, n) THEN go[Tail(es), names, size]
        ELSE IF size + entry_size(n) > MAX_PACKET THEN [names |-> names, rest |-> es]
        ELSE go[Tail(es), Append(names, n), size + entry_size(n)]
  IN  go[entries, <<>>, 1]

\* Mutant: the entry that does not fit in the packet has already been taken.
gather_drops_long(d, entries, unread) ==
  LET go[es \in Seq(STRING), names \in Seq(STRING), size \in Nat] ==
        LET n == Head(es) IN
        IF Len(names) = MAX_NAMES \/ es = <<>> \/ n = "!" THEN [names |-> names, rest |-> es]
        ELSE IF n \in unread \/ ~in_dir(d, n) THEN go[Tail(es), names, size]
        ELSE IF size + entry_size(n) > MAX_PACKET THEN [names |-> names, rest |-> Tail(es)]
        ELSE go[Tail(es), Append(names, n), size + entry_size(n)]
  IN  go[entries, <<>>, 1]

\* The names of one reply and the entries left.  An entry is skipped when its
\* metadata cannot be read: it is gone, or in unread.
gather(d, entries, unread) ==
  LET go[es \in Seq(STRING), names \in Seq(STRING), size \in Nat] ==
        LET n == Head(es) IN
        IF Len(names) = MAX_NAMES \/ es = <<>> \/ n = "!" THEN [names |-> names, rest |-> es]
        ELSE IF n \in unread \/ ~in_dir(d, n) THEN go[Tail(es), names, size]
        ELSE IF size + entry_size(n) > MAX_PACKET THEN [names |-> names, rest |-> es]
        ELSE go[Tail(es), Append(names, n), size + entry_size(n)]
  IN  go[entries, <<>>, 1]

\* unread: the entries whose metadata this call fails to read, for a reason
\* other than that they are gone.
readdir_gathers(req, h, unread) ==
  LET i == req.handle
      got == gather(h.ino, h.entries, unread)
      failed == got.names = <<>> /\ got.rest # <<>> /\ Head(got.rest) = "!"
      left == IF failed THEN Tail(got.rest) ELSE got.rest
  IN
  /\ unread \cap ToSet(got.rest) = {}
  /\ spent.faults + Cardinality(unread) <= session.faults
  /\ spent' = [spent EXCEPT !.requests = @ + 1, !.faults = @ + Cardinality(unread)]
  /\ answer(req, IF failed THEN "FAILURE" ELSE IF got.names = <<>> THEN "EOF" ELSE "NAME", got.names)
  /\ handles' = [handles EXCEPT ![i].entries = left]
  /\ held' = [held EXCEPT ![i].listed = @ \o got.names,
                          ![i].unread = @ \cup unread,
                          ![i].owed = IF failed THEN @ - 1 ELSE @]
  /\ UNCHANGED <<fsVars, op>>

readdir(req) ==
  LET h == index(req.handle) IN
  /\ takes(req)
  /\ \/ h.kind # "dir" /\ refuse(req, "FAILURE")
     \/ /\ h.kind = "dir"
        /\ \E unread \in SUBSET (ToSet(h.entries) \ {"!"}) : readdir_gathers(req, h, unread)

\* mkdir(2), symlink(2): a new name.
makes(req, node) ==
  LET l == lookup(req.path, FALSE) IN
  /\ takes(req)
  /\ \/ l.err # "last" /\ refuse(req, IF l.err = "" THEN "FAILURE" ELSE l.err)
     \/ fails(req)
     \/ /\ l.err = "last" /\ fresh <= MaxInode
        /\ tree' = With(tree, l.at, fresh) /\ ino' = With(ino, fresh, node)
        /\ succeed(req) /\ UNCHANGED tableVars

mkdir(req) == makes(req, Node("dir"))

\* SYMLINK stores the target as it was sent.
symlink(req) == makes(req, [Node("link") EXCEPT !.target = req.target])

\* REMOVE takes anything but a directory, RMDIR an empty directory.
remove(req) ==
  LET l == lookup(req.path, FALSE)
      fits == IF req.kind = "RMDIR" THEN kind_of(l.at) = "dir" /\ children(l.at) = {} /\ l.at # <<>>
              ELSE kind_of(l.at) # "dir"
  IN
  /\ takes(req)
  /\ \/ l.err # "" /\ refuse(req, errno(l))
     \/ l.err = "" /\ ~fits /\ refuse(req, "FAILURE")
     \/ fails(req)
     \/ /\ l.err = "" /\ fits
        /\ tree' = Less(tree, {l.at}) /\ ino' = ino
        /\ succeed(req) /\ UNCHANGED tableVars

readlink(req) ==
  LET l == lookup(req.path, FALSE) IN
  /\ takes(req)
  /\ \/ l.err # "" /\ refuse(req, errno(l))
     \/ l.err = "" /\ kind_of(l.at) # "link" /\ refuse(req, "FAILURE")
     \/ l.err = "" /\ kind_of(l.at) = "link" /\ inform(req, "NAME", ino[tree[l.at]].target)

\* limits@openssh.com, and what is not supported.
constant_reply(req) ==
  /\ takes(req)
  /\ \/ req.kind = "limits" /\ inform(req, "EXTENDED", <<MAX_PACKET, MAX_DATA, MAX_DATA, MAX_HANDLES>>)
     \/ req.kind = "other" /\ refuse(req, "OP_UNSUPPORTED")

posix_rename(req) ==
  LET o == lookup(req.path, FALSE)
      n == lookup(req.new, FALSE)
      error == rename_error(o, n)
  IN
  /\ takes(req)
  /\ \/ error # "" /\ refuse(req, error)
     \/ fails(req)
     \/ error = "" /\ tree' = renamed(o, n) /\ succeed(req) /\ UNCHANGED <<ino, tableVars>>
-----------------------------------------------------------------------------
(* RENAME, SETSTAT and REALPATH: one call per step.                        *)

\* start is the tree the request found; calm, that nobody else changed it.
begin(req, fields) ==
  /\ takes(req)
  /\ op' = [req |-> req, start |-> tree, calm |-> TRUE] @@ fields
  /\ count(FALSE)
  /\ UNCHANGED <<fsVars, tableVars, reply>>

at(pc) ==
  /\ op # None /\ op.pc = pc
  /\ UNCHANGED <<profile, state, tableVars>>

goto(pc) == op' = [op EXCEPT !.pc = pc] /\ UNCHANGED <<fsVars, reply, spent>>

\* The operation ends with a reply.
finish(code, body) == answer(op.req, code, body) /\ op' = None /\ UNCHANGED <<ino, spent>>

fail(code) == finish(code, <<>>) /\ UNCHANGED tree

\* It ends with a failure the model does not know.
stumbles ==
  /\ spent.faults < session.faults
  /\ spent' = [spent EXCEPT !.faults = @ + 1]
  /\ \E code \in Errors : answer(op.req, code, <<>>)
  /\ op' = None /\ UNCHANGED fsVars

setstat_begins(req) == begin(req, [pc |-> "setstat", left |-> asked(req.attrs)])

\* setstat: each attribute through the path.  The size needs a non-blocking
\* open for writing, which a directory and a FIFO without a reader refuse.
setstat_attr ==
  LET l == lookup(op.req.path, TRUE)
      a == Head(op.left)
  IN
  /\ at("setstat")
  /\ \/ op.left = <<>> /\ fail("OK")
     \/ op.left # <<>> /\ l.err # "" /\ fail(errno(l))
     \/ op.left # <<>> /\ l.err = "" /\ a = "size" /\ kind_of(l.at) # "file" /\ fail("FAILURE")
     \/ op.left # <<>> /\ stumbles
     \/ /\ op.left # <<>> /\ l.err = "" /\ (a = "size" => kind_of(l.at) = "file")
        /\ ino' = [ino EXCEPT ![tree[l.at]] = set_attr(@, a, op.req.attrs[a])]
        /\ op' = [op EXCEPT !.left = Tail(@)]
        /\ UNCHANGED <<tree, reply, spent>>

old == lookup(op.req.path, FALSE)
new == lookup(op.req.new, FALSE)

rename_begins(req) ==
  begin(req, [pc |-> "lstat", code |-> "", old |-> lookup(req.path, FALSE).at,
              new |-> lookup(req.new, FALSE).at])

\* rename_no_overwrite: a regular file by hard link, anything else by rename.
rename_lstat ==
  /\ at("lstat")
  /\ IF old.err # "" THEN fail(errno(old))
     ELSE goto(IF kind_of(old.at) = "file" THEN "link" ELSE "check")

rename_link ==
  /\ at("link")
  /\ \/ session.hardlinks /\ stumbles
     \/ IF ~session.hardlinks THEN goto("check")
        ELSE IF old.err # "" THEN fail(errno(old))
        ELSE IF new.err # "last" THEN fail(IF new.err = "" THEN "FAILURE" ELSE new.err)
        ELSE /\ tree' = With(tree, new.at, tree[old.at])
             /\ op' = [op EXCEPT !.pc = "unlink"]
             /\ UNCHANGED <<ino, reply, spent>>

\* When the old name cannot be removed, the new one is.
rename_unlink ==
  /\ at("unlink")
  /\ \/ old.err = "" /\ tree' = Less(tree, {old.at}) /\ finish("OK", <<>>)
     \/ /\ op' = [op EXCEPT !.pc = "rollback",
                           !.code = IF old.err # "" THEN errno(old) ELSE "PERMISSION_DENIED"]
        /\ spent' = [spent EXCEPT !.faults = IF old.err # "" THEN @ ELSE @ + 1]
        /\ spent'.faults <= session.faults
        /\ UNCHANGED <<fsVars, reply>>

\* Mutant: the new name stays.
rename_rollback_skipped ==
  at("rollback") /\ tree' = tree /\ finish(op.code, <<>>)

\* A failure of this removal is ignored.
rename_rollback ==
  /\ at("rollback")
  /\ \/ /\ tree' = IF new.err = "" /\ kind_of(new.at) # "dir" THEN Less(tree, {new.at}) ELSE tree
        /\ finish(op.code, <<>>)
     \/ stumbles /\ reply'.code = op.code

\* Mutant: the check follows a link, so a dangling one looks absent.
rename_check_follows ==
  at("check") /\ IF lookup(op.req.new, TRUE).err = "" THEN fail("FAILURE") ELSE goto("rename")

\* rename_if_absent
rename_check ==
  at("check") /\ IF new.err = "" THEN fail("FAILURE") ELSE goto("rename")

rename_rename ==
  /\ at("rename")
  /\ \/ stumbles
     \/ rename_error(old, new) # "" /\ fail(rename_error(old, new))
     \/ rename_error(old, new) = "" /\ tree' = renamed(old, new) /\ finish("OK", <<>>)

\* expand: ~ is the working directory, ~user is not resolved.
expand(path) ==
  IF path.abs \/ path.comps = <<>> \/ Head(path.comps) # "~" THEN path
  ELSE [path EXCEPT !.abs = TRUE, !.comps = session.cwd \o Tail(@)]

realpath_begins(req) ==
  LET path == IF req.kind = "expand-path" THEN expand(req.path) ELSE req.path IN
  IF ~path.abs /\ path.comps # <<>> /\ Head(path.comps) = "~u" /\ req.kind = "expand-path"
  THEN takes(req) /\ refuse(req, "NO_SUCH_FILE")
  ELSE begin(req, [pc |-> "token", links |-> 0,
                   resolved |-> IF path.abs THEN <<>> ELSE session.cwd,
                   comps |-> path.comps, slash |-> path.slash])

\* Mutant: a relative target is taken from the link, not from its directory.
pop_component_kept(resolved) == resolved

pop_component(resolved) == parent(resolved)

realpath_done(path) == finish("NAME", path) /\ UNCHANGED tree

\* One turn of realpath's loop over the components left.
realpath_token ==
  LET token == Head(op.comps)
      rest == Tail(op.comps)
      last == rest = <<>> /\ ~op.slash
      next == Append(op.resolved, token)
      found == namei(<<>>, next, FALSE, KernelLoops)
      to == ino[tree[found.at]].target
      onto(resolved) ==
        op' = [op EXCEPT !.comps = rest, !.resolved = resolved] /\ UNCHANGED <<fsVars, reply, spent>>
  IN
  /\ at("token")
  /\ \/ stumbles
     \/ IF op.comps = <<>> THEN realpath_done(op.resolved)
        ELSE IF token \in {"", "."} THEN onto(op.resolved)
        ELSE IF token = ".." THEN onto(parent(op.resolved))
        ELSE IF errno(found) = "NO_SUCH_FILE" /\ last THEN realpath_done(next)
        ELSE IF found.err # "" THEN fail(errno(found))
        ELSE IF kind_of(found.at) # "link" THEN onto(next)
        ELSE IF op.links = SYMLOOP_MAX THEN fail("FAILURE")
        ELSE /\ op' = [op EXCEPT !.links = @ + 1,
                                 !.resolved = IF to.abs THEN <<>> ELSE pop_component(next),
                                 !.comps = to.comps \o rest,
                                 !.slash = @ /\ ~last]
             /\ UNCHANGED <<fsVars, reply, spent>>
-----------------------------------------------------------------------------
(* Another process works in the same directories.                          *)

other_step(change) ==
  /\ spent.others < session.others
  /\ change
  /\ spent' = [spent EXCEPT !.others = @ + 1]
  /\ op' = IF op = None THEN op ELSE [op EXCEPT !.calm = FALSE]
  /\ UNCHANGED <<profile, state, tableVars, reply>>

other_creates(p) ==
  other_step(/\ ~exists(p) /\ exists(parent(p)) /\ kind_of(parent(p)) = "dir"
             /\ fresh <= MaxInode
             /\ tree' = With(tree, p, fresh) /\ ino' = With(ino, fresh, Node("file")))

other_removes(p) ==
  other_step(exists(p) /\ kind_of(p) # "dir" /\ tree' = Less(tree, {p}) /\ ino' = ino)
-----------------------------------------------------------------------------
handle(req) ==
  CASE req.kind = "OPEN" -> open(req)
    [] req.kind = "CLOSE" -> close(req)
    [] req.kind = "READ" -> read(req)
    [] req.kind = "WRITE" -> write(req)
    [] req.kind \in {"STAT", "LSTAT"} -> stat(req)
    [] req.kind = "FSTAT" -> fstat(req)
    [] req.kind = "SETSTAT" -> setstat_begins(req)
    [] req.kind = "FSETSTAT" -> fsetstat(req)
    [] req.kind = "OPENDIR" -> opendir(req)
    [] req.kind = "READDIR" -> readdir(req)
    [] req.kind \in {"REMOVE", "RMDIR"} -> remove(req)
    [] req.kind = "MKDIR" -> mkdir(req)
    [] req.kind \in {"REALPATH", "expand-path"} -> realpath_begins(req)
    [] req.kind = "RENAME" -> rename_begins(req)
    [] req.kind = "READLINK" -> readlink(req)
    [] req.kind = "SYMLINK" -> symlink(req)
    [] req.kind = "posix-rename" -> posix_rename(req)
    [] req.kind = "fsync" -> fsync(req)
    [] req.kind \in {"limits", "other"} -> constant_reply(req)

Helper ==
  \/ serve_init \/ serve_ends
  \/ \E req \in session.requests : handle(req)
  \/ rename_lstat \/ rename_link \/ rename_unlink \/ rename_rollback
  \/ rename_check \/ rename_rename
  \/ setstat_attr \/ realpath_token

Other == \E p \in session.touches : other_creates(p) \/ other_removes(p)

Over == state \in {"exit 0", "exit 2"} /\ UNCHANGED vars

Next == Helper \/ Other \/ Over

Spec == Init /\ [][Next]_vars
-----------------------------------------------------------------------------
(* Properties.                                                             *)

\* This step answers a request of one of these kinds.
Answers(kinds) ==
  /\ op' = None /\ (op # None \/ spent'.requests > spent.requests)
  /\ reply'.req.kind \in kinds

\* The session's state, and a tree without orphans.
TypeOK ==
  /\ profile \in DOMAIN Profiles
  /\ state \in {"first", "serving", "exit 0", "exit 2"}
  /\ \A p \in DOMAIN tree : tree[p] \in DOMAIN ino /\ (p # <<>> => kind_of(parent(p)) = "dir")
  /\ spent.faults <= session.faults /\ spent.others <= session.others

\* The table stays within the cap, names inodes that exist, and knows each
\* open handle the client holds and no other (insert, close).
HandlesKnown ==
  /\ Len(handles) <= MAX_HANDLES
  /\ DOMAIN held = DOMAIN handles \ FreeSlots
  /\ \A i \in DOMAIN held : handles[i].ino \in DOMAIN ino

\* A handle keeps naming the file or directory the client opened until the
\* client closes it: insert reuses closed slots only (sftp.rs, insert).
HandlesNamed ==
  [][\A i \in DOMAIN held :
       \/ Answers({"CLOSE"}) /\ reply'.req.handle = i
       \/ handles'[i].kind = held[i].kind /\ handles'[i].ino = held[i].ino]_vars

\* "A refused OPEN must not have created or truncated the file": whatever the
\* reason, an OPEN without a HANDLE changes nothing on disk (open).
RefusedOpenHarmless ==
  [][Answers({"OPEN"}) /\ reply'.code # "HANDLE" => UNCHANGED fsVars]_vars

\* When CLOSE says OK, all the bytes this handle wrote to a regular file, those
\* of a write that failed part-way too, are on disk (close, write_tracked).
SyncBeforeOk ==
  [][LET h == held[reply'.req.handle] IN
     /\ Answers({"CLOSE"}) /\ reply'.code = "OK"
     /\ h.kind = "file" /\ h.wrote /\ ino[h.ino].type = "file"
     => ~ino'[h.ino].dirty]_vars

\* After a SETSTAT or FSETSTAT that says OK every attribute asked for has its
\* value: no later call of the same request undoes it (setstat, fsetstat).
SetstatTakesEffect ==
  [][LET i == IF reply'.req.kind = "FSETSTAT" THEN handles[reply'.req.handle].ino
              ELSE tree[lookup(reply'.req.path, TRUE).at]
     IN  /\ Answers({"SETSTAT", "FSETSTAT"}) /\ reply'.code = "OK"
         /\ (op # None => op.calm)
         /\ DOMAIN reply'.req.attrs # {}
         => \A a \in DOMAIN reply'.req.attrs : has_attr(ino'[i], a, reply'.req.attrs[a])]_vars

\* A listing is whole: when READDIR says EOF, each entry the directory had when
\* it was opened and still has was listed exactly once, whichever limit ended a
\* reply before it, unless its own metadata could not be read (readdir skips such
\* an entry, and no other with it); none was listed twice or after it was skipped;
\* and each failed read was reported (readdir's peeking loop).
ListingComplete ==
  [][LET h == held[reply'.req.handle]
         times(n) == Cardinality({k \in DOMAIN held'[reply'.req.handle].listed :
                                    held'[reply'.req.handle].listed[k] = n})
         unread == held'[reply'.req.handle].unread
     IN
     Answers({"READDIR"}) =>
       /\ reply'.code \in {"NAME", "EOF"} =>
            \A n \in DOMAIN h.whole : times(n) + (IF n \in unread THEN 1 ELSE 0) <= 1
       /\ reply'.code = "EOF" =>
            /\ h.owed = 0
            /\ \A n \in DOMAIN h.whole :
                 in_dir(h.ino, n) /\ entry_ino(h.ino, n) = h.whole[n] /\ n \notin unread => times(n) = 1]_vars

\* RENAME is all or nothing: undisturbed, it ends with the file moved, or with
\* every name as it was unless the removal of the new name failed as well
\* (rename_no_overwrite).
RenameAtomic ==
  [][Answers({"RENAME"}) /\ op.calm /\ ~(op.pc = "rollback" /\ spent'.faults > spent.faults) =>
       tree' = IF reply'.code = "OK" THEN moved(op.start, op.old, op.new) ELSE op.start]_vars

\* RENAME never replaces another file that stood at the new name when the
\* request arrived, a dangling link included (rename_if_absent).
RenameNeverReplaces ==
  [][/\ op # None /\ op.req.kind = "RENAME" /\ spent'.others = spent.others
     /\ {op.old, op.new} \subseteq DOMAIN op.start /\ op.start[op.old] # op.start[op.new]
     /\ exists(op.new) /\ tree[op.new] = op.start[op.new]
     => op.new \in DOMAIN tree' /\ tree'[op.new] = tree[op.new]]_vars

\* Undisturbed, REALPATH answers the path the kernel resolves the request to
\* whenever the kernel does so within SYMLOOP_MAX links, the last component
\* missing or not, and no component of an answer is a link (realpath).
RealpathCorrect ==
  [][LET path == IF op.req.kind = "expand-path" THEN expand(op.req.path) ELSE op.req.path
         k == resolve(path, TRUE, SYMLOOP_MAX)
     IN  Answers({"REALPATH", "expand-path"}) /\ op # None /\ op.calm /\ spent' = spent =>
           /\ k.err \in {"", "last"} => reply'.code = "NAME" /\ reply'.body = k.at
           /\ reply'.code = "NAME" =>
                \A n \in 1..Len(reply'.body) :
                  LET p == SubSeq(reply'.body, 1, n) IN exists(p) => kind_of(p) # "link"]_vars
\* The handle table is what the client believes it is: within its cap, knowing
\* the open handles and no other, each naming what was opened (insert, close).
HandlesExact == [](TypeOK /\ HandlesKnown) /\ HandlesNamed

\* An OK means it is done: the bytes are on disk, the attributes are set
\* (close, write_tracked, setstat, fsetstat).
OkMeansDone == SyncBeforeOk /\ SetstatTakesEffect

\* RENAME moves the file or changes nothing, and replaces nothing
\* (rename_no_overwrite).
RenameSafe == RenameAtomic /\ RenameNeverReplaces
=============================================================================
