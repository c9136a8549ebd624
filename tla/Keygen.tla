------------------------------- MODULE Keygen --------------------------------
(***************************************************************************)
(* quantumssh keygen (crates/quantumssh/src/keygen.rs, with the key        *)
(* generation of crates/quantumssh-core/src/host_key.rs): the two files it *)
(* creates, and how it takes them back when a step fails.                  *)
(*                                                                         *)
(* Several runs may work on one path at once, and a run may be killed      *)
(* between any two system calls.  Files are inodes under paths <<dir,      *)
(* leaf>>; a mode is the set of what it grants to group and world, out of  *)
(* "gr" and "gw".  The file system is external.                            *)
(***************************************************************************)
EXTENDS Integers, Sequences, SequencesExt, FiniteSets, FiniteSetsExt

CONSTANTS
  Profiles,   \* installations by name: directories, first files, names, runs
  MaxFaults   \* bound: system calls that fail, and runs that are killed

ASSUME KeygenAssumption ==
  /\ MaxFaults \in Nat
  /\ \A p \in DOMAIN Profiles : LET t == Profiles[p] IN
       /\ Len(t.ino) \in Nat /\ DOMAIN t.ino = 1..Len(t.ino)
       /\ \A path \in DOMAIN t.dirent : t.dirent[path] \in DOMAIN t.ino
       /\ \A i \in DOMAIN t.ino :
            DOMAIN t.ino[i] = {"content", "mode", "owner", "by"} /\ t.ino[i].by \notin t.keygens
       /\ t.keypath # t.pubpath

VARIABLES
  profile,    \* which installation this is
  dirent,     \* paths -> inode
  ino,        \* inode -> [content, mode, owner, by]
  gen,        \* keygen runs
  faults      \* history: failures so far

fileVars == <<dirent, ino>>
keygenVars == <<fileVars, gen, faults>>

site == Profiles[profile]

\* A host key file: its key, and what is wrong with it.
Content(kind, of, fault) == [kind |-> kind, of |-> of, fault |-> fault]
Empty == Content("empty", "none", "armor")

Fresh(f) == 1 + Max(DOMAIN f \cup {0})
With(f, x, v) == [y \in DOMAIN f \cup {x} |-> IF y = x THEN v ELSE f[y]]
Without(f, x) == [y \in DOMAIN f \ {x} |-> f[y]]

Private == site.keypath
Public == site.pubpath

KeygenInit ==
  /\ dirent = site.dirent
  /\ ino = site.ino
  /\ gen = [r \in site.keygens |->
             [pc |-> "start", created |-> <<>>, inode |-> <<>>, left |-> <<>>]]
  /\ faults = 0

fault == faults < MaxFaults /\ faults' = faults + 1
-----------------------------------------------------------------------------
\* ancestor_violation: group- or world-writable.
ancestor_violation(mode) == "gw" \in mode

\* generate_host_key_with: one draw, a complete container.
generate_host_key(r) == Content("private", r, "none")

at(r, pc) == gen[r].pc = pc /\ UNCHANGED profile

goto(r, pc) == gen' = [gen EXCEPT ![r].pc = pc]

\* A failure is followed by the removal of what this run created.
fails(r) == goto(r, "remove") /\ UNCHANGED fileVars

\* Mutant: the directory is taken as it is.
directory_refused_never(dir) == FALSE

\* check_directory, on the directory and those above it.
directory_refused(dir) == \E d \in {dir, "/"} : ancestor_violation(site.dirs[d])

\* split, canonicalize, the open of the directory and check_directory.
keygen_opens(r) ==
  /\ at(r, "start")
  /\ \/ fault /\ fails(r)
     \/ directory_refused(Private[1]) /\ fails(r) /\ UNCHANGED faults
     \/ ~directory_refused(Private[1]) /\ goto(r, "private") /\ UNCHANGED <<fileVars, faults>>

\* Mutant: an existing file is opened and emptied.
create_replacing(r, path, mode, next) ==
  LET i == IF path \in DOMAIN dirent THEN dirent[path] ELSE Fresh(ino) IN
  /\ dirent' = With(dirent, path, i)
  /\ ino' = With(ino, i, [content |-> Empty, mode |-> mode \ site.umask, owner |-> "server", by |-> r])
  /\ gen' = [gen EXCEPT ![r].pc = next, ![r].created = Append(@, path), ![r].inode = Append(@, i)]
  /\ UNCHANGED faults

\* create: exclusive, with its mode from the first moment, and recorded.
create(r, path, mode, next) ==
  LET i == Fresh(ino) IN
  \/ fault /\ fails(r)
  \/ path \in DOMAIN dirent /\ fails(r) /\ UNCHANGED faults
  \/ /\ path \notin DOMAIN dirent
     /\ dirent' = With(dirent, path, i)
     /\ ino' = With(ino, i, [content |-> Empty, mode |-> mode \ site.umask, owner |-> "server", by |-> r])
     /\ gen' = [gen EXCEPT ![r].pc = next, ![r].created = Append(@, path), ![r].inode = Append(@, i)]
     /\ UNCHANGED faults

public_mode == {"gr"}

\* Mutant: the private file is narrowed by the fchmod only.
private_mode_late == public_mode

private_mode == {}

keygen_creates(r) ==
  \/ at(r, "private") /\ create(r, Private, private_mode, "public")
  \/ at(r, "public") /\ create(r, Public, public_mode, "chmod")

\* fchmod of both files undoes the umask.
keygen_chmods(r) ==
  /\ at(r, "chmod")
  /\ \/ fault /\ fails(r)
     \/ /\ ino' = [ino EXCEPT ![gen[r].inode[1]].mode = {}, ![gen[r].inode[2]].mode = public_mode]
        /\ goto(r, "generate") /\ UNCHANGED <<dirent, faults>>

keygen_generates(r) ==
  /\ at(r, "generate")
  /\ \/ fault /\ fails(r)
     \/ goto(r, "write private") /\ UNCHANGED <<fileVars, faults>>

\* write_synced: a write that fails may leave any part of the bytes.
write_synced(r, n, content, next) ==
  \/ /\ fault /\ goto(r, "remove") /\ dirent' = dirent
     /\ \E c \in {Empty, [content EXCEPT !.fault = "armor"], content} :
          ino' = [ino EXCEPT ![gen[r].inode[n]].content = c]
  \/ /\ ino' = [ino EXCEPT ![gen[r].inode[n]].content = content]
     /\ goto(r, next) /\ UNCHANGED <<dirent, faults>>

keygen_writes(r) ==
  \/ at(r, "write private") /\ write_synced(r, 1, generate_host_key(r), "write public")
  \/ at(r, "write public") /\ write_synced(r, 2, Content("public", r, "none"), "report")

\* The modes are read back, and success is told.
keygen_reports(r) ==
  /\ at(r, "report")
  /\ (fault /\ fails(r)) \/ (goto(r, "success") /\ UNCHANGED <<fileVars, faults>>)

\* Mutant: the removal stops at the first file that cannot be removed.
to_remove_until(r) == IF gen[r].left = <<>> THEN gen[r].created ELSE <<>>

to_remove(r) == gen[r].created

\* remove_created: each file this run created, by name; one that cannot be
\* removed is named in the error.
keygen_removes(r) ==
  LET path == Head(to_remove(r)) IN
  /\ at(r, "remove")
  /\ \/ to_remove(r) = <<>> /\ goto(r, "failed") /\ UNCHANGED <<fileVars, faults>>
     \/ /\ to_remove(r) # <<>> /\ fault
        /\ gen' = [gen EXCEPT ![r].created = Tail(@), ![r].left = Append(@, path)]
        /\ UNCHANGED fileVars
     \/ /\ to_remove(r) # <<>>
        /\ gen' = [gen EXCEPT ![r].created = Tail(@)]
        /\ dirent' = Without(dirent, path) /\ UNCHANGED <<ino, faults>>

keygen_killed(r) ==
  /\ gen[r].pc \notin {"success", "failed", "killed"}
  /\ fault /\ goto(r, "killed")
  /\ UNCHANGED <<profile, fileVars>>

\* The operator removes what a dead run left behind.
operator_cleans(r) ==
  /\ gen[r].pc \in {"failed", "killed"}
  /\ \E path \in DOMAIN dirent :
       ino[dirent[path]].by = r /\ dirent' = Without(dirent, path)
  /\ UNCHANGED <<profile, ino, gen, faults>>

keygen(r) ==
  keygen_opens(r) \/ keygen_creates(r) \/ keygen_chmods(r) \/ keygen_generates(r)
  \/ keygen_writes(r) \/ keygen_reports(r) \/ keygen_removes(r) \/ keygen_killed(r)
-----------------------------------------------------------------------------
(* Properties.                                                             *)

\* keygen never replaces, empties or removes a file that was there before, one
\* of a run at the same time included (create, remove_created).
NeverReplaces ==
  [][\A path \in DOMAIN dirent :
       LET i == dirent[path] IN
       \/ \E r \in site.keygens :
            ino[i].by = r /\ (gen'[r] # gen[r] \/ gen[r].pc \in {"failed", "killed"})
       \/ path \in DOMAIN dirent' /\ dirent'[path] = i /\ ino'[i] = ino[i]]_keygenVars

\* No file that may come to hold private-key bytes is ever readable by group
\* or world, from the moment it exists (write_pair).
PrivateNeverWide ==
  \A r \in site.keygens : \A i \in DOMAIN ino :
    ino[i].by = r /\ (ino[i].content.kind = "private" \/ (Private \in DOMAIN dirent /\ dirent[Private] = i))
      => ino[i].mode = {}

\* A run that says it failed leaves none of its files, except those its error
\* names (run, remove_created).
FailureLeavesNothing ==
  \A r \in site.keygens : gen[r].pc = "failed" =>
    \A path \in DOMAIN dirent : ino[dirent[path]].by = r => path \in Range(gen[r].left)

\* A run that says it succeeded left a complete pair of one key, whatever other
\* runs did meanwhile.
SuccessIsComplete ==
  \A r \in site.keygens : gen[r].pc = "success" =>
    /\ {Private, Public} \subseteq DOMAIN dirent
    /\ ino[dirent[Private]].content = Content("private", r, "none")
    /\ ino[dirent[Public]].content = Content("public", r, "none") /\ "gr" \in ino[dirent[Public]].mode
\* keygen leaves a complete pair or nothing of its own, never shows a private
\* key, and never touches what it did not create, with other runs on the same
\* path and failures between any two calls (write_pair, remove_created).
KeygenSafe ==
  [](PrivateNeverWide /\ FailureLeavesNothing /\ SuccessIsComplete) /\ NeverReplaces
=============================================================================
