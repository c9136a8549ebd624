---------------------------- MODULE StartupProofs ----------------------------
(* Theorems about Keygen and Startup, for all installations, numbers of      *)
(* keygen runs, faults, signals and configurations.                          *)
EXTENDS Startup, FiniteSetTheorems, SequenceTheorems, WellFoundedInduction, TLAPS

-----------------------------------------------------------------------------
(* The files and the keygen runs.                                            *)

K == site.keygens

Before == {"start", "private"}
Between == {"public"}
Pair == {"chmod", "generate", "write private", "write public", "report", "success"}
Dead == {"failed", "killed"}

\* What a run has created so far, by its place in the program.
Shape(g) ==
  /\ DOMAIN g = {"pc", "created", "inode", "left"}
  /\ g.pc \in Before \cup Between \cup Pair \cup Dead \cup {"remove"}
  /\ g.inode \in Seq(Nat) /\ Len(g.inode) \in 0..2
  /\ g.left \in Seq({Private, Public})
  /\ g.created \in {<<>>, <<Private>>, <<Public>>, <<Private, Public>>}
  /\ g.pc \in Before => Len(g.inode) = 0 /\ g.created = <<>>
  /\ g.pc \in Between => Len(g.inode) = 1 /\ g.created = <<Private>>
  /\ g.pc \in Pair => Len(g.inode) = 2 /\ g.created = <<Private, Public>>
  /\ g.pc = "failed" => g.created = <<>>

Runs ==
  /\ profile \in DOMAIN Profiles /\ faults \in 0..MaxFaults
  /\ DOMAIN gen = K /\ \A r \in K : Shape(gen[r])

\* Inodes are numbered without gaps, so that the next one is new.
Disk ==
  /\ \E n \in Nat : DOMAIN ino = 1..n
  /\ \A i \in DOMAIN ino : DOMAIN ino[i] = {"content", "mode", "owner", "by"}
  /\ \A path \in DOMAIN dirent : dirent[path] \in DOMAIN ino

ModesOf == << {}, {"gr"} >>
KindsOf == << {"empty", "private"}, {"empty", "public"} >>

\* The private file of a run is private from its first moment, the public one
\* never comes to hold a private key.
Own(r, n, i) ==
  /\ i \in DOMAIN ino /\ ino[i].by = r /\ ino[i].owner = "server"
  /\ ino[i].mode \subseteq ModesOf[n] /\ ino[i].content.kind \in KindsOf[n]

Mine ==
  \A r \in K :
    /\ \A n \in 1..Len(gen[r].inode) : Own(r, n, gen[r].inode[n])
    /\ \A n, k \in 1..Len(gen[r].inode) : gen[r].inode[n] = gen[r].inode[k] => n = k

\* A file that bears a run's mark is one of the two the run created, under the
\* name it created it with.
Marked ==
  \A i \in DOMAIN ino : \A r \in K : ino[i].by = r =>
    \E n \in 1..Len(gen[r].inode) : gen[r].inode[n] = i

NamesOf == <<Private, Public>>

Placed ==
  \A path \in DOMAIN dirent : \A r \in K : \A n \in 1..Len(gen[r].inode) :
    dirent[path] = gen[r].inode[n] => path = NamesOf[n]

\* What a run that is alive may remove is there, and its own.
Held ==
  \A r \in K : gen[r].pc \notin Dead =>
    \A path \in Range(gen[r].created) : path \in DOMAIN dirent /\ ino[dirent[path]].by = r

\* What a run leaves is what it has still to remove, or could not.
Left ==
  \A r \in K : gen[r].pc # "killed" =>
    \A path \in DOMAIN dirent :
      ino[dirent[path]].by = r => path \in Range(gen[r].created) \cup Range(gen[r].left)

\* What is in the pair, by the run's place in the program.
WrittenBy(r) ==
  /\ gen[r].pc \in {"write public", "report", "success"} =>
       ino[gen[r].inode[1]].content = Content("private", r, "none")
  /\ gen[r].pc \in {"report", "success"} =>
       ino[gen[r].inode[2]].content = Content("public", r, "none")
  /\ gen[r].pc \in Pair \ {"chmod"} => ino[gen[r].inode[2]].mode = public_mode

Written == \A r \in K : WrittenBy(r)

FilesInv == Runs /\ Disk /\ Mine /\ Marked /\ Placed /\ Held /\ Left /\ Written

LEMMA Ranges ==
  /\ Range(<<>>) = {} /\ Range(<<Private>>) = {Private} /\ Range(<<Public>>) = {Public}
  /\ Range(<<Private, Public>>) = {Private, Public}
<1>1. Range(<<>>) = {}
  BY DEF Range
<1>2. Range(<<Private>>) = {Private}
  <2>1. DOMAIN <<Private>> = {1} /\ <<Private>>[1] = Private
    OBVIOUS
  <2> QED
    BY <2>1 DEF Range
<1>3. Range(<<Public>>) = {Public}
  <2>1. DOMAIN <<Public>> = {1} /\ <<Public>>[1] = Public
    OBVIOUS
  <2> QED
    BY <2>1 DEF Range
<1>4. Range(<<Private, Public>>) = {Private, Public}
  <2>1. DOMAIN <<Private, Public>> = {1, 2} /\ <<Private, Public>>[1] = Private /\ <<Private, Public>>[2] = Public
    OBVIOUS
  <2> QED
    BY <2>1 DEF Range
<1> QED
  BY <1>1, <1>2, <1>3, <1>4

LEMMA Appends ==
  ASSUME NEW a, NEW b
  PROVE  Append(<<>>, a) = <<a>> /\ Append(<<a>>, b) = <<a, b>>
<1> DEFINE S == {a, b}
<1>1. Append(<<>>, a) = <<a>>
  <2> DEFINE p == Append(<<>>, a)
             q == <<a>>
  <2>1. <<>> \in Seq(S) /\ Len(<<>>) = 0 /\ a \in S
    OBVIOUS
  <2>2. p \in Seq(S) /\ Len(p) = 1 /\ p[1] = a
    BY <2>1
  <2>3. q \in Seq(S) /\ Len(q) = 1 /\ q[1] = a
    OBVIOUS
  <2> HIDE DEF p, q, S
  <2>4. p = q
    BY <2>2, <2>3, SeqEqual
  <2> QED
    BY <2>4 DEF p, q
<1>2. Append(<<a>>, b) = <<a, b>>
  <2> DEFINE o == <<a>>
             p == Append(o, b)
             q == <<a, b>>
  <2>1. o \in Seq(S) /\ Len(o) = 1 /\ o[1] = a /\ b \in S
    OBVIOUS
  <2>2. p \in Seq(S) /\ Len(p) = 2 /\ p[1] = a /\ p[2] = b
    <3> HIDE DEF o, S
    <3>1. /\ Append(o, b) \in Seq(S) /\ Len(Append(o, b)) = Len(o) + 1
          /\ \A i \in 1..Len(o) : Append(o, b)[i] = o[i]
          /\ Append(o, b)[Len(o) + 1] = b
      BY <2>1, AppendProperties, ZenonT(30)
    <3> QED
      BY <2>1, <3>1
  <2>3. q \in Seq(S) /\ Len(q) = 2 /\ q[1] = a /\ q[2] = b
    OBVIOUS
  <2> HIDE DEF p, q, S
  <2>4. p = q
    BY <2>2, <2>3, SeqEqual
  <2> QED
    BY <2>4 DEF p, q
<1> QED
  BY <1>1, <1>2

\* No file appears, disappears or changes hands, and no run rises from the dead.
SamePlaces ==
  /\ profile' = profile /\ dirent' = dirent /\ DOMAIN ino' = DOMAIN ino
  /\ \A i \in DOMAIN ino : DOMAIN ino'[i] = DOMAIN ino[i] /\ ino'[i].by = ino[i].by
  /\ \A r \in K :
       /\ gen'[r].created = gen[r].created /\ gen'[r].inode = gen[r].inode /\ gen'[r].left = gen[r].left
       /\ gen'[r].pc \notin Dead => gen[r].pc \notin Dead
       /\ gen'[r].pc # "killed" => gen[r].pc # "killed"

LEMMA PlacesKept ==
  ASSUME FilesInv, SamePlaces
  PROVE  Disk' /\ Marked' /\ Placed' /\ Held' /\ Left'
<1>1. K' = K /\ Private' = Private /\ Public' = Public /\ NamesOf' = NamesOf
  BY DEF SamePlaces, K, site, Private, Public, NamesOf
<1>2. Disk'
  BY DEF FilesInv, SamePlaces, Disk
<1>3. Marked'
  BY <1>1 DEF FilesInv, SamePlaces, Marked
<1>4. Placed'
  BY <1>1 DEF FilesInv, SamePlaces, Placed
<1>5. Held'
  BY <1>1 DEF FilesInv, SamePlaces, Held, Disk
<1>6. Left'
  BY <1>1 DEF FilesInv, SamePlaces, Left, Disk
<1> QED
  BY <1>2, <1>3, <1>4, <1>5, <1>6

\* What is not the run's own stays as it is, and what is new is its own.
Kept(r) ==
  /\ \A path \in DOMAIN dirent :
       \/ ino[dirent[path]].by = r /\ (gen'[r] # gen[r] \/ gen[r].pc \in Dead)
       \/ path \in DOMAIN dirent' /\ dirent'[path] = dirent[path] /\ ino'[dirent[path]] = ino[dirent[path]]
  /\ \A i \in DOMAIN ino : i \in DOMAIN ino' /\ (ino'[i] = ino[i] \/ (ino[i].by = r /\ ino'[i].by = r))
  /\ \A i \in DOMAIN ino' : i \in DOMAIN ino \/ ino'[i].by = r
  /\ \A path \in DOMAIN dirent' :
       \/ path \in DOMAIN dirent /\ dirent'[path] = dirent[path]
       \/ ino'[dirent'[path]].by = r

\* The run moves on and touches no file.
LEMMA Moves ==
  ASSUME FilesInv, NEW r \in K, NEW pc, goto(r, pc), UNCHANGED <<profile, fileVars>>,
         faults' \in 0..MaxFaults, gen[r].pc \notin Dead,
         \/ pc \in {"remove", "killed"}
         \/ pc = "failed" /\ gen[r].created = <<>>
         \/ pc = "private" /\ gen[r].pc = "start"
         \/ pc = "write private" /\ gen[r].pc = "generate"
         \/ pc = "success" /\ gen[r].pc = "report"
  PROVE  FilesInv' /\ Kept(r)
<1>1. K' = K /\ Private' = Private /\ Public' = Public /\ dirent' = dirent /\ ino' = ino
  BY DEF K, site, Private, Public, fileVars
<1>2. Shape(gen[r]) /\ r \in DOMAIN gen
  BY DEF FilesInv, Runs
<1>3. /\ DOMAIN gen' = K /\ \A q \in K : q # r => gen'[q] = gen[q]
      /\ DOMAIN gen'[r] = DOMAIN gen[r] /\ gen'[r].pc = pc /\ gen'[r].created = gen[r].created
      /\ gen'[r].inode = gen[r].inode /\ gen'[r].left = gen[r].left
  BY <1>2 DEF FilesInv, Runs, goto, Shape
<1>4. SamePlaces
  BY <1>1, <1>3 DEF SamePlaces, fileVars, Dead
<1>5. Runs'
  <2>1. Shape(gen[r])'
    BY <1>1, <1>2, <1>3 DEF Shape, Before, Between, Pair, Dead
  <2>2. ASSUME NEW q \in K, q # r PROVE Shape(gen[q])'
    BY <1>1, <1>3, <2>2, ZenonT(30) DEF FilesInv, Runs, Shape
  <2> QED
    BY <1>1, <1>3, <2>1, <2>2 DEF FilesInv, Runs
<1>6. Mine'
  <2>1. \A q \in K : gen'[q].inode = gen[q].inode
    BY <1>3
  <2>2. \A q, n, i : Own(q, n, i)' <=> Own(q, n, i)
    BY <1>1 DEF Own
  <2> QED
    BY <1>1, <2>1, <2>2 DEF FilesInv, Mine
<1>7. Written'
  <2>1. ASSUME NEW q \in K, q # r
        PROVE  /\ gen'[q].pc \in {"write public", "report", "success"} =>
                    ino[gen'[q].inode[1]].content = Content("private", q, "none")
               /\ gen'[q].pc \in {"report", "success"} =>
                    ino[gen'[q].inode[2]].content = Content("public", q, "none")
               /\ gen'[q].pc \in Pair \ {"chmod"} => ino[gen'[q].inode[2]].mode = public_mode
    <3>1. gen'[q] = gen[q]
      BY <1>3, <2>1
    <3> QED
      BY <3>1 DEF FilesInv, Written, WrittenBy
  <2>2. /\ gen'[r].pc \in {"write public", "report", "success"} =>
             ino[gen'[r].inode[1]].content = Content("private", r, "none")
        /\ gen'[r].pc \in {"report", "success"} =>
             ino[gen'[r].inode[2]].content = Content("public", r, "none")
        /\ gen'[r].pc \in Pair \ {"chmod"} => ino[gen'[r].inode[2]].mode = public_mode
    BY <1>3 DEF FilesInv, Written, WrittenBy, Pair
  <2> QED
    BY <1>1, <2>1, <2>2 DEF Written, WrittenBy
<1>8. Kept(r)
  BY <1>1 DEF Kept
<1> QED
  BY <1>4, <1>5, <1>6, <1>7, <1>8, PlacesKept DEF FilesInv

\* Nothing happens to files and runs.
LEMMA FilesUnchanged ==
  ASSUME FilesInv, UNCHANGED <<profile, keygenVars>>
  PROVE  FilesInv'
<1>1. K' = K /\ Private' = Private /\ Public' = Public /\ dirent' = dirent /\ ino' = ino /\ gen' = gen /\ faults' = faults
  BY DEF K, site, Private, Public, fileVars, keygenVars
<1>2. SamePlaces
  BY <1>1 DEF SamePlaces
<1>3. Runs'
  BY <1>1 DEF FilesInv, Runs, Shape
<1>4. Mine' /\ Written'
  <2>1. \A q, n, i : Own(q, n, i)' <=> Own(q, n, i)
    BY <1>1 DEF Own
  <2>2. \A q : WrittenBy(q)' <=> WrittenBy(q)
    BY <1>1 DEF WrittenBy
  <2> QED
    BY <1>1, <2>1, <2>2 DEF FilesInv, Mine, Written
<1> QED
  BY <1>2, <1>3, <1>4, PlacesKept DEF FilesInv

-----------------------------------------------------------------------------
(* A file is created.                                                        *)

LEMMA FreshIsNext ==
  ASSUME NEW f, NEW n \in Nat, DOMAIN f = 1..n
  PROVE  Fresh(f) = n + 1
<1> DEFINE S == DOMAIN f \cup {0}
<1>1. n \in S /\ \A y \in S : y \in Nat /\ n >= y
  OBVIOUS
<1>2. Max(S) \in S /\ \A y \in S : Max(S) >= y
  <2> HIDE DEF S
  <2> QED
    BY <1>1 DEF Max
<1>3. Max(S) = n
  <2> HIDE DEF S
  <2>1. Max(S) \in Nat /\ Max(S) >= n /\ n >= Max(S)
    BY <1>1, <1>2
  <2> QED
    BY <2>1
<1> QED
  BY <1>3 DEF Fresh

\* The n-th file of run r.
CreateStep(r, n, path, mode, next, i, file) ==
  /\ profile' = profile /\ faults' = faults
  /\ \/ n = 1 /\ gen[r].pc = "private" /\ next = "public" /\ path = Private
     \/ n = 2 /\ gen[r].pc = "public" /\ next = "chmod" /\ path = Public
  /\ mode \subseteq ModesOf[n]
  /\ path \notin DOMAIN dirent /\ i = Fresh(ino)
  /\ file = [content |-> Empty, mode |-> mode \ site.umask, owner |-> "server", by |-> r]
  /\ dirent' = With(dirent, path, i) /\ ino' = With(ino, i, file)
  /\ gen' = [gen EXCEPT ![r].pc = next, ![r].created = Append(@, path), ![r].inode = Append(@, i)]

LEMMA Creates ==
  ASSUME FilesInv, NEW r \in K, NEW n \in 1..2, NEW path, NEW mode, NEW next, NEW i, NEW file,
         CreateStep(r, n, path, mode, next, i, file)
  PROVE  FilesInv' /\ Kept(r)
<1>0. /\ profile' = profile /\ faults' = faults /\ path \notin DOMAIN dirent
      /\ \/ n = 1 /\ gen[r].pc = "private" /\ next = "public" /\ path = Private
         \/ n = 2 /\ gen[r].pc = "public" /\ next = "chmod" /\ path = Public
  BY DEF CreateStep
<1>a. /\ n = 1 => next = "public" /\ path = Private
      /\ n = 2 => next = "chmod" /\ path = Public
  BY <1>0
<1>1. K' = K /\ Private' = Private /\ Public' = Public /\ NamesOf' = NamesOf /\ Private # Public
  BY <1>0, KeygenAssumption DEF FilesInv, Runs, K, site, Private, Public, NamesOf
<1>2. Shape(gen[r]) /\ r \in DOMAIN gen
  BY DEF FilesInv, Runs
<1>3. /\ DOMAIN gen' = K /\ \A q \in K : q # r => gen'[q] = gen[q]
      /\ DOMAIN gen'[r] = DOMAIN gen[r] /\ gen'[r].pc = next /\ gen'[r].left = gen[r].left
      /\ gen'[r].created = Append(gen[r].created, path) /\ gen'[r].inode = Append(gen[r].inode, i)
  BY <1>2 DEF FilesInv, Runs, Shape, CreateStep
<1>4. PICK top \in Nat : DOMAIN ino = 1..top
  BY DEF FilesInv, Disk
<1>5. i = top + 1 /\ i \in Nat /\ i \notin DOMAIN ino /\ DOMAIN ino \subseteq Nat
  <2>1. i = top + 1
    BY <1>4, FreshIsNext DEF CreateStep
  <2> QED
    BY <1>4, <2>1
<1>6. DOMAIN ino' = DOMAIN ino \cup {i} /\ ino'[i] = file /\ \A j \in DOMAIN ino : ino'[j] = ino[j]
  <2>1. ino' = With(ino, i, file)
    BY DEF CreateStep
  <2> QED
    BY <1>5, <2>1 DEF With
<1>7. DOMAIN dirent' = DOMAIN dirent \cup {path} /\ dirent'[path] = i
      /\ \A x \in DOMAIN dirent : dirent'[x] = dirent[x] /\ x # path
  <2>1. dirent' = With(dirent, path, i)
    BY DEF CreateStep
  <2> QED
    BY <1>0, <2>1 DEF With
<1>8. /\ DOMAIN file = {"content", "mode", "owner", "by"} /\ file.by = r /\ file.owner = "server"
      /\ file.content.kind = "empty" /\ file.mode \subseteq ModesOf[n]
  <2>1. /\ file = [content |-> Empty, mode |-> mode \ site.umask, owner |-> "server", by |-> r]
        /\ mode \subseteq ModesOf[n]
    BY DEF CreateStep
  <2> QED
    BY <2>1 DEF Empty, Content
<1>9. /\ n = 1 => Len(gen[r].inode) = 0 /\ gen[r].created = <<>>
      /\ n = 2 => Len(gen[r].inode) = 1 /\ gen[r].created = <<Private>>
  BY <1>0, <1>2 DEF Shape, Before, Between
<1>10. gen[r].inode \in Seq(Nat) /\ Len(gen[r].inode) = n - 1
  <2>1. gen[r].inode \in Seq(Nat)
    BY <1>2 DEF Shape
  <2>2. Len(gen[r].inode) = n - 1
    <3>1. CASE n = 1
      BY <1>9, <3>1
    <3>2. CASE n = 2
      BY <1>9, <3>2
    <3> QED
      BY <3>1, <3>2
  <2> QED
    BY <2>1, <2>2
<1>11. /\ gen'[r].inode \in Seq(Nat) /\ Len(gen'[r].inode) = n /\ gen'[r].inode[n] = i
       /\ \A k \in 1..n - 1 : gen'[r].inode[k] = gen[r].inode[k]
  BY <1>3, <1>5, <1>10
<1>12. NamesOf[n] = path
  BY <1>0 DEF NamesOf
<1>13. /\ n = 1 => gen'[r].created = <<Private>>
       /\ n = 2 => gen'[r].created = <<Private, Public>>
  <2>1. CASE n = 1
    <3>1. gen'[r].created = Append(<<>>, Private)
      BY <1>a, <1>3, <1>9, <2>1
    <3> QED
      BY <2>1, <3>1, Appends
  <2>2. CASE n = 2
    <3>1. gen'[r].created = Append(<<Private>>, Public)
      BY <1>0, <1>3, <1>9, <2>2
    <3> QED
      BY <2>2, <3>1, Appends
  <2> QED
    BY <2>1, <2>2
<1>14. Range(gen'[r].created) = Range(gen[r].created) \cup {path}
  BY <1>0, <1>9, <1>13, Ranges
<1>15. KindsOf[n] \in {{"empty", "private"}, {"empty", "public"}}
  BY DEF KindsOf
<1> HIDE DEF K
<1>16. Runs'
  <2>1. Shape(gen[r])'
    <3>1. Len(gen'[r].inode) \in 0..2
      BY <1>11
    <3>2. gen'[r].created \in {<<Private>>, <<Private, Public>>}
      BY <1>0, <1>13
    <3>3. \/ gen'[r].pc = "public" /\ Len(gen'[r].inode) = 1 /\ gen'[r].created = <<Private>>
          \/ gen'[r].pc = "chmod" /\ Len(gen'[r].inode) = 2 /\ gen'[r].created = <<Private, Public>>
      <4>0. gen'[r].pc = next /\ Len(gen'[r].inode) = n
        BY <1>3, <1>11
      <4>1. CASE n = 1
        BY <1>a, <1>13, <4>0, <4>1
      <4>2. CASE n = 2
        BY <1>a, <1>13, <4>0, <4>2
      <4> QED
        BY <4>1, <4>2
    <3>4. /\ DOMAIN gen'[r] = {"pc", "created", "inode", "left"} /\ gen'[r].left \in Seq({Private, Public})
          /\ gen'[r].inode \in Seq(Nat)
      BY <1>2, <1>3, <1>11 DEF Shape
    <3> QED
      BY <1>1, <3>1, <3>2, <3>3, <3>4 DEF Shape, Before, Between, Pair, Dead
  <2>2. ASSUME NEW q \in K, q # r PROVE Shape(gen[q])'
    BY <1>1, <1>3, <2>2 DEF FilesInv, Runs, Shape
  <2> QED
    BY <1>0, <1>1, <1>3, <2>1, <2>2 DEF FilesInv, Runs
<1>17. Disk'
  <2>1. DOMAIN ino' = 1..top + 1 /\ top + 1 \in Nat
    BY <1>4, <1>5, <1>6
  <2>2. \A j \in DOMAIN ino' : DOMAIN ino'[j] = {"content", "mode", "owner", "by"}
    BY <1>6, <1>8 DEF FilesInv, Disk
  <2>3. \A x \in DOMAIN dirent' : dirent'[x] \in DOMAIN ino'
    BY <1>6, <1>7 DEF FilesInv, Disk
  <2> QED
    BY <2>1, <2>2, <2>3 DEF Disk
<1>18. \A q \in K, m \in Nat, j \in DOMAIN ino : Own(q, m, j) => Own(q, m, j)' /\ j # i
  BY <1>5, <1>6 DEF Own
<1>19. Own(r, n, i)'
  BY <1>6, <1>8, <1>15 DEF Own
<1>20. ASSUME NEW q \in K, NEW k \in 1..Len(gen[q].inode)
       PROVE  k \in Nat /\ gen[q].inode[k] \in DOMAIN ino /\ Own(q, k, gen[q].inode[k])
  BY DEF FilesInv, Mine, Own
<1>21. Mine'
  <2>1. ASSUME NEW q \in K, q # r
        PROVE  /\ \A k \in 1..Len(gen'[q].inode) : Own(q, k, gen[q].inode[k])'
               /\ \A l, k \in 1..Len(gen'[q].inode) : gen'[q].inode[l] = gen'[q].inode[k] => l = k
    <3>1. gen'[q] = gen[q]
      BY <1>3, <2>1
    <3>2. \A l, k \in 1..Len(gen[q].inode) : gen[q].inode[l] = gen[q].inode[k] => l = k
      BY DEF FilesInv, Mine
    <3>3. \A k \in 1..Len(gen[q].inode) : Own(q, k, gen[q].inode[k])'
      <4>1. SUFFICES ASSUME NEW k \in 1..Len(gen[q].inode) PROVE Own(q, k, gen[q].inode[k])'
        OBVIOUS
      <4>2. Own(q, k, gen[q].inode[k]) /\ gen[q].inode[k] \in DOMAIN ino
        BY <1>20
      <4> QED
        BY <1>6, <3>1, <4>2 DEF Own
    <3> QED
      BY <3>1, <3>2, <3>3
  <2>2. ASSUME NEW k \in 1..Len(gen'[r].inode) PROVE Own(r, k, gen[r].inode[k])'
    <3>1. CASE k = n
      BY <1>11, <1>19, <3>1 DEF Own
    <3>2. CASE k # n
      <4>1. k \in 1..n - 1 /\ k \in 1..Len(gen[r].inode)
        BY <1>10, <1>11, <3>2
      <4>2. Own(r, k, gen[r].inode[k]) /\ gen[r].inode[k] \in DOMAIN ino /\ gen'[r].inode[k] = gen[r].inode[k]
        BY <1>11, <1>20, <4>1
      <4> QED
        BY <1>6, <4>2 DEF Own
    <3> QED
      BY <3>1, <3>2
  <2>3. ASSUME NEW l \in 1..n, NEW k \in 1..n, gen'[r].inode[l] = gen'[r].inode[k] PROVE l = k
    <3>1. ASSUME NEW x \in 1..n - 1 PROVE gen'[r].inode[x] = gen[r].inode[x] /\ gen'[r].inode[x] # i
      <4>1. x \in 1..Len(gen[r].inode)
        BY <1>10
      <4> QED
        BY <1>5, <1>11, <1>20, <4>1
    <3>2. CASE l = n \/ k = n
      BY <1>11, <2>3, <3>1, <3>2
    <3>3. CASE l # n /\ k # n
      <4>1. l \in 1..n - 1 /\ k \in 1..n - 1 /\ l \in 1..Len(gen[r].inode) /\ k \in 1..Len(gen[r].inode)
        BY <1>10, <3>3
      <4>2. gen[r].inode[l] = gen[r].inode[k]
        BY <2>3, <3>1, <4>1
      <4> QED
        BY <4>1, <4>2 DEF FilesInv, Mine
    <3> QED
      BY <3>2, <3>3
  <2>4. \A l, k \in 1..Len(gen'[r].inode) : gen'[r].inode[l] = gen'[r].inode[k] => l = k
    BY <1>11, <2>3
  <2> QED
    BY <1>1, <2>1, <2>2, <2>4 DEF Mine
<1>22. Marked'
  <2>1. ASSUME NEW j \in DOMAIN ino', NEW q \in K, ino'[j].by = q
        PROVE  \E k \in 1..Len(gen'[q].inode) : gen'[q].inode[k] = j
    <3>1. CASE j = i
      <4>1. q = r
        BY <1>6, <1>8, <2>1, <3>1
      <4>2. n \in 1..Len(gen'[r].inode) /\ gen'[r].inode[n] = i
        BY <1>11
      <4> QED
        BY <3>1, <4>1, <4>2
    <3>2. CASE j # i
      <4>1. j \in DOMAIN ino /\ ino[j].by = q
        BY <1>6, <2>1, <3>2
      <4>2. PICK k \in 1..Len(gen[q].inode) : gen[q].inode[k] = j
        BY <4>1 DEF FilesInv, Marked
      <4>3. CASE q # r
        BY <1>3, <4>2, <4>3
      <4>4. CASE q = r
        <5>1. k \in 1..n - 1 /\ k \in 1..Len(gen'[r].inode)
          BY <1>10, <1>11, <4>2, <4>4
        <5> QED
          BY <1>11, <4>2, <4>4, <5>1
      <4> QED
        BY <4>3, <4>4
    <3> QED
      BY <3>1, <3>2
  <2> QED
    BY <1>1, <2>1 DEF Marked
<1>23. Placed'
  <2>1. ASSUME NEW x \in DOMAIN dirent', NEW q \in K, NEW k \in 1..Len(gen'[q].inode), dirent'[x] = gen'[q].inode[k]
        PROVE  x = NamesOf[k]
    <3>1. CASE q = r /\ k = n
      <4>1. dirent'[x] = i
        BY <1>11, <2>1, <3>1
      <4>2. x = path
        BY <1>5, <1>7, <4>1 DEF FilesInv, Disk
      <4> QED
        BY <1>12, <3>1, <4>2
    <3>2. CASE ~(q = r /\ k = n)
      <4>1. k \in 1..Len(gen[q].inode) /\ gen'[q].inode[k] = gen[q].inode[k]
        <5>1. CASE q # r
          BY <1>3, <5>1
        <5>2. CASE q = r
          <6>1. k \in 1..n - 1
            BY <1>11, <3>2, <5>2
          <6> QED
            BY <1>10, <1>11, <5>2, <6>1
        <5> QED
          BY <5>1, <5>2
      <4>2. gen[q].inode[k] \in DOMAIN ino
        BY <1>20, <4>1
      <4>3. x \in DOMAIN dirent /\ dirent[x] = gen[q].inode[k]
        BY <1>5, <1>7, <2>1, <4>1, <4>2
      <4> QED
        BY <4>1, <4>3 DEF FilesInv, Placed
    <3> QED
      BY <3>1, <3>2
  <2> QED
    BY <1>1, <2>1 DEF Placed
<1>24. Held'
  <2>1. ASSUME NEW q \in K, gen'[q].pc \notin Dead, NEW x \in Range(gen'[q].created)
        PROVE  x \in DOMAIN dirent' /\ ino'[dirent'[x]].by = q
    <3>1. CASE q = r /\ x = path
      BY <1>6, <1>7, <1>8, <3>1
    <3>2. CASE ~(q = r /\ x = path)
      <4>1. gen[q].pc \notin Dead /\ x \in Range(gen[q].created)
        <5>1. CASE q # r
          BY <1>3, <2>1, <5>1
        <5>2. CASE q = r
          <6>1. gen[r].pc \notin Dead
            BY <1>0 DEF Dead
          <6> QED
            BY <1>14, <2>1, <3>2, <5>2, <6>1
        <5> QED
          BY <5>1, <5>2
      <4>2. x \in DOMAIN dirent /\ ino[dirent[x]].by = q /\ dirent[x] \in DOMAIN ino
        BY <4>1 DEF FilesInv, Held, Disk
      <4> QED
        BY <1>6, <1>7, <4>2
    <3> QED
      BY <3>1, <3>2
  <2> QED
    BY <1>1, <2>1 DEF Held
<1>25. Left'
  <2>1. ASSUME NEW q \in K, gen'[q].pc # "killed", NEW x \in DOMAIN dirent', ino'[dirent'[x]].by = q
        PROVE  x \in Range(gen'[q].created) \cup Range(gen'[q].left)
    <3>1. CASE x = path
      <4>1. q = r
        BY <1>6, <1>7, <1>8, <2>1, <3>1
      <4> QED
        BY <1>14, <3>1, <4>1
    <3>2. CASE x # path
      <4>1. x \in DOMAIN dirent /\ dirent[x] \in DOMAIN ino /\ ino[dirent[x]].by = q
        BY <1>6, <1>7, <2>1, <3>2 DEF FilesInv, Disk
      <4>2. gen[q].pc # "killed"
        BY <1>0, <1>3, <2>1
      <4>3. x \in Range(gen[q].created) \cup Range(gen[q].left)
        BY <4>1, <4>2 DEF FilesInv, Left
      <4>4. Range(gen[q].created) \subseteq Range(gen'[q].created) /\ gen'[q].left = gen[q].left
        BY <1>3, <1>14
      <4> QED
        BY <4>3, <4>4
    <3> QED
      BY <3>1, <3>2
  <2> QED
    BY <1>1, <2>1 DEF Left
<1>26. Written'
  <2>1. ASSUME NEW q \in K, q # r
        PROVE  /\ gen'[q].pc \in {"write public", "report", "success"} =>
                    ino'[gen'[q].inode[1]].content = Content("private", q, "none")
               /\ gen'[q].pc \in {"report", "success"} =>
                    ino'[gen'[q].inode[2]].content = Content("public", q, "none")
               /\ gen'[q].pc \in Pair \ {"chmod"} => ino'[gen'[q].inode[2]].mode = public_mode
    <3>1. gen'[q] = gen[q]
      BY <1>3, <2>1
    <3>2. SUFFICES ASSUME gen[q].pc \in Pair
                   PROVE  ino'[gen[q].inode[1]] = ino[gen[q].inode[1]] /\ ino'[gen[q].inode[2]] = ino[gen[q].inode[2]]
      BY <3>1 DEF FilesInv, Written, WrittenBy, Pair
    <3>3. 1 \in 1..Len(gen[q].inode) /\ 2 \in 1..Len(gen[q].inode)
      <4>1. Len(gen[q].inode) = 2
        BY <3>2 DEF FilesInv, Runs, Shape
      <4> QED
        BY <4>1
    <3> QED
      BY <1>6, <1>20, <3>3
  <2>2. gen'[r].pc \notin Pair \ {"chmod"}
    BY <1>0, <1>3 DEF Pair
  <2> QED
    BY <1>1, <2>1, <2>2 DEF Written, WrittenBy, Pair
<1>27. Kept(r)
  BY <1>6, <1>7, <1>8 DEF FilesInv, Disk, Kept
<1> QED
  BY <1>16, <1>17, <1>21, <1>22, <1>23, <1>24, <1>25, <1>26, <1>27 DEF FilesInv

-----------------------------------------------------------------------------
(* A run writes to its pair.                                                 *)

\* Only the run's own inodes change, and not whose they are.
UpdateStep(r, pc) ==
  /\ goto(r, pc) /\ profile' = profile /\ dirent' = dirent /\ faults' \in 0..MaxFaults
  /\ DOMAIN ino' = DOMAIN ino
  /\ \A j \in DOMAIN ino :
       /\ DOMAIN ino'[j] = DOMAIN ino[j] /\ ino'[j].by = ino[j].by /\ ino'[j].owner = ino[j].owner
       /\ ino[j].by # r => ino'[j] = ino[j]

LEMMA Updates ==
  ASSUME FilesInv, NEW r \in K, NEW pc, UpdateStep(r, pc), gen[r].pc \in Pair, pc \in Pair \cup {"remove"},
         pc # gen[r].pc,
         \A n \in 1..2 : LET i == gen[r].inode[n] IN
           ino'[i].mode \subseteq ModesOf[n] /\ ino'[i].content.kind \in KindsOf[n],
         WrittenBy(r)'
  PROVE  FilesInv' /\ Kept(r)
<1>1. K' = K /\ Private' = Private /\ Public' = Public /\ dirent' = dirent
  BY DEF K, site, Private, Public, UpdateStep
<1>2. Shape(gen[r]) /\ r \in DOMAIN gen
  BY DEF FilesInv, Runs
<1>3. /\ DOMAIN gen' = K /\ \A q \in K : q # r => gen'[q] = gen[q]
      /\ DOMAIN gen'[r] = DOMAIN gen[r] /\ gen'[r].pc = pc /\ gen'[r].created = gen[r].created
      /\ gen'[r].inode = gen[r].inode /\ gen'[r].left = gen[r].left
  BY <1>2 DEF FilesInv, Runs, goto, Shape, UpdateStep
<1>4. SamePlaces
  BY <1>1, <1>3 DEF SamePlaces, UpdateStep, Dead, Pair
<1>5. Runs'
  <2>1. Shape(gen[r])'
    BY <1>1, <1>2, <1>3 DEF Shape, Before, Between, Pair, Dead
  <2>2. ASSUME NEW q \in K, q # r PROVE Shape(gen[q])'
    BY <1>1, <1>3, <2>2 DEF FilesInv, Runs, Shape
  <2> QED
    BY <1>1, <1>3, <2>1, <2>2 DEF FilesInv, Runs, UpdateStep
<1>6. \A q \in K : gen'[q].inode = gen[q].inode
  BY <1>3
<1>7. ASSUME NEW q \in K, NEW n \in 1..Len(gen[q].inode)
      PROVE  /\ gen[q].inode[n] \in DOMAIN ino /\ ino[gen[q].inode[n]].by = q
             /\ ino[gen[q].inode[n]].owner = "server" /\ Own(q, n, gen[q].inode[n])
  BY DEF FilesInv, Mine, Own
<1>8. ASSUME NEW q \in K, q # r, NEW n \in 1..Len(gen[q].inode)
      PROVE  ino'[gen[q].inode[n]] = ino[gen[q].inode[n]]
  BY <1>7, <1>8 DEF UpdateStep
<1>9. Mine'
  <2>1. ASSUME NEW q \in K, NEW n \in 1..Len(gen[q].inode) PROVE Own(q, n, gen[q].inode[n])'
    <3>0. gen'[q].inode = gen[q].inode
      BY <1>6
    <3>1. CASE q # r
      <4>1. ino'[gen[q].inode[n]] = ino[gen[q].inode[n]] /\ DOMAIN ino' = DOMAIN ino
        BY <1>8, <3>1 DEF UpdateStep
      <4>2. Own(q, n, gen[q].inode[n])
        BY <1>7
      <4> QED
        BY <3>0, <4>1, <4>2, Zenon DEF Own
    <3>2. CASE q = r
      <4>1. n \in 1..2
        BY <1>2, <3>2 DEF Shape
      <4>2. LET i == gen[r].inode[n] IN ino'[i].mode \subseteq ModesOf[n] /\ ino'[i].content.kind \in KindsOf[n]
        BY <4>1
      <4>3. LET i == gen[r].inode[n] IN i \in DOMAIN ino' /\ ino'[i].by = r /\ ino'[i].owner = "server"
        BY <1>7, <3>2 DEF UpdateStep
      <4> QED
        BY <3>0, <3>2, <4>2, <4>3 DEF Own
    <3> QED
      BY <3>1, <3>2
  <2>2. \A q \in K : \A n, k \in 1..Len(gen[q].inode) : gen[q].inode[n] = gen[q].inode[k] => n = k
    BY DEF FilesInv, Mine
  <2> QED
    BY <1>1, <1>6, <2>1, <2>2 DEF Mine
<1>10. Written'
  <2>1. ASSUME NEW q \in K, q # r PROVE WrittenBy(q)'
    <3>1. gen'[q] = gen[q]
      BY <1>3, <2>1
    <3>2. SUFFICES ASSUME gen[q].pc \in Pair
                   PROVE  ino'[gen[q].inode[1]] = ino[gen[q].inode[1]] /\ ino'[gen[q].inode[2]] = ino[gen[q].inode[2]]
      BY <3>1 DEF FilesInv, Written, WrittenBy, Pair
    <3>3. 1 \in 1..Len(gen[q].inode) /\ 2 \in 1..Len(gen[q].inode)
      <4>1. Len(gen[q].inode) = 2
        BY <3>2 DEF FilesInv, Runs, Shape
      <4> QED
        BY <4>1
    <3> QED
      BY <1>8, <2>1, <3>3
  <2> QED
    BY <1>1, <2>1 DEF Written, WrittenBy
<1>11. Kept(r)
  <2>1. \A path \in DOMAIN dirent : dirent[path] \in DOMAIN ino
    BY DEF FilesInv, Disk
  <2>2. gen'[r] # gen[r]
    BY <1>3
  <2> QED
    BY <1>1, <2>1, <2>2 DEF Kept, UpdateStep
<1> QED
  BY <1>4, <1>5, <1>9, <1>10, <1>11, PlacesKept DEF FilesInv

\* The inodes of a run that has its pair.
LEMMA PairOf ==
  ASSUME FilesInv, NEW r \in K, gen[r].pc \in Pair
  PROVE  LET a == gen[r].inode[1]
             b == gen[r].inode[2]
         IN  /\ a \in DOMAIN ino /\ b \in DOMAIN ino /\ a # b
             /\ ino[a].by = r /\ ino[b].by = r
             /\ DOMAIN ino[a] = {"content", "mode", "owner", "by"} /\ DOMAIN ino[b] = DOMAIN ino[a]
             /\ ino[a].mode = {} /\ ino[a].content.kind \in {"empty", "private"}
             /\ ino[b].mode \subseteq {"gr"} /\ ino[b].content.kind \in {"empty", "public"}
<1>1. Len(gen[r].inode) = 2
  BY DEF FilesInv, Runs, Shape
<1>2. 1 \in 1..Len(gen[r].inode) /\ 2 \in 1..Len(gen[r].inode) /\ 1 # 2
  BY <1>1
<1>3. Own(r, 1, gen[r].inode[1]) /\ Own(r, 2, gen[r].inode[2]) /\ gen[r].inode[1] # gen[r].inode[2]
  BY <1>2 DEF FilesInv, Mine
<1>4. ModesOf[1] = {} /\ ModesOf[2] = {"gr"} /\ KindsOf[1] = {"empty", "private"} /\ KindsOf[2] = {"empty", "public"}
  BY DEF ModesOf, KindsOf
<1>5. \A i \in DOMAIN ino : DOMAIN ino[i] = {"content", "mode", "owner", "by"}
  BY DEF FilesInv, Disk
<1> QED
  BY <1>3, <1>4, <1>5 DEF Own

LEMMA FaultCounted ==
  ASSUME FilesInv, fault \/ faults' = faults
  PROVE  faults' \in 0..MaxFaults
<1>1. faults \in 0..MaxFaults /\ MaxFaults \in Nat
  BY KeygenAssumption DEF FilesInv, Runs
<1> QED
  BY <1>1 DEF fault

LEMMA Chmods ==
  ASSUME FilesInv, NEW r \in K, keygen_chmods(r)
  PROVE  FilesInv' /\ Kept(r)
<1> DEFINE a == gen[r].inode[1]
           b == gen[r].inode[2]
<1>1. gen[r].pc = "chmod" /\ profile' = profile
  BY DEF keygen_chmods, at
<1>2. CASE fault /\ fails(r)
  <2>1. gen[r].pc \notin Dead
    BY <1>1 DEF Dead
  <2> QED
    BY <1>1, <1>2, <2>1, FaultCounted, Moves DEF fails, fileVars
<1>3. CASE /\ ino' = [ino EXCEPT ![a].mode = {}, ![b].mode = public_mode]
           /\ goto(r, "generate") /\ UNCHANGED <<dirent, faults>>
  <2>1. gen[r].pc \in Pair
    BY <1>1 DEF Pair
  <2>2. /\ a \in DOMAIN ino /\ b \in DOMAIN ino /\ a # b /\ ino[a].by = r /\ ino[b].by = r
        /\ DOMAIN ino[a] = {"content", "mode", "owner", "by"} /\ DOMAIN ino[b] = DOMAIN ino[a]
        /\ ino[a].content.kind \in {"empty", "private"} /\ ino[b].content.kind \in {"empty", "public"}
    BY <2>1, PairOf
  <2>3. /\ ino' = [ino EXCEPT ![a].mode = {}, ![b].mode = public_mode]
        /\ a = gen[r].inode[1] /\ b = gen[r].inode[2]
    BY <1>3
  <2> HIDE DEF a, b
  <2>4. /\ DOMAIN ino' = DOMAIN ino
        /\ ino'[a] = [ino[a] EXCEPT !.mode = {}] /\ ino'[b] = [ino[b] EXCEPT !.mode = public_mode]
        /\ \A j \in DOMAIN ino : j # a /\ j # b => ino'[j] = ino[j]
    BY <2>2, <2>3
  <2>5. /\ DOMAIN ino'[a] = DOMAIN ino[a] /\ ino'[a].mode = {} /\ ino'[a].by = r
        /\ ino'[a].owner = ino[a].owner /\ ino'[a].content = ino[a].content
        /\ DOMAIN ino'[b] = DOMAIN ino[b] /\ ino'[b].mode = public_mode /\ ino'[b].by = r
        /\ ino'[b].owner = ino[b].owner /\ ino'[b].content = ino[b].content
    BY <2>2, <2>4
  <2>6. UpdateStep(r, "generate")
    <3>1. faults' \in 0..MaxFaults
      BY <1>3, FaultCounted
    <3>2. \A j \in DOMAIN ino :
            /\ DOMAIN ino'[j] = DOMAIN ino[j] /\ ino'[j].by = ino[j].by /\ ino'[j].owner = ino[j].owner
            /\ ino[j].by # r => ino'[j] = ino[j]
      BY <2>2, <2>4, <2>5
    <3> QED
      BY <1>1, <1>3, <2>4, <3>1, <3>2 DEF UpdateStep
  <2>7. \A n \in 1..2 : LET i == gen[r].inode[n] IN
          ino'[i].mode \subseteq ModesOf[n] /\ ino'[i].content.kind \in KindsOf[n]
    <3>1. ModesOf[1] = {} /\ ModesOf[2] = {"gr"} /\ KindsOf[1] = {"empty", "private"} /\ KindsOf[2] = {"empty", "public"}
      BY DEF ModesOf, KindsOf
    <3>2. \A n \in 1..2 : n = 1 \/ n = 2
      OBVIOUS
    <3> QED
      BY <2>2, <2>3, <2>5, <3>1, <3>2 DEF public_mode
  <2>8. gen'[r].pc = "generate" /\ gen'[r].inode = gen[r].inode
    BY <1>3 DEF FilesInv, Runs, Shape, goto
  <2>9. WrittenBy(r)'
    BY <2>3, <2>5, <2>8 DEF WrittenBy
  <2>10. gen[r].pc # "generate" /\ "generate" \in Pair \cup {"remove"}
    BY <1>1 DEF Pair
  <2> QED
    BY <2>1, <2>6, <2>7, <2>9, <2>10, Updates
<1> QED
  BY <1>2, <1>3 DEF keygen_chmods

\* The n-th file of the pair takes a content of its kind.
WriteWhat(r, n, c, pc) ==
  /\ n = 1 => /\ gen[r].pc = "write private" /\ c.kind \in {"empty", "private"}
              /\ pc = "remove" \/ (pc = "write public" /\ c = Content("private", r, "none"))
  /\ n = 2 => /\ gen[r].pc = "write public" /\ c.kind \in {"empty", "public"}
              /\ pc = "remove" \/ (pc = "report" /\ c = Content("public", r, "none"))

WriteStep(r, n, c, pc) ==
  /\ WriteWhat(r, n, c, pc)
  /\ profile' = profile /\ dirent' = dirent /\ goto(r, pc)
  /\ fault \/ faults' = faults
  /\ ino' = [ino EXCEPT ![gen[r].inode[n]].content = c]

LEMMA Writes ==
  ASSUME FilesInv, NEW r \in K, NEW n \in {1, 2}, NEW c, NEW pc, WriteStep(r, n, c, pc)
  PROVE  FilesInv' /\ Kept(r)
<1> DEFINE a == gen[r].inode[1]
           b == gen[r].inode[2]
           i == gen[r].inode[n]
<1>0. /\ n = 1 => /\ gen[r].pc = "write private" /\ c.kind \in {"empty", "private"}
                  /\ pc = "remove" \/ (pc = "write public" /\ c = Content("private", r, "none"))
      /\ n = 2 => /\ gen[r].pc = "write public" /\ c.kind \in {"empty", "public"}
                  /\ pc = "remove" \/ (pc = "report" /\ c = Content("public", r, "none"))
  BY DEF WriteStep, WriteWhat
<1>1. gen[r].pc \in Pair \ {"chmod"} /\ gen[r].pc \in Pair /\ pc \in Pair \cup {"remove"}
  BY <1>0 DEF Pair
<1>2. /\ a \in DOMAIN ino /\ b \in DOMAIN ino /\ a # b /\ ino[a].by = r /\ ino[b].by = r
      /\ DOMAIN ino[a] = {"content", "mode", "owner", "by"} /\ DOMAIN ino[b] = DOMAIN ino[a]
      /\ ino[a].mode = {} /\ ino[a].content.kind \in {"empty", "private"} 
      /\ ino[b].content.kind \in {"empty", "public"}
  BY <1>1, PairOf
<1>3. goto(r, pc) /\ ino' = [ino EXCEPT ![i].content = c] /\ (fault \/ faults' = faults)
      /\ profile' = profile /\ dirent' = dirent
  BY DEF WriteStep
<1>4. gen'[r].pc = pc /\ gen'[r].inode = gen[r].inode
  BY <1>3 DEF FilesInv, Runs, Shape, goto
<1>5. /\ gen[r].pc = "write public" => ino[a].content = Content("private", r, "none")
      /\ ino[b].mode = public_mode
  BY <1>1 DEF FilesInv, Written, WrittenBy
<1>6. /\ n = 1 => i = a
      /\ n = 2 => i = b
      /\ a = gen[r].inode[1] /\ b = gen[r].inode[2]
  OBVIOUS
<1> HIDE DEF a, b, i
<1>7. i \in DOMAIN ino /\ ino[i].by = r /\ DOMAIN ino[i] = {"content", "mode", "owner", "by"}
  BY <1>2, <1>6
<1>8. /\ DOMAIN ino' = DOMAIN ino /\ \A j \in DOMAIN ino : j # i => ino'[j] = ino[j]
      /\ DOMAIN ino'[i] = DOMAIN ino[i] /\ ino'[i].mode = ino[i].mode /\ ino'[i].by = ino[i].by
      /\ ino'[i].owner = ino[i].owner /\ ino'[i].content = c
  BY <1>3, <1>7
<1>9. UpdateStep(r, pc)
  <2>1. faults' \in 0..MaxFaults
    BY <1>3, FaultCounted
  <2>2. \A j \in DOMAIN ino :
          /\ DOMAIN ino'[j] = DOMAIN ino[j] /\ ino'[j].by = ino[j].by /\ ino'[j].owner = ino[j].owner
          /\ ino[j].by # r => ino'[j] = ino[j]
    BY <1>7, <1>8
  <2> QED
    BY <1>3, <1>8, <2>1, <2>2 DEF UpdateStep
<1>10. /\ ino'[a].mode = {} /\ ino'[b].mode = public_mode
       /\ ino'[a].content.kind \in {"empty", "private"} /\ ino'[b].content.kind \in {"empty", "public"}
       /\ \/ pc = "remove"
          \/ pc = "write public" /\ ino'[a].content = Content("private", r, "none")
          \/ pc = "report" /\ ino'[a].content = Content("private", r, "none")
                           /\ ino'[b].content = Content("public", r, "none")
  <2>1. CASE n = 1
    <3>1. ino'[a].mode = {} /\ ino'[a].content = c /\ ino'[b] = ino[b]
      BY <1>2, <1>6, <1>8, <2>1
    <3> QED
      BY <1>0, <1>2, <1>5, <2>1, <3>1
  <2>2. CASE n = 2
    <3>1. ino'[b].mode = ino[b].mode /\ ino'[b].content = c /\ ino'[a] = ino[a]
      BY <1>2, <1>6, <1>8, <2>2
    <3> QED
      BY <1>0, <1>2, <1>5, <2>2, <3>1
  <2> QED
    BY <2>1, <2>2
<1>11. \A m \in 1..2 : LET x == gen[r].inode[m] IN
         ino'[x].mode \subseteq ModesOf[m] /\ ino'[x].content.kind \in KindsOf[m]
  <2>1. ModesOf[1] = {} /\ ModesOf[2] = {"gr"} /\ KindsOf[1] = {"empty", "private"} /\ KindsOf[2] = {"empty", "public"}
    BY DEF ModesOf, KindsOf
  <2>2. \A m \in 1..2 : m = 1 \/ m = 2
    OBVIOUS
  <2> QED
    BY <1>6, <1>10, <2>1, <2>2 DEF public_mode
<1>12. WrittenBy(r)'
  BY <1>4, <1>6, <1>10 DEF WrittenBy, Pair
<1>13. pc # gen[r].pc
  <2>1. CASE n = 1
    BY <1>0, <2>1
  <2>2. CASE n = 2
    BY <1>0, <2>2
  <2> QED
    BY <2>1, <2>2
<1> QED
  BY <1>1, <1>9, <1>11, <1>12, <1>13, Updates

LEMMA KeygenWrites ==
  ASSUME FilesInv, NEW r \in K, keygen_writes(r)
  PROVE  FilesInv' /\ Kept(r)
<1>0. Empty.kind = "empty"
  BY DEF Empty, Content
<1>n. 1 # 2
  OBVIOUS
<1>1. ASSUME NEW kind, NEW c \in {Empty, [Content(kind, r, "none") EXCEPT !.fault = "armor"], Content(kind, r, "none")}
      PROVE  c.kind \in {"empty", kind}
  BY <1>0, <1>1 DEF Content
<1>2. CASE at(r, "write private") /\ write_synced(r, 1, generate_host_key(r), "write public")
  <2> DEFINE w == Content("private", r, "none")
  <2>1. gen[r].pc = "write private" /\ profile' = profile
    BY <1>2 DEF at
  <2>2. w.kind = "private"
    BY DEF Content
  <2>3. \/ /\ fault /\ goto(r, "remove") /\ dirent' = dirent
           /\ \E c \in {Empty, [w EXCEPT !.fault = "armor"], w} : ino' = [ino EXCEPT ![gen[r].inode[1]].content = c]
        \/ /\ ino' = [ino EXCEPT ![gen[r].inode[1]].content = w]
           /\ goto(r, "write public") /\ UNCHANGED <<dirent, faults>>
    BY <1>2 DEF write_synced, generate_host_key
  <2>4. CASE /\ fault /\ goto(r, "remove") /\ dirent' = dirent
             /\ \E c \in {Empty, [w EXCEPT !.fault = "armor"], w} : ino' = [ino EXCEPT ![gen[r].inode[1]].content = c]
    <3>1. PICK c \in {Empty, [w EXCEPT !.fault = "armor"], w} : ino' = [ino EXCEPT ![gen[r].inode[1]].content = c]
      BY <2>4
    <3>2. c.kind \in {"empty", "private"}
      BY <1>1
    <3>3. WriteWhat(r, 1, c, "remove")
      BY <1>n, <2>1, <3>2, Zenon DEF WriteWhat
    <3>4. WriteStep(r, 1, c, "remove")
      BY <2>1, <2>4, <3>1, <3>3 DEF WriteStep
    <3> QED
      BY <3>4, Writes
  <2>5. CASE /\ ino' = [ino EXCEPT ![gen[r].inode[1]].content = w]
             /\ goto(r, "write public") /\ UNCHANGED <<dirent, faults>>
    <3>1. WriteWhat(r, 1, w, "write public")
      BY <1>n, <2>1, <2>2, Zenon DEF WriteWhat
    <3>2. WriteStep(r, 1, w, "write public")
      BY <2>1, <2>5, <3>1 DEF WriteStep
    <3> QED
      BY <3>2, Writes
  <2> QED
    BY <2>3, <2>4, <2>5
<1>3. CASE at(r, "write public") /\ write_synced(r, 2, Content("public", r, "none"), "report")
  <2> DEFINE w == Content("public", r, "none")
  <2>1. gen[r].pc = "write public" /\ profile' = profile
    BY <1>3 DEF at
  <2>2. w.kind = "public"
    BY DEF Content
  <2>3. \/ /\ fault /\ goto(r, "remove") /\ dirent' = dirent
           /\ \E c \in {Empty, [w EXCEPT !.fault = "armor"], w} : ino' = [ino EXCEPT ![gen[r].inode[2]].content = c]
        \/ /\ ino' = [ino EXCEPT ![gen[r].inode[2]].content = w]
           /\ goto(r, "report") /\ UNCHANGED <<dirent, faults>>
    BY <1>3 DEF write_synced
  <2>4. CASE /\ fault /\ goto(r, "remove") /\ dirent' = dirent
             /\ \E c \in {Empty, [w EXCEPT !.fault = "armor"], w} : ino' = [ino EXCEPT ![gen[r].inode[2]].content = c]
    <3>1. PICK c \in {Empty, [w EXCEPT !.fault = "armor"], w} : ino' = [ino EXCEPT ![gen[r].inode[2]].content = c]
      BY <2>4
    <3>2. c.kind \in {"empty", "public"}
      BY <1>1
    <3>3. WriteWhat(r, 2, c, "remove")
      BY <1>n, <2>1, <3>2, Zenon DEF WriteWhat
    <3>4. WriteStep(r, 2, c, "remove")
      BY <2>1, <2>4, <3>1, <3>3 DEF WriteStep
    <3> QED
      BY <3>4, Writes
  <2>5. CASE /\ ino' = [ino EXCEPT ![gen[r].inode[2]].content = w]
             /\ goto(r, "report") /\ UNCHANGED <<dirent, faults>>
    <3>1. WriteWhat(r, 2, w, "report")
      BY <1>n, <2>1, <2>2, Zenon DEF WriteWhat
    <3>2. WriteStep(r, 2, w, "report")
      BY <2>1, <2>5, <3>1 DEF WriteStep
    <3> QED
      BY <3>2, Writes
  <2> QED
    BY <2>3, <2>4, <2>5
<1> QED
  BY <1>2, <1>3 DEF keygen_writes

-----------------------------------------------------------------------------
(* Names are removed.                                                        *)

\* Only names of run r go, and the run knows what it has still to remove.
ShrinkStep(r) ==
  /\ profile' = profile /\ ino' = ino /\ faults' \in 0..MaxFaults /\ DOMAIN gen' = K
  /\ \A q \in K : gen'[q].inode = gen[q].inode /\ gen'[q].pc = gen[q].pc /\ (q # r => gen'[q] = gen[q])
  /\ gen[r].pc \in {"remove"} \cup Dead /\ Shape(gen[r])'
  /\ DOMAIN dirent' \subseteq DOMAIN dirent
  /\ \A x \in DOMAIN dirent' : dirent'[x] = dirent[x]
  /\ \A x \in DOMAIN dirent \ DOMAIN dirent' : ino[dirent[x]].by = r
  /\ gen[r].pc \notin Dead => gen'[r] # gen[r]
  /\ gen[r].pc \notin Dead =>
       \A x \in Range(gen'[r].created) : x \in Range(gen[r].created) /\ (x \in DOMAIN dirent => x \in DOMAIN dirent')
  /\ \A x \in DOMAIN dirent' :
       x \in Range(gen[r].created) \cup Range(gen[r].left) => x \in Range(gen'[r].created) \cup Range(gen'[r].left)

LEMMA Shrinks ==
  ASSUME FilesInv, NEW r \in K, ShrinkStep(r)
  PROVE  FilesInv' /\ Kept(r)
<1>1. K' = K /\ Private' = Private /\ Public' = Public /\ NamesOf' = NamesOf /\ ino' = ino
  BY DEF ShrinkStep, K, site, Private, Public, NamesOf
<1>2. \A q \in K : gen'[q].inode = gen[q].inode /\ gen'[q].pc = gen[q].pc /\ (q # r => gen'[q] = gen[q])
  BY DEF ShrinkStep
<1>3. DOMAIN dirent' \subseteq DOMAIN dirent /\ \A x \in DOMAIN dirent' : dirent'[x] = dirent[x]
  BY DEF ShrinkStep
<1>4. Runs'
  <2>1. ASSUME NEW q \in K, q # r PROVE Shape(gen[q])'
    BY <1>1, <1>2, <2>1 DEF FilesInv, Runs, Shape
  <2>2. Shape(gen[r])' /\ DOMAIN gen' = K /\ faults' \in 0..MaxFaults /\ profile' = profile
    BY DEF ShrinkStep
  <2> QED
    BY <1>1, <2>1, <2>2 DEF FilesInv, Runs
<1>5. Disk'
  BY <1>1, <1>3 DEF FilesInv, Disk
<1>6. Mine'
  <2>1. \A q, n, i : Own(q, n, i)' <=> Own(q, n, i)
    BY <1>1 DEF Own
  <2> QED
    BY <1>1, <1>2, <2>1 DEF FilesInv, Mine
<1>7. Marked'
  BY <1>1, <1>2 DEF FilesInv, Marked
<1>8. Placed'
  BY <1>1, <1>2, <1>3 DEF FilesInv, Placed
<1>9. Held'
  <2>1. ASSUME NEW q \in K, gen'[q].pc \notin Dead, NEW x \in Range(gen'[q].created)
        PROVE  x \in DOMAIN dirent' /\ ino'[dirent'[x]].by = q
    <3>1. gen[q].pc \notin Dead
      BY <1>2, <2>1
    <3>2. x \in Range(gen[q].created)
      BY <1>2, <2>1, <3>1 DEF ShrinkStep
    <3>3. x \in DOMAIN dirent /\ ino[dirent[x]].by = q
      BY <3>1, <3>2 DEF FilesInv, Held
    <3>4. x \in DOMAIN dirent'
      BY <2>1, <3>1, <3>3 DEF ShrinkStep
    <3> QED
      BY <1>1, <1>3, <3>3, <3>4
  <2> QED
    BY <1>1, <2>1 DEF Held
<1>10. Left'
  <2>1. ASSUME NEW q \in K, gen'[q].pc # "killed", NEW x \in DOMAIN dirent', ino'[dirent'[x]].by = q
        PROVE  x \in Range(gen'[q].created) \cup Range(gen'[q].left)
    <3>1. gen[q].pc # "killed" /\ x \in DOMAIN dirent /\ ino[dirent[x]].by = q
      BY <1>1, <1>2, <1>3, <2>1
    <3>2. x \in Range(gen[q].created) \cup Range(gen[q].left)
      BY <3>1 DEF FilesInv, Left
    <3> QED
      BY <1>2, <2>1, <3>2 DEF ShrinkStep
  <2> QED
    BY <1>1, <2>1 DEF Left
<1>11. Written'
  <2>1. \A q \in K : WrittenBy(q)' <=> WrittenBy(q)
    BY <1>1, <1>2 DEF WrittenBy
  <2> QED
    BY <1>1, <2>1 DEF FilesInv, Written
<1>12. Kept(r)
  BY <1>1, <1>3 DEF Kept, ShrinkStep
<1> QED
  BY <1>4, <1>5, <1>6, <1>7, <1>8, <1>9, <1>10, <1>11, <1>12 DEF FilesInv

LEMMA OperatorCleans ==
  ASSUME FilesInv, NEW r \in K, operator_cleans(r)
  PROVE  FilesInv' /\ Kept(r)
<1>1. gen[r].pc \in Dead /\ UNCHANGED <<profile, ino, gen, faults>>
  BY DEF operator_cleans, Dead
<1>2. PICK path \in DOMAIN dirent : ino[dirent[path]].by = r /\ dirent' = Without(dirent, path)
  BY DEF operator_cleans
<1>3. /\ DOMAIN dirent' = DOMAIN dirent \ {path}
      /\ \A x \in DOMAIN dirent' : dirent'[x] = dirent[x]
  BY <1>2 DEF Without
<1>4. K' = K /\ Private' = Private /\ Public' = Public
  BY <1>1 DEF K, site, Private, Public
<1>5. Shape(gen[r])'
  BY <1>1, <1>4 DEF FilesInv, Runs, Shape
<1>6. faults' \in 0..MaxFaults /\ DOMAIN gen' = K
  BY <1>1 DEF FilesInv, Runs
<1>7. ShrinkStep(r)
  BY <1>1, <1>2, <1>3, <1>5, <1>6 DEF ShrinkStep
<1> QED
  BY <1>7, Shrinks

LEMMA Tails ==
  ASSUME NEW a, NEW b
  PROVE  /\ Head(<<a>>) = a /\ Tail(<<a>>) = <<>>
         /\ Head(<<a, b>>) = a /\ Tail(<<a, b>>) = <<b>>
<1> DEFINE S == {a, b}
<1>1. Head(<<a>>) = a /\ Head(<<a, b>>) = a
  OBVIOUS
<1>2. Tail(<<a>>) = <<>>
  <2> DEFINE p == Tail(<<a>>)
             o == <<a>>
  <2>1. o \in Seq(S) /\ Len(o) = 1 /\ o # <<>>
    OBVIOUS
  <2>2. p \in Seq(S) /\ Len(p) = 0
    <3> HIDE DEF o, S
    <3>1. Tail(o) \in Seq(S) /\ Len(Tail(o)) = Len(o) - 1
      BY <2>1, HeadTailProperties
    <3> QED
      BY <2>1, <3>1 DEF o
  <2> HIDE DEF p, S
  <2>3. p = <<>>
    BY <2>2, EmptySeq
  <2> QED
    BY <2>3 DEF p
<1>3. Tail(<<a, b>>) = <<b>>
  <2> DEFINE o == <<a, b>>
             p == Tail(o)
             q == <<b>>
  <2>1. o \in Seq(S) /\ Len(o) = 2 /\ o # <<>> /\ o[2] = b
    OBVIOUS
  <2>2. p \in Seq(S) /\ Len(p) = 1 /\ p[1] = b
    <3> HIDE DEF o, S
    <3>1. /\ Tail(o) \in Seq(S) /\ Len(Tail(o)) = Len(o) - 1
          /\ \A i \in 1..Len(Tail(o)) : Tail(o)[i] = o[i + 1]
      BY <2>1, HeadTailProperties
    <3>2. Len(Tail(o)) = 1
      BY <2>1, <3>1
    <3>3. Tail(o)[1] = o[2]
      BY <3>1, <3>2
    <3> QED
      BY <2>1, <3>1, <3>2, <3>3
  <2>3. q \in Seq(S) /\ Len(q) = 1 /\ q[1] = b
    OBVIOUS
  <2> HIDE DEF p, q, S
  <2>4. p = q
    BY <2>2, <2>3, SeqEqual
  <2> QED
    BY <2>4 DEF p, q, o
<1> QED
  BY <1>1, <1>2, <1>3

LEMMA KeygenRemoves ==
  ASSUME FilesInv, NEW r \in K, keygen_removes(r)
  PROVE  FilesInv' /\ Kept(r)
<1> DEFINE old == gen[r].created
           path == Head(old)
           new == Tail(old)
<1>1. gen[r].pc = "remove" /\ profile' = profile
  BY DEF keygen_removes, at
<1>2. Shape(gen[r]) /\ r \in DOMAIN gen
  BY DEF FilesInv, Runs
<1>3. K' = K /\ Private' = Private /\ Public' = Public /\ Private # Public
  BY <1>1, KeygenAssumption DEF FilesInv, Runs, K, site, Private, Public
<1>4. CASE old = <<>> /\ goto(r, "failed") /\ UNCHANGED <<fileVars, faults>>
  <2>1. gen[r].pc \notin Dead /\ faults' \in 0..MaxFaults
    BY <1>1, <1>4, FaultCounted DEF Dead
  <2> QED
    BY <1>1, <1>4, <2>1, Moves
<1>5. ASSUME old # <<>>
      PROVE  /\ path \in {Private, Public} /\ new \in {<<>>, <<Public>>}
             /\ Range(old) = Range(new) \cup {path} /\ path \notin Range(new)
  <2>1. old \in {<<Private>>, <<Public>>, <<Private, Public>>}
    BY <1>2, <1>5 DEF Shape
  <2>2. CASE old = <<Private>>
    BY <2>2, Tails, Ranges
  <2>3. CASE old = <<Public>>
    BY <2>3, Tails, Ranges
  <2>4. CASE old = <<Private, Public>>
    BY <1>3, <2>4, Tails, Ranges
  <2> QED
    BY <2>1, <2>2, <2>3, <2>4
<1>6. ASSUME old # <<>>, NEW left, left \in Seq({Private, Public}), Range(gen[r].left) \subseteq Range(left),
             gen' = [gen EXCEPT ![r].created = new, ![r].left = left],
             ino' = ino, fault \/ faults' = faults,
             \/ dirent' = dirent /\ path \in Range(left)
             \/ dirent' = Without(dirent, path)
      PROVE  ShrinkStep(r)
  <2>1. /\ path \in {Private, Public} /\ new \in {<<>>, <<Public>>}
        /\ Range(old) = Range(new) \cup {path} /\ path \notin Range(new)
    BY <1>5, <1>6
  <2>2. old = gen[r].created
    OBVIOUS
  <2> HIDE DEF old, path, new
  <2>3. /\ DOMAIN gen' = K /\ \A q \in K : q # r => gen'[q] = gen[q]
        /\ DOMAIN gen'[r] = DOMAIN gen[r] /\ gen'[r].pc = gen[r].pc /\ gen'[r].inode = gen[r].inode
        /\ gen'[r].created = new /\ gen'[r].left = left
    BY <1>2, <1>6 DEF FilesInv, Runs, Shape
  <2>4. faults' \in 0..MaxFaults
    BY <1>6, FaultCounted
  <2>5. Shape(gen[r])'
    <3>1. gen'[r].created \in {<<>>, <<Private>>, <<Public>>, <<Private, Public>>}
      BY <2>1, <2>3
    <3>2. gen'[r].left \in Seq({Private, Public})
      BY <1>6, <2>3
    <3>3. /\ DOMAIN gen'[r] = {"pc", "created", "inode", "left"} /\ gen'[r].pc = "remove"
          /\ gen'[r].inode \in Seq(Nat) /\ Len(gen'[r].inode) \in 0..2
      BY <1>1, <1>2, <2>3 DEF Shape
    <3> QED
      BY <1>3, <3>1, <3>2, <3>3 DEF Shape, Before, Between, Pair, Dead
  <2>6. /\ DOMAIN dirent' \subseteq DOMAIN dirent
        /\ \A x \in DOMAIN dirent' : dirent'[x] = dirent[x]
        /\ \A x \in DOMAIN dirent : x # path => x \in DOMAIN dirent'
        /\ path \in Range(left) \/ path \notin DOMAIN dirent'
    <3>1. CASE dirent' = dirent /\ path \in Range(left)
      BY <3>1
    <3>2. CASE dirent' = Without(dirent, path)
      BY <3>2 DEF Without
    <3> QED
      BY <1>6, <3>1, <3>2
  <2>7. path \in DOMAIN dirent /\ ino[dirent[path]].by = r
    <3>1. gen[r].pc \notin Dead /\ path \in Range(gen[r].created)
      BY <1>1, <2>1, <2>2 DEF Dead
    <3> QED
      BY <3>1 DEF FilesInv, Held
  <2>8. \A x \in DOMAIN dirent \ DOMAIN dirent' : ino[dirent[x]].by = r
    BY <2>6, <2>7
  <2>9. \A x \in Range(gen'[r].created) : x \in Range(gen[r].created) /\ (x \in DOMAIN dirent => x \in DOMAIN dirent')
    BY <2>1, <2>2, <2>3, <2>6
  <2>10. \A x \in DOMAIN dirent' :
           x \in Range(gen[r].created) \cup Range(gen[r].left) => x \in Range(gen'[r].created) \cup Range(gen'[r].left)
    BY <1>6, <2>1, <2>2, <2>3, <2>6
  <2>11. \A q \in K : gen'[q].inode = gen[q].inode /\ gen'[q].pc = gen[q].pc /\ (q # r => gen'[q] = gen[q])
    BY <2>3
  <2>12. profile' = profile /\ ino' = ino /\ DOMAIN gen' = K /\ gen[r].pc \in {"remove"} \cup Dead
    BY <1>1, <1>6, <2>3
  <2>13. gen'[r] # gen[r]
    BY <2>1, <2>2, <2>3
  <2> QED
    BY <2>4, <2>5, <2>6, <2>8, <2>9, <2>10, <2>11, <2>12, <2>13 DEF ShrinkStep
<1>7. CASE /\ old # <<>> /\ fault /\ UNCHANGED fileVars
           /\ gen' = [gen EXCEPT ![r].created = new, ![r].left = Append(@, path)]
  <2> DEFINE left == Append(gen[r].left, path)
  <2>1. path \in {Private, Public}
    BY <1>5, <1>7
  <2>2. gen[r].left \in Seq({Private, Public})
    BY <1>2 DEF Shape
  <2>3. left \in Seq({Private, Public}) /\ Range(left) = Range(gen[r].left) \cup {path}
    <3> HIDE DEF path
    <3> DEFINE S == {Private, Public}
    <3>0. gen[r].left \in Seq(S) /\ path \in S
      BY <2>1, <2>2
    <3> HIDE DEF S
    <3>1. /\ left \in Seq(S) /\ Len(left) = Len(gen[r].left) + 1
          /\ \A i \in 1..Len(gen[r].left) : left[i] = gen[r].left[i]
          /\ left[Len(gen[r].left) + 1] = path
      BY <3>0, AppendProperties
    <3>2. /\ Range(left) = {left[i] : i \in 1..Len(left)}
          /\ Range(gen[r].left) = {gen[r].left[i] : i \in 1..Len(gen[r].left)} /\ Len(gen[r].left) \in Nat
      BY <3>0, <3>1 DEF Range
    <3> HIDE DEF left
    <3>3. Range(left) = Range(gen[r].left) \cup {path}
      BY <3>1, <3>2, SMTT(30)
    <3> QED
      BY <3>1, <3>3 DEF S
  <2>4. gen' = [gen EXCEPT ![r].created = new, ![r].left = left]
    BY <1>2, <1>7 DEF Shape
  <2>5. ino' = ino /\ dirent' = dirent
    BY <1>7 DEF fileVars
  <2> HIDE DEF left, new, path, old
  <2>6. ShrinkStep(r)
    BY <1>6, <1>7, <2>3, <2>4, <2>5
  <2> QED
    BY <2>6, Shrinks
<1>8. CASE /\ old # <<>> /\ dirent' = Without(dirent, path) /\ UNCHANGED <<ino, faults>>
           /\ gen' = [gen EXCEPT ![r].created = new]
  <2>1. gen' = [gen EXCEPT ![r].created = new, ![r].left = gen[r].left]
    BY <1>2, <1>8 DEF Shape
  <2>2. gen[r].left \in Seq({Private, Public})
    BY <1>2 DEF Shape
  <2> HIDE DEF new, path, old
  <2>3. ShrinkStep(r)
    BY <1>6, <1>8, <2>1, <2>2
  <2> QED
    BY <2>3, Shrinks
<1> QED
  BY <1>4, <1>7, <1>8 DEF keygen_removes, to_remove

-----------------------------------------------------------------------------
(* Every step keeps the files' invariant.                                    *)

LEMMA Fails ==
  ASSUME FilesInv, NEW r \in K, fails(r), profile' = profile, fault \/ faults' = faults, gen[r].pc \notin Dead
  PROVE  FilesInv' /\ Kept(r)
<1>1. faults' \in 0..MaxFaults
  BY FaultCounted
<1>2. goto(r, "remove") /\ UNCHANGED <<profile, fileVars>>
  BY DEF fails
<1> QED
  BY <1>1, <1>2, Moves

LEMMA KeygenOpens ==
  ASSUME FilesInv, NEW r \in K, keygen_opens(r)
  PROVE  FilesInv' /\ Kept(r)
<1>1. gen[r].pc = "start" /\ profile' = profile /\ gen[r].pc \notin Dead
  BY DEF keygen_opens, at, Dead
<1>2. CASE fails(r) /\ (fault \/ faults' = faults)
  BY <1>1, <1>2, Fails
<1>3. CASE goto(r, "private") /\ UNCHANGED <<fileVars, faults>>
  <2>1. faults' \in 0..MaxFaults
    BY <1>3, FaultCounted
  <2> QED
    BY <1>1, <1>3, <2>1, Moves
<1> QED
  BY <1>2, <1>3 DEF keygen_opens

LEMMA KeygenCreates ==
  ASSUME FilesInv, NEW r \in K, keygen_creates(r)
  PROVE  FilesInv' /\ Kept(r)
<1> DEFINE made(path, mode, next, i) ==
             /\ path \notin DOMAIN dirent /\ dirent' = With(dirent, path, i)
             /\ ino' = With(ino, i, [content |-> Empty, mode |-> mode \ site.umask, owner |-> "server", by |-> r])
             /\ gen' = [gen EXCEPT ![r].pc = next, ![r].created = Append(@, path), ![r].inode = Append(@, i)]
             /\ faults' = faults
           file(mode) == [content |-> Empty, mode |-> mode \ site.umask, owner |-> "server", by |-> r]
<1>0. ModesOf[1] = {} /\ ModesOf[2] = {"gr"}
  BY DEF ModesOf
<1>1. ASSUME NEW path, NEW mode, NEW next, create(r, path, mode, next), profile' = profile, gen[r].pc \notin Dead,
             ~made(path, mode, next, Fresh(ino))
      PROVE  FilesInv' /\ Kept(r)
  <2>1. fails(r) /\ (fault \/ faults' = faults)
    BY <1>1 DEF create
  <2> QED
    BY <1>1, <2>1, Fails
<1>2. CASE at(r, "private") /\ create(r, Private, private_mode, "public")
  <2>1. gen[r].pc = "private" /\ profile' = profile /\ gen[r].pc \notin Dead
    BY <1>2 DEF at, Dead
  <2>2. CASE made(Private, private_mode, "public", Fresh(ino))
    <3>1. CreateStep(r, 1, Private, private_mode, "public", Fresh(ino), file(private_mode))
      BY <1>0, <2>1, <2>2 DEF CreateStep, private_mode
    <3> QED
      BY <3>1, Creates
  <2> QED
    BY <1>1, <1>2, <2>1, <2>2
<1>3. CASE at(r, "public") /\ create(r, Public, public_mode, "chmod")
  <2>1. gen[r].pc = "public" /\ profile' = profile /\ gen[r].pc \notin Dead
    BY <1>3 DEF at, Dead
  <2>2. CASE made(Public, public_mode, "chmod", Fresh(ino))
    <3>1. CreateStep(r, 2, Public, public_mode, "chmod", Fresh(ino), file(public_mode))
      BY <1>0, <2>1, <2>2 DEF CreateStep, public_mode
    <3> QED
      BY <3>1, Creates
  <2> QED
    BY <1>1, <1>3, <2>1, <2>2
<1> QED
  BY <1>2, <1>3 DEF keygen_creates

LEMMA KeygenStep ==
  ASSUME FilesInv, NEW r \in K, keygen(r) \/ operator_cleans(r)
  PROVE  FilesInv' /\ Kept(r)
<1>1. CASE keygen_opens(r)
  BY <1>1, KeygenOpens
<1>2. CASE keygen_creates(r)
  BY <1>2, KeygenCreates
<1>3. CASE keygen_chmods(r)
  BY <1>3, Chmods
<1>4. CASE keygen_generates(r)
  <2>1. gen[r].pc = "generate" /\ profile' = profile /\ gen[r].pc \notin Dead
    BY <1>4 DEF keygen_generates, at, Dead
  <2>2. CASE fault /\ fails(r)
    BY <2>1, <2>2, Fails
  <2>3. CASE goto(r, "write private") /\ UNCHANGED <<fileVars, faults>>
    <3>1. faults' \in 0..MaxFaults
      BY <2>3, FaultCounted
    <3> QED
      BY <2>1, <2>3, <3>1, Moves
  <2> QED
    BY <1>4, <2>2, <2>3 DEF keygen_generates
<1>5. CASE keygen_writes(r)
  BY <1>5, KeygenWrites
<1>6. CASE keygen_reports(r)
  <2>1. gen[r].pc = "report" /\ profile' = profile /\ gen[r].pc \notin Dead
    BY <1>6 DEF keygen_reports, at, Dead
  <2>2. CASE fault /\ fails(r)
    BY <2>1, <2>2, Fails
  <2>3. CASE goto(r, "success") /\ UNCHANGED <<fileVars, faults>>
    <3>1. faults' \in 0..MaxFaults
      BY <2>3, FaultCounted
    <3> QED
      BY <2>1, <2>3, <3>1, Moves
  <2> QED
    BY <1>6, <2>2, <2>3 DEF keygen_reports
<1>7. CASE keygen_removes(r)
  BY <1>7, KeygenRemoves
<1>8. CASE keygen_killed(r)
  <2>1. gen[r].pc \notin Dead /\ fault /\ goto(r, "killed") /\ UNCHANGED <<profile, fileVars>>
    BY <1>8 DEF keygen_killed, Dead
  <2>2. faults' \in 0..MaxFaults
    BY <2>1, FaultCounted
  <2> QED
    BY <2>1, <2>2, Moves
<1>9. CASE operator_cleans(r)
  BY <1>9, OperatorCleans
<1> QED
  BY <1>1, <1>2, <1>3, <1>4, <1>5, <1>6, <1>7, <1>8, <1>9 DEF keygen

\* Of Startup's steps only those in Files change files or runs.
FilesStep ==
  \/ \E r \in K : (keygen(r) \/ operator_cleans(r)) /\ UNCHANGED startVars
  \/ UNCHANGED <<profile, keygenVars>>

LEMMA NextOnFiles ==
  ASSUME [Next]_vars
  PROVE  FilesStep
<1>1. CASE UNCHANGED vars
  BY <1>1 DEF vars, FilesStep
<1>2. CASE Start
  <2>1. CASE \E args \in site.args : main_cli(args)
    BY <2>1 DEF main_cli, steps, FilesStep
  <2>2. CASE main_no_config \/ main_runtime
    BY <2>2 DEF main_no_config, main_runtime, steps, FilesStep
  <2>3. CASE \E f \in Trusted : not_given(f) \/ check_trusted_file(f) \/ load_file(f)
    BY <2>3 DEF not_given, check_trusted_file, load_file, steps, FilesStep
  <2>4. CASE run_bind \/ run_signals \/ run_ready
    BY <2>4 DEF run_bind, run_signals, run_ready, steps, FilesStep
  <2> QED
    BY <1>2, <2>1, <2>2, <2>3, <2>4 DEF Start
<1>3. CASE Files
  BY <1>3 DEF Files, operator_retargets, FilesStep, K
<1>4. CASE listener_hears \/ serve \/ serve_aborts \/ systemd_kills \/ tick
  BY <1>4 DEF listener_hears, serve, serve_aborts, systemd_kills, tick, steps, FilesStep
<1>5. CASE \E k \in {"TERM", "INT"} : signal_comes(k)
  BY <1>5 DEF signal_comes, FilesStep
<1> QED
  BY <1>1, <1>2, <1>3, <1>4, <1>5 DEF Next

LEMMA FilesInit ==
  ASSUME Init
  PROVE  FilesInv
<1> DEFINE t == Profiles[profile]
<1>1. profile \in DOMAIN Profiles /\ site = t
  BY DEF Init, site
<1>2. /\ Len(t.ino) \in Nat /\ DOMAIN t.ino = 1..Len(t.ino)
      /\ \A path \in DOMAIN t.dirent : t.dirent[path] \in DOMAIN t.ino
      /\ \A i \in DOMAIN t.ino :
           DOMAIN t.ino[i] = {"content", "mode", "owner", "by"} /\ t.ino[i].by \notin t.keygens
      /\ MaxFaults \in Nat
  BY <1>1, KeygenAssumption
<1>3. /\ dirent = t.dirent /\ ino = t.ino /\ faults = 0 /\ K = t.keygens
      /\ gen = [r \in K |-> [pc |-> "start", created |-> <<>>, inode |-> <<>>, left |-> <<>>]]
  BY <1>1 DEF Init, KeygenInit, K
<1> HIDE DEF t
<1>4. DOMAIN gen = K /\ \A r \in K : /\ DOMAIN gen[r] = {"pc", "created", "inode", "left"}
        /\ gen[r].pc = "start" /\ gen[r].created = <<>> /\ gen[r].inode = <<>> /\ gen[r].left = <<>>
  BY <1>3
<1>5. Len(<<>>) = 0 /\ \A S : <<>> \in Seq(S)
  OBVIOUS
<1>6. Runs
  <2>1. ASSUME NEW r \in K PROVE Shape(gen[r])
    <3>1. /\ DOMAIN gen[r] = {"pc", "created", "inode", "left"}
          /\ gen[r].pc = "start" /\ gen[r].created = <<>> /\ Len(gen[r].inode) = 0
          /\ gen[r].inode \in Seq(Nat) /\ gen[r].left \in Seq({Private, Public})
      BY <1>4, <1>5
    <3> QED
      BY <3>1 DEF Shape, Before, Between, Pair
  <2> QED
    BY <1>1, <1>2, <1>3, <1>4, <2>1 DEF Runs
<1>7. \A r \in K : 1..Len(gen[r].inode) = {}
  BY <1>4, <1>5
<1>8. Disk
  BY <1>2, <1>3 DEF Disk
<1>9. Mine /\ Marked /\ Placed
  BY <1>2, <1>3, <1>7 DEF Mine, Marked, Placed
<1>10. Held
  BY <1>4, Ranges DEF Held
<1>11. Left
  BY <1>2, <1>3 DEF Left
<1>12. Written
  BY <1>4 DEF Written, WrittenBy, Pair
<1> QED
  BY <1>6, <1>8, <1>9, <1>10, <1>11, <1>12 DEF FilesInv

LEMMA FilesKept ==
  ASSUME FilesInv, [Next]_vars
  PROVE  FilesInv'
<1>1. FilesStep
  BY NextOnFiles
<1> QED
  BY <1>1, KeygenStep, FilesUnchanged DEF FilesStep

\* Where a name points at a file of a run, it is that file of the run the name
\* was made for.
LEMMA NamedFile ==
  ASSUME FilesInv, NEW r \in K, NEW path \in DOMAIN dirent, ino[dirent[path]].by = r
  PROVE  /\ Own(r, 1, dirent[path]) \/ Own(r, 2, dirent[path])
         /\ path = Private => Own(r, 1, dirent[path]) /\ dirent[path] = gen[r].inode[1]
         /\ path = Public => Own(r, 2, dirent[path]) /\ dirent[path] = gen[r].inode[2]
<1>1. dirent[path] \in DOMAIN ino
  BY DEF FilesInv, Disk
<1>2. PICK n \in 1..Len(gen[r].inode) : gen[r].inode[n] = dirent[path]
  BY <1>1 DEF FilesInv, Marked
<1>3. path = NamesOf[n] /\ Own(r, n, dirent[path])
  <2>1. dirent[path] = gen[r].inode[n]
    BY <1>2
  <2>2. path = NamesOf[n]
    BY <2>1 DEF FilesInv, Placed
  <2>3. Own(r, n, gen[r].inode[n])
    BY DEF FilesInv, Mine
  <2> QED
    BY <2>1, <2>2, <2>3
<1>4. n = 1 \/ n = 2
  <2>1. ASSUME NEW m \in 0..2, NEW k \in 1..m PROVE k = 1 \/ k = 2
    OBVIOUS
  <2>2. Len(gen[r].inode) \in 0..2
    BY DEF FilesInv, Runs, Shape
  <2> QED
    BY <2>1, <2>2
<1>5. NamesOf[1] = Private /\ NamesOf[2] = Public
  BY DEF NamesOf
<1>6. Private # Public
  BY KeygenAssumption DEF FilesInv, Runs, site, Private, Public
<1> QED
  BY <1>2, <1>3, <1>4, <1>5, <1>6

\* The modes and kinds of a run's two files.
LEMMA Owns ==
  ASSUME NEW r, NEW i
  PROVE  /\ Own(r, 1, i) => ino[i].mode = {} /\ ino[i].content.kind \in {"empty", "private"} /\ ino[i].owner = "server"
         /\ Own(r, 2, i) => ino[i].mode \subseteq {"gr"} /\ ino[i].content.kind \in {"empty", "public"}
                            /\ ino[i].owner = "server"
<1>1. ModesOf[1] = {} /\ ModesOf[2] = {"gr"} /\ KindsOf[1] = {"empty", "private"} /\ KindsOf[2] = {"empty", "public"}
  BY DEF ModesOf, KindsOf
<1> QED
  BY <1>1 DEF Own

LEMMA MarkedFile ==
  ASSUME FilesInv, NEW r \in K, NEW i \in DOMAIN ino, ino[i].by = r
  PROVE  Own(r, 1, i) \/ Own(r, 2, i)
<1>1. PICK n \in 1..Len(gen[r].inode) : gen[r].inode[n] = i
  BY DEF FilesInv, Marked
<1>2. Own(r, n, i)
  BY <1>1 DEF FilesInv, Mine
<1>3. n = 1 \/ n = 2
  <2>1. ASSUME NEW m \in 0..2, NEW k \in 1..m PROVE k = 1 \/ k = 2
    OBVIOUS
  <2>2. Len(gen[r].inode) \in 0..2
    BY DEF FilesInv, Runs, Shape
  <2> QED
    BY <2>1, <2>2
<1> QED
  BY <1>2, <1>3

LEMMA FilesSafe ==
  ASSUME FilesInv
  PROVE  PrivateNeverWide /\ FailureLeavesNothing /\ SuccessIsComplete
<1>1. PrivateNeverWide
  <2>1. ASSUME NEW r \in K, NEW i \in DOMAIN ino, ino[i].by = r,
               ino[i].content.kind = "private" \/ (Private \in DOMAIN dirent /\ dirent[Private] = i)
        PROVE  ino[i].mode = {}
    <3>1. CASE ino[i].content.kind = "private"
      BY <2>1, <3>1, MarkedFile, Owns
    <3>2. CASE Private \in DOMAIN dirent /\ dirent[Private] = i
      <4>1. Own(r, 1, i)
        BY <2>1, <3>2, NamedFile
      <4> QED
        BY <4>1, Owns
    <3> QED
      BY <2>1, <3>1, <3>2
  <2> QED
    BY <2>1 DEF PrivateNeverWide, K
<1>2. FailureLeavesNothing
  <2>1. ASSUME NEW r \in K, gen[r].pc = "failed", NEW path \in DOMAIN dirent, ino[dirent[path]].by = r
        PROVE  path \in Range(gen[r].left)
    <3>1. Range(gen[r].created) = {}
      BY <2>1, Ranges DEF FilesInv, Runs, Shape
    <3>2. path \in Range(gen[r].created) \cup Range(gen[r].left)
      BY <2>1 DEF FilesInv, Left
    <3> QED
      BY <3>1, <3>2
  <2> QED
    BY <2>1 DEF FailureLeavesNothing, K
<1>3. SuccessIsComplete
  <2>1. ASSUME NEW r \in K, gen[r].pc = "success"
        PROVE  /\ {Private, Public} \subseteq DOMAIN dirent
               /\ ino[dirent[Private]].content = Content("private", r, "none")
               /\ ino[dirent[Public]].content = Content("public", r, "none") /\ "gr" \in ino[dirent[Public]].mode
    <3>1. gen[r].created = <<Private, Public>> /\ gen[r].pc \notin Dead
      BY <2>1 DEF FilesInv, Runs, Shape, Pair, Dead
    <3>2. /\ Private \in DOMAIN dirent /\ ino[dirent[Private]].by = r
          /\ Public \in DOMAIN dirent /\ ino[dirent[Public]].by = r
      <4>1. Private \in Range(gen[r].created) /\ Public \in Range(gen[r].created)
        BY <3>1, Ranges
      <4> QED
        BY <3>1, <4>1 DEF FilesInv, Held
    <3>3. dirent[Private] = gen[r].inode[1] /\ dirent[Public] = gen[r].inode[2]
      BY <3>2, NamedFile
    <3>4. WrittenBy(r)
      BY DEF FilesInv, Written
    <3>5. /\ ino[gen[r].inode[1]].content = Content("private", r, "none")
          /\ ino[gen[r].inode[2]].content = Content("public", r, "none")
          /\ ino[gen[r].inode[2]].mode = public_mode
      BY <2>1, <3>4 DEF WrittenBy, Pair
    <3> QED
      BY <3>2, <3>3, <3>5 DEF public_mode
  <2> QED
    BY <2>1 DEF SuccessIsComplete, K
<1> QED
  BY <1>1, <1>2, <1>3

\* NeverReplaces, of one step.
Untouched ==
  \A path \in DOMAIN dirent :
    LET i == dirent[path] IN
    \/ \E r \in site.keygens :
         ino[i].by = r /\ (gen'[r] # gen[r] \/ gen[r].pc \in {"failed", "killed"})
    \/ path \in DOMAIN dirent' /\ dirent'[path] = i /\ ino'[i] = ino[i]

\* The files and runs are as FilesInv says in every state: what a run created
\* is its own, under the name it created it with, with the modes and the kind of
\* content of that name.
THEOREM FilesAreOwned == Spec => []FilesInv
<1>1. Init => FilesInv
  BY FilesInit
<1>2. FilesInv /\ [Next]_vars => FilesInv'
  BY FilesKept
<1> QED
  BY <1>1, <1>2, PTL DEF Spec

\* keygen leaves a complete pair or nothing of its own, never shows a private
\* key, and never touches what it did not create, with any number of runs on the
\* same path, and failures and kills between any two calls (write_pair,
\* remove_created).
THEOREM KeygenIsSafe == Spec => KeygenSafe
<1>1. FilesInv => PrivateNeverWide /\ FailureLeavesNothing /\ SuccessIsComplete
  BY FilesSafe
<1>2. FilesInv /\ [Next]_vars => [Untouched]_keygenVars
  <2> SUFFICES ASSUME FilesInv, [Next]_vars, ~UNCHANGED keygenVars
               PROVE  Untouched
    OBVIOUS
  <2>1. FilesStep
    BY NextOnFiles
  <2>2. PICK r \in K : keygen(r) \/ operator_cleans(r)
    BY <2>1 DEF FilesStep
  <2>3. Kept(r)
    BY <2>2, KeygenStep
  <2> QED
    BY <2>3 DEF Kept, Untouched, Dead, K
<1>3. NeverReplaces <=> [][Untouched]_keygenVars
  BY PTL DEF NeverReplaces, Untouched
<1> QED
  BY <1>1, <1>2, <1>3, FilesAreOwned, PTL DEF Spec, KeygenSafe

-----------------------------------------------------------------------------
(* The start of the server.                                                  *)

Early == {"cli", "resolve", "check config", "read config"}
Late ==
  {"runtime", "check host_key", "check authorized_keys", "check trusted_user_ca_keys",
   "read host_key", "read authorized_keys", "read trusted_user_ca_keys", "bind", "signals", "ready", "serve"}

\* Until the configuration is resolved there is no log and nothing has been
\* read; from then on there is one.
Process ==
  /\ DOMAIN server = {"pc", "cli", "settings", "canon", "logging", "deadline", "drain_at", "exit"}
  /\ server.pc \in Early \cup Late \cup {"over"} /\ server.logging \in BOOLEAN
  /\ server.pc = "over" <=> server.exit # "none"
  /\ server.pc \in Early => ~server.logging /\ read = {}
  /\ server.pc \in Late => server.logging
  /\ server.pc = "check config" => "config" \in DOMAIN server.cli
  /\ DOMAIN server.cli \subseteq CliFlags
  /\ "handshake_timeout" \in DOMAIN server.cli => server.cli["handshake_timeout"] # 0

\* The numbers in the files that can be configuration files.
Numbers ==
  \A i \in DOMAIN ino : ino[i].content.kind = "toml" =>
    \A x \in DOMAIN ino[i].content.settings \cap Bounded : ino[i].content.settings[x] \in Nat

InRange ==
  server.logging =>
    /\ DOMAIN Defaults \subseteq DOMAIN server.settings
    /\ \A k \in Bounded \cap DOMAIN server.settings :
         server.settings[k] # 0 /\ (k \notin DOMAIN server.cli => server.settings[k] \in 1..MaxInteger)

Classes ==
  {"schema_error", "version_unsupported", "runtime_failed", "missing_setting", "file_unavailable",
   "insecure_permissions", "invalid", "bind_failed", "listener_failed"}
Events ==
  [event : {"config_error", "config_override", "started"}, detail : Classes \cup CliFlags \cup {"none"}]

Logged == log \in Seq(Events) /\ FailureExplained

\* The file the settings came from is a configuration file still.
Told ==
  server.logging =>
    \A x \in read : x[1] = "config" =>
      /\ x[3] \in DOMAIN ino /\ ino[x[3]].content.kind = "toml"
      /\ \A k \in DOMAIN ino[x[3]].content.settings :
           server.settings[k] # ino[x[3]].content.settings[k] =>
             \E i \in DOMAIN log : log[i] = Event("config_override", k)

Surroundings == clock \in 0..MaxTime /\ DOMAIN link = DOMAIN site.link

\* What StrictModes found in a file, as far as it can last.
TrustedFile(f, i) ==
  /\ i \in DOMAIN ino /\ ino[i].owner \in {"root", "server"} /\ "gw" \notin ino[i].mode
  /\ f = "host_key" /\ ino[i].content.kind = "private" => "gr" \notin ino[i].mode

TrustedDir(path) == "gw" \notin site.dirs[path[1]] \cup site.dirs["/"]

\* Between the check and the read the path leads to a file that would pass.
Checked ==
  /\ \A x \in read : TrustedFile(x[1], x[3]) /\ TrustedDir(x[2])
  /\ \A f \in Trusted : server.pc = Reading(f) =>
       /\ TrustedDir(server.canon)
       /\ server.canon \in DOMAIN dirent => TrustedFile(f, dirent[server.canon])

StartInv == FilesInv /\ Process /\ Numbers /\ InRange /\ Logged /\ Told /\ Surroundings /\ Checked

\* What one step can do to the process, its log and what it has read: nothing
\* but the drain;
Rest(fields) ==
  DOMAIN server' = DOMAIN server /\ \A x \in DOMAIN server \ fields : server'[x] = server[x]

Stays == Rest({"drain_at", "deadline"}) /\ read' = read /\ log' = log

\* an end, which is a failure only if the log says so;
EndsWell ==
  /\ server.pc # "over" /\ Rest({"pc", "exit"}) /\ read' = read /\ log' = log
  /\ server'.pc = "over" /\ server'.exit \notin {"none", "failure"}

ReadsOne(f) ==
  /\ server.pc = Reading(f) /\ server.canon \in DOMAIN dirent
  /\ read' = read \cup {<<f, server.canon, dirent[server.canon]>>}

MayRead == read' = read \/ \E f \in Trusted : ReadsOne(f)

GivesUp ==
  /\ server.pc # "over" /\ Rest({"pc", "exit"}) /\ MayRead
  /\ server'.pc = "over" /\ server'.exit = "failure"
  /\ \E class \in Classes : log' = log \o <<Event("config_error", class)>>

\* the command line;
Parses ==
  /\ server.pc = "cli" /\ Rest({"pc", "cli"}) /\ read' = read /\ log' = log
  /\ server'.pc \in {"check config", "resolve"}
  /\ server'.pc = "check config" => "config" \in DOMAIN server'.cli
  /\ DOMAIN server'.cli \subseteq CliFlags
  /\ "handshake_timeout" \in DOMAIN server'.cli => server'.cli["handshake_timeout"] # 0

\* the configuration file, checked and then resolved;
Checks ==
  /\ server.pc = "check config" /\ Rest({"pc", "canon"}) /\ read' = read /\ log' = log
  /\ server'.pc = "read config"

ResolvesTo(file) ==
  /\ Rest({"pc", "logging", "settings"})
  /\ server'.pc = "runtime" /\ server'.logging = TRUE /\ server'.settings = pick(server.cli, file)
  /\ LET told == SetToSeq(overrides(server.cli, file)) IN
       log' = log \o [i \in DOMAIN told |-> Event("config_override", told[i])]

ResolvesNone == server.pc = "resolve" /\ ResolvesTo(<<>>) /\ read' = read

ResolvesFile ==
  LET content == ino[dirent[server.canon]].content IN
  /\ server.pc = "read config" /\ server.canon \in DOMAIN dirent /\ ResolvesTo(content.settings)
  /\ parse_error(content) = "none" /\ read' = read \cup {<<"config", server.canon, dirent[server.canon]>>}

\* and a step further.
GoesOn ==
  /\ server.pc \in Late /\ Rest({"pc", "canon"}) /\ MayRead
  /\ server'.pc \in Late
  /\ log' = log \/ log' = log \o <<Event("started", "none")>>

Effect == Stays \/ EndsWell \/ GivesUp \/ Parses \/ Checks \/ ResolvesNone \/ ResolvesFile \/ GoesOn

\* The path to be read is the one that was checked.
CanonStep ==
  \/ server'.pc = server.pc /\ server'.canon = server.canon
  \/ \A f \in Trusted : server'.pc # Reading(f)
  \/ \E f \in Trusted :
       /\ server'.pc = Reading(f) /\ server'.canon \in DOMAIN dirent /\ ~insecure(server'.canon, f)

Around ==
  /\ clock' = clock \/ (clock < MaxTime /\ clock' = clock + 1)
  /\ DOMAIN link' = DOMAIN link

LEMMA Readings ==
  /\ Reading("config") = "read config" /\ Reading("host_key") = "read host_key"
  /\ Reading("authorized_keys") = "read authorized_keys"
  /\ Reading("trusted_user_ca_keys") = "read trusted_user_ca_keys"
  /\ Checking("config") = "check config" /\ Checking("host_key") = "check host_key"
  /\ Checking("authorized_keys") = "check authorized_keys"
  /\ Checking("trusted_user_ca_keys") = "check trusted_user_ca_keys"
  /\ Following.config = "runtime" /\ Following.host_key = "check authorized_keys"
  /\ Following.authorized_keys = "check trusted_user_ca_keys" /\ Following.trusted_user_ca_keys = "bind"
BY DEF Reading, Checking, Following

LEMMA NotReading ==
  ASSUME NEW pc \in {"over", "cli", "resolve", "runtime", "bind", "signals", "ready", "serve", "check config",
                     "check host_key", "check authorized_keys", "check trusted_user_ca_keys"}
  PROVE  \A f \in Trusted : pc # Reading(f)
BY Readings DEF Trusted

\* ends, and the failures that the log tells.
LEMMA Ending ==
  ASSUME Process, NEW e, ends(e)
  PROVE  Rest({"pc", "exit"}) /\ server'.pc = "over" /\ server'.exit = e /\ CanonStep
<1>1. Rest({"pc", "exit"}) /\ server'.pc = "over" /\ server'.exit = e
  BY DEF Process, ends, Rest
<1> QED
  BY <1>1, NotReading DEF CanonStep

LEMMA Failing ==
  ASSUME Process, server.pc \in Late, NEW class \in Classes, config_error(class), MayRead
  PROVE  GivesUp /\ CanonStep
<1>1. server.logging /\ server.pc # "over"
  BY DEF Process, Late
<1>2. log' = log \o <<Event("config_error", class)>> /\ ends("failure")
  BY <1>1 DEF config_error, emits
<1> QED
  BY <1>1, <1>2, Ending DEF GivesUp

LEMMA FailingWith ==
  ASSUME Process, server.pc \in Late \cup {"check config", "read config"}, NEW class \in Classes, fails_with(class), MayRead
  PROVE  GivesUp /\ CanonStep
<1>1. CASE server.pc \in {"check config", "read config"}
  <2>1. log' = log \o <<Event("config_error", class)>> /\ ends("failure")
    BY <1>1 DEF fails_with, main_config_failed, emits
  <2> QED
    BY <1>1, <2>1, Ending DEF GivesUp
<1>2. CASE server.pc \notin {"check config", "read config"}
  BY <1>2, Failing DEF fails_with
<1> QED
  BY <1>1, <1>2

-----------------------------------------------------------------------------
(* The command line, and the settings it overrides.                          *)

LEMMA LeastNumber ==
  ASSUME NEW T, T \subseteq Nat, T # {}
  PROVE  \E m \in T : \A k \in T : m <= k
<1> DEFINE R == {ss \in Nat \X Nat : ss[1] < ss[2]}
<1>1. IsWellFoundedOn(R, Nat)
  BY NatLessThanWellFounded DEF OpToRel
<1>2. PICK m \in T : \A k \in T : ~ (<<k, m>> \in R)
  <2> HIDE DEF R
  <2> QED
    BY <1>1, WFMin
<1>3. ASSUME NEW k \in T PROVE m <= k
  <2>1. <<k, m>> \in Nat \X Nat /\ <<k, m>>[1] = k /\ <<k, m>>[2] = m
    OBVIOUS
  <2> QED
    BY <1>2, <2>1
<1> QED
  BY <1>3

LEMMA MaxIsMember ==
  ASSUME NEW n \in Nat, NEW S, S \subseteq 1..n, S # {}
  PROVE  Max(S) \in S
<1> DEFINE T == {n - k : k \in S}
<1>1. T \subseteq Nat /\ T # {}
  <2>1. \A k \in 1..n : n - k \in Nat
    OBVIOUS
  <2>2. \E k : k \in S
    OBVIOUS
  <2> QED
    BY <2>1, <2>2
<1>2. PICK m \in T : \A k \in T : m <= k
  <2> HIDE DEF T
  <2> QED
    BY <1>1, LeastNumber
<1>3. PICK x \in S : m = n - x
  BY <1>2
<1>4. ASSUME NEW y \in S PROVE x >= y
  <2>1. n - y \in T /\ n - x <= n - y
    BY <1>2, <1>3
  <2>2. x \in Nat /\ y \in Nat
    OBVIOUS
  <2> HIDE DEF T
  <2> QED
    BY <2>1, <2>2
<1> QED
  BY <1>4 DEF Max

LEMMA ParsedCli ==
  ASSUME NEW args, Len(args) \in Nat, DOMAIN args = 1..Len(args), parse_cli(args).kind = "run"
  PROVE  LET cli == parse_cli(args).cli IN
         /\ DOMAIN cli \subseteq CliFlags
         /\ "handshake_timeout" \in DOMAIN cli => cli["handshake_timeout"] # 0
<1> DEFINE odd == {i \in DOMAIN args : parse_flag(args[i]) # "run"}
           flags == {args[i].flag : i \in DOMAIN args}
           last(flag) == Max({i \in DOMAIN args : args[i].flag = flag})
<1>1. CASE odd # {}
  <2>1. parse_cli(args).cli = <<>>
    BY <1>1 DEF parse_cli
  <2>2. DOMAIN <<>> = {}
    OBVIOUS
  <2> QED
    BY <2>1, <2>2
<1>2. CASE odd = {}
  <2>1. parse_cli(args).cli = [flag \in flags |-> args[last(flag)].value]
    BY <1>2 DEF parse_cli
  <2>2. \A i \in DOMAIN args : parse_flag(args[i]) = "run"
    BY <1>2
  <2>3. \A i \in DOMAIN args :
          args[i].flag \in CliFlags /\ (args[i].flag = "handshake_timeout" => args[i].value # 0)
    BY <2>2 DEF parse_flag
  <2>4. ASSUME "handshake_timeout" \in flags
        PROVE  last("handshake_timeout") \in DOMAIN args /\ args[last("handshake_timeout")].flag = "handshake_timeout"
    <3> DEFINE S == {i \in DOMAIN args : args[i].flag = "handshake_timeout"}
    <3>1. S # {} /\ S \subseteq 1..Len(args) /\ last("handshake_timeout") = Max(S)
      BY <2>4
    <3> HIDE DEF S
    <3>2. Max(S) \in S
      BY <3>1, MaxIsMember
    <3> QED
      BY <3>1, <3>2 DEF S
  <2>5. DOMAIN parse_cli(args).cli = flags
    BY <2>1
  <2>6. flags \subseteq CliFlags
    BY <2>3
  <2>7. ASSUME "handshake_timeout" \in flags PROVE parse_cli(args).cli["handshake_timeout"] # 0
    <3>1. parse_cli(args).cli["handshake_timeout"] = args[last("handshake_timeout")].value
      BY <2>1, <2>7
    <3> QED
      BY <2>3, <2>4, <2>7, <3>1
  <2> QED
    BY <2>5, <2>6, <2>7
<1> QED
  BY <1>1, <1>2

\* SetToSeq lists every element of a finite set.
LEMMA Lists ==
  ASSUME NEW S, IsFiniteSet(S)
  PROVE  /\ SetToSeq(S) \in Seq(S)
         /\ \A x \in S : \E i \in DOMAIN SetToSeq(S) : SetToSeq(S)[i] = x
<1> DEFINE n == Cardinality(S)
           I == 1..n
<1>1. n \in Nat /\ \E g : g \in Bijection(I, S)
  BY FS_CardinalityType DEF ExistsBijection
<1>2. \E f \in [I -> S] : IsInjective(f)
  BY <1>1 DEF Bijection, Injection
<1>3. SetToSeq(S) \in [I -> S] /\ IsInjective(SetToSeq(S))
  BY <1>2 DEF SetToSeq
<1>4. IsFiniteSet(I) /\ Cardinality(I) = n
  <2>1. 1 \in Int /\ n \in Int /\ (1 > n => n = 0)
    BY <1>1
  <2> HIDE DEF n
  <2> QED
    BY <2>1, FS_Interval
<1>5. SetToSeq(S) \in Injection(I, S)
  BY <1>3 DEF Injection
<1>6. SetToSeq(S) \in Surjection(I, S)
  <2> HIDE DEF I
  <2> QED
    BY <1>4, <1>5, FS_Injection DEF n
<1>7. SetToSeq(S) \in Seq(S)
  BY <1>1, <1>3
<1> QED
  BY <1>3, <1>6, <1>7 DEF Surjection

LEMMA FlagsFinite == IsFiniteSet(CliFlags)
<1>1. IsFiniteSet({}) /\ \A S, x : IsFiniteSet(S) => IsFiniteSet(S \cup {x})
  BY FS_EmptySet, FS_AddElement
<1>2. CliFlags = ((((({} \cup {"config"}) \cup {"listen"}) \cup {"host_key"}) \cup {"authorized_keys"})
                  \cup {"handshake_timeout"}) \cup {"log_format"}
  BY DEF CliFlags
<1> QED
  BY <1>1, <1>2, Zenon

-----------------------------------------------------------------------------
(* Each step has one of the effects.                                         *)

LEMMA MainCli ==
  ASSUME FilesInv, Process, NEW args \in site.args, main_cli(args)
  PROVE  Effect /\ CanonStep
<1> DEFINE o == parse_cli(args)
<1>1. /\ server.pc = "cli" /\ server.pc # "over" /\ read' = read /\ log' = log
  BY DEF main_cli, steps
<1>2. Len(args) \in Nat /\ DOMAIN args = 1..Len(args)
  BY StartupAssumption DEF FilesInv, Runs, site
<1>3. CASE o.kind # "run"
  <2>1. ends(IF o.kind = "exit" THEN "success" ELSE "usage")
    BY <1>3 DEF main_cli
  <2>2. ASSUME NEW e, e \in {"success", "usage"}, ends(e) PROVE EndsWell /\ CanonStep
    <3>1. Rest({"pc", "exit"}) /\ server'.pc = "over" /\ server'.exit = e /\ CanonStep
      BY <2>2, Ending
    <3> QED
      BY <1>1, <2>2, <3>1 DEF EndsWell
  <2> QED
    BY <2>1, <2>2 DEF Effect
<1>4. CASE o.kind = "run"
  <2>1. server' = [server EXCEPT !.cli = o.cli,
                                 !.pc = IF "config" \in DOMAIN o.cli THEN "check config" ELSE "resolve"]
    BY <1>4 DEF main_cli
  <2>2. DOMAIN o.cli \subseteq CliFlags /\ ("handshake_timeout" \in DOMAIN o.cli => o.cli["handshake_timeout"] # 0)
    BY <1>2, <1>4, ParsedCli
  <2> HIDE DEF o
  <2>3. /\ Rest({"pc", "cli"}) /\ server'.cli = o.cli
        /\ server'.pc = IF "config" \in DOMAIN o.cli THEN "check config" ELSE "resolve"
    BY <2>1 DEF Process, Rest
  <2>4. Parses
    BY <1>1, <2>2, <2>3 DEF Parses
  <2>5. CanonStep
    <3>1. server'.pc \in {"check config", "resolve"}
      BY <2>3
    <3> QED
      BY <3>1, NotReading DEF CanonStep
  <2> QED
    BY <2>4, <2>5 DEF Effect
<1> QED
  BY <1>3, <1>4

LEMMA Resolving ==
  ASSUME Process, NEW file, resolves(file)
  PROVE  ResolvesTo(file) /\ CanonStep
<1>1. /\ server' = [server EXCEPT !.pc = "runtime", !.logging = TRUE, !.settings = pick(server.cli, file)]
      /\ LET told == SetToSeq(overrides(server.cli, file)) IN
           log' = log \o [i \in DOMAIN told |-> Event("config_override", told[i])]
  BY DEF resolves, emits
<1>2. Rest({"pc", "logging", "settings"}) /\ server'.pc = "runtime" /\ server'.logging = TRUE
      /\ server'.settings = pick(server.cli, file)
  BY <1>1 DEF Process, Rest
<1>3. CanonStep
  BY <1>2, NotReading DEF CanonStep
<1> QED
  BY <1>1, <1>2, <1>3 DEF ResolvesTo

\* One step further, within the later part of the start.
LEMMA Going ==
  ASSUME Process, server.pc \in Late, MayRead, NEW pc \in Late, server' = [server EXCEPT !.pc = pc],
         \A f \in Trusted : pc # Reading(f),
         log' = log \/ log' = log \o <<Event("started", "none")>>
  PROVE  Effect /\ CanonStep
<1>1. Rest({"pc", "canon"}) /\ server'.pc = pc
  BY DEF Process, Rest
<1> QED
  BY <1>1 DEF GoesOn, Effect, CanonStep

LEMMA MainEffects ==
  ASSUME Process, main_no_config \/ main_runtime
  PROVE  Effect /\ CanonStep
<1>1. CASE main_no_config
  BY <1>1, Resolving DEF main_no_config, steps, ResolvesNone, Effect
<1>2. CASE main_runtime
  <2>1. server.pc = "runtime" /\ server.pc \in Late /\ MayRead /\ "check host_key" \in Late
    BY <1>2 DEF main_runtime, steps, Late, MayRead
  <2>2. CASE config_error("runtime_failed")
    <3>1. "runtime_failed" \in Classes
      BY DEF Classes
    <3> QED
      BY <2>1, <2>2, <3>1, Failing DEF Effect
  <2>3. CASE server' = [server EXCEPT !.pc = "check host_key"] /\ UNCHANGED log
    <3>1. \A f \in Trusted : "check host_key" # Reading(f)
      BY NotReading
    <3> QED
      BY <2>1, <2>3, <3>1, Going
  <2> QED
    BY <1>2, <2>2, <2>3 DEF main_runtime
<1> QED
  BY <1>1, <1>2

LEMMA FilePcs ==
  ASSUME NEW f \in Trusted
  PROVE  /\ Checking(f) \in Late \cup {"check config"} /\ Reading(f) \in Late \cup {"read config"}
         /\ Following[f] \in Late /\ \A g \in Trusted : Following[f] # Reading(g)
         /\ Checking(f) = "check config" <=> f = "config"
         /\ Reading(f) = "read config" <=> f = "config"
         /\ \A g \in Trusted : Reading(f) = Reading(g) => f = g
<1>1. CASE f = "config"
  BY <1>1, Readings, NotReading DEF Late, Trusted
<1>2. CASE f = "host_key"
  BY <1>2, Readings, NotReading DEF Late, Trusted
<1>3. CASE f = "authorized_keys"
  BY <1>3, Readings, NotReading DEF Late, Trusted
<1>4. CASE f = "trusted_user_ca_keys"
  BY <1>4, Readings, NotReading DEF Late, Trusted
<1> QED
  BY <1>1, <1>2, <1>3, <1>4 DEF Trusted

LEMMA NotGiven ==
  ASSUME Process, NEW f \in Trusted, not_given(f)
  PROVE  Effect /\ CanonStep
<1>1. server.pc = Checking(f) /\ MayRead /\ ~given(f)
  BY DEF not_given, steps, MayRead
<1>2. server.pc \in Late
  <2>1. f # "config"
    BY <1>1, Readings DEF Process, given
  <2> QED
    BY <1>1, <2>1, FilePcs
<1>3. CASE server' = [server EXCEPT !.pc = Following[f]] /\ log' = log
  BY <1>1, <1>2, <1>3, FilePcs, Going
<1>4. CASE config_error("missing_setting")
  <2>1. "missing_setting" \in Classes
    BY DEF Classes
  <2> QED
    BY <1>1, <1>2, <1>4, <2>1, Failing DEF Effect
<1> QED
  BY <1>3, <1>4 DEF not_given

LEMMA CheckTrustedFile ==
  ASSUME Process, NEW f \in Trusted, check_trusted_file(f)
  PROVE  Effect /\ CanonStep
<1> DEFINE path == link[name_of(f)]
<1>1. server.pc = Checking(f) /\ read' = read /\ MayRead
  BY DEF check_trusted_file, steps, MayRead
<1>2. server.pc \in Late \cup {"check config", "read config"}
  BY <1>1, FilePcs
<1>3. CASE fails_with("file_unavailable") \/ fails_with("insecure_permissions")
  <2>1. "file_unavailable" \in Classes /\ "insecure_permissions" \in Classes
    BY DEF Classes
  <2> QED
    BY <1>1, <1>2, <1>3, <2>1, FailingWith DEF Effect
<1>4. CASE /\ path \in DOMAIN dirent /\ ~insecure(path, f) /\ log' = log
           /\ server' = [server EXCEPT !.pc = Reading(f), !.canon = path]
  <2> HIDE DEF path
  <2>1. Rest({"pc", "canon"}) /\ server'.pc = Reading(f) /\ server'.canon = path
    BY <1>4 DEF Process, Rest
  <2>2. CanonStep
    BY <1>4, <2>1 DEF CanonStep
  <2>3. CASE f = "config"
    BY <1>1, <1>4, <2>1, <2>2, <2>3, Readings DEF Checks, Effect
  <2>4. CASE f # "config"
    <3>1. server.pc \in Late /\ server'.pc \in Late
      BY <1>1, <2>1, <2>4, FilePcs
    <3> QED
      BY <1>1, <1>4, <2>1, <2>2, <3>1 DEF GoesOn, Effect
  <2> QED
    BY <2>3, <2>4
<1> QED
  BY <1>3, <1>4 DEF check_trusted_file

LEMMA LoadFile ==
  ASSUME Process, NEW f \in Trusted, load_file(f)
  PROVE  Effect /\ CanonStep
<1> DEFINE path == server.canon
           content == ino[dirent[path]].content
           class == IF f = "config" THEN parse_error(content)
                    ELSE IF accepted(f, content) THEN "none" ELSE "invalid"
<1>1. server.pc = Reading(f)
  BY DEF load_file, steps
<1>2. server.pc \in Late \cup {"check config", "read config"}
  BY <1>1, FilePcs
<1>3. class \in Classes \cup {"none"}
  BY DEF parse_error, Classes
<1>4. CASE path \notin DOMAIN dirent
  <2>1. fails_with(IF f \in {"config", "host_key"} THEN "file_unavailable" ELSE "invalid") /\ MayRead
    BY <1>4 DEF load_file, path_to_read, MayRead
  <2>2. (IF f \in {"config", "host_key"} THEN "file_unavailable" ELSE "invalid") \in Classes
    BY DEF Classes
  <2> QED
    BY <1>2, <2>1, <2>2, FailingWith DEF Effect
<1>5. CASE path \in DOMAIN dirent
  <2>1. read' = read \cup {<<f, path, dirent[path]>>}
    BY <1>5 DEF load_file, path_to_read
  <2>2. MayRead
    BY <1>1, <1>5, <2>1 DEF MayRead, ReadsOne
  <2>3. IF class # "none" THEN fails_with(class)
        ELSE IF f = "config" THEN resolves(content.settings)
        ELSE server' = [server EXCEPT !.pc = Following[f]] /\ UNCHANGED log /\ quiet
    BY <1>5 DEF load_file, path_to_read
  <2>4. CASE class # "none"
    <3>1. fails_with(class) /\ class \in Classes
      BY <1>3, <2>3, <2>4
    <3> HIDE DEF class
    <3> QED
      BY <1>2, <1>3, <2>2, <3>1, FailingWith DEF Effect
  <2>5. CASE class = "none" /\ f = "config"
    <3>1. resolves(content.settings) /\ parse_error(content) = "none"
      BY <2>3, <2>5
    <3>2. ResolvesTo(content.settings) /\ CanonStep
      BY <3>1, Resolving
    <3>3. server.pc = "read config"
      BY <1>1, <2>5, Readings
    <3> QED
      BY <1>5, <2>1, <2>5, <3>1, <3>2, <3>3 DEF ResolvesFile, Effect
  <2>6. CASE class = "none" /\ f # "config"
    <3>1. server' = [server EXCEPT !.pc = Following[f]] /\ log' = log
      BY <2>3, <2>6
    <3>2. server.pc \in Late
      BY <1>1, <2>6, FilePcs
    <3>3. Following[f] \in Late /\ \A g \in Trusted : Following[f] # Reading(g)
      BY FilePcs
    <3> QED
      BY <2>2, <3>1, <3>2, <3>3, Going
  <2> QED
    BY <2>4, <2>5, <2>6
<1> QED
  BY <1>4, <1>5

LEMMA RunEffects ==
  ASSUME Process, run_bind \/ run_signals \/ run_ready
  PROVE  Effect /\ CanonStep
<1>0. /\ run_order.bind = "signals" /\ run_order.signals = "ready" /\ run_order.ready = "serve"
      /\ {"bind", "signals", "ready", "serve"} \subseteq Late /\ "bind_failed" \in Classes
      /\ \A f \in Trusted : "signals" # Reading(f) /\ "ready" # Reading(f) /\ "serve" # Reading(f)
  BY NotReading DEF run_order, Late, Classes
<1>1. CASE run_bind
  <2>1. server.pc \in Late /\ MayRead
    BY <1>0, <1>1 DEF run_bind, steps, MayRead
  <2>2. CASE config_error("bind_failed")
    BY <1>0, <2>1, <2>2, Failing DEF Effect
  <2>3. CASE server' = [server EXCEPT !.pc = run_order.bind] /\ emits(TRUE, <<Event("started", "none")>>)
    <3>1. server' = [server EXCEPT !.pc = "signals"] /\ log' = log \o <<Event("started", "none")>>
      BY <1>0, <2>3 DEF emits
    <3> QED
      BY <1>0, <2>1, <3>1, Going
  <2> QED
    BY <1>1, <2>2, <2>3 DEF run_bind
<1>2. CASE run_signals
  <2>1. server.pc \in Late /\ MayRead /\ server' = [server EXCEPT !.pc = "ready"] /\ log' = log
    BY <1>0, <1>2 DEF run_signals, steps, MayRead
  <2> QED
    BY <1>0, <2>1, Going
<1>3. CASE run_ready
  <2>1. server.pc \in Late /\ MayRead /\ server' = [server EXCEPT !.pc = "serve"] /\ log' = log
    BY <1>0, <1>3 DEF run_ready, steps, MayRead
  <2> QED
    BY <1>0, <2>1, Going
<1> QED
  BY <1>1, <1>2, <1>3

LEMMA ServeEffects ==
  ASSUME Process, serve \/ serve_aborts
  PROVE  Effect /\ CanonStep
<1>1. server.pc = "serve" /\ server.pc \in Late /\ read' = read /\ MayRead /\ "listener_failed" \in Classes
  BY DEF serve, serve_aborts, steps, Late, MayRead, Classes
<1>2. CASE config_error("listener_failed")
  BY <1>1, <1>2, Failing DEF Effect
<1>3. CASE (ends("drained") \/ ends("aborted")) /\ log' = log
  BY <1>1, <1>3, Ending DEF EndsWell, Effect
<1> QED
  BY <1>2, <1>3 DEF serve, serve_aborts

\* The drain's times change, or nothing.
LEMMA Staying ==
  ASSUME Process, Rest({"drain_at", "deadline"}), read' = read, log' = log
  PROVE  Effect /\ CanonStep
<1>1. server'.pc = server.pc /\ server'.canon = server.canon
  BY DEF Process, Rest
<1> QED
  BY <1>1 DEF Stays, Effect, CanonStep

LEMMA SignalEffects ==
  ASSUME Process, listener_hears \/ systemd_kills \/ tick \/ \E k \in {"TERM", "INT"} : signal_comes(k)
  PROVE  Effect /\ CanonStep
<1>1. read' = read /\ log' = log
  BY DEF listener_hears, systemd_kills, tick, signal_comes
<1>2. CASE listener_hears
  <2>1. \/ server' = [server EXCEPT !.drain_at = clock,
                                    !.deadline = deadline_seen(drain_deadline(clock, drain_timeout))]
        \/ server' = [server EXCEPT !.deadline = clock]
    BY <1>2 DEF listener_hears
  <2>2. Rest({"drain_at", "deadline"})
    BY <2>1 DEF Process, Rest
  <2> QED
    BY <1>1, <2>2, Staying
<1>3. ASSUME server.pc # "over", NEW e \in {"killed", "killed by systemd"}, ends(e)
      PROVE  Effect /\ CanonStep
  BY <1>1, <1>3, Ending DEF EndsWell, Effect
<1>4. ASSUME server' = server PROVE Effect /\ CanonStep
  <2>1. Rest({"drain_at", "deadline"})
    BY <1>4 DEF Rest
  <2> QED
    BY <1>1, <2>1, Staying
<1>5. CASE systemd_kills
  BY <1>3, <1>5 DEF systemd_kills
<1>6. CASE tick
  BY <1>4, <1>6 DEF tick
<1>7. CASE \E k \in {"TERM", "INT"} : signal_comes(k)
  BY <1>3, <1>4, <1>7 DEF signal_comes
<1> QED
  BY <1>2, <1>5, <1>6, <1>7

LEMMA Arounds ==
  ASSUME [Next]_vars
  PROVE  Around
<1>1. CASE UNCHANGED vars
  BY <1>1 DEF vars, startVars, Around
<1>2. CASE Start
  <2>1. CASE \E args \in site.args : main_cli(args)
    BY <2>1 DEF main_cli, steps, Around
  <2>2. CASE main_no_config \/ main_runtime
    BY <2>2 DEF main_no_config, main_runtime, steps, Around
  <2>3. CASE \E f \in Trusted : not_given(f) \/ check_trusted_file(f) \/ load_file(f)
    BY <2>3 DEF not_given, check_trusted_file, load_file, steps, Around
  <2>4. CASE run_bind \/ run_signals \/ run_ready
    BY <2>4 DEF run_bind, run_signals, run_ready, steps, Around
  <2> QED
    BY <1>2, <2>1, <2>2, <2>3, <2>4 DEF Start
<1>3. CASE Files
  BY <1>3 DEF Files, operator_retargets, startVars, Around
<1>4. CASE listener_hears \/ serve \/ serve_aborts \/ systemd_kills \/ tick
  BY <1>4 DEF listener_hears, serve, serve_aborts, systemd_kills, tick, steps, Around
<1>5. CASE \E k \in {"TERM", "INT"} : signal_comes(k)
  BY <1>5 DEF signal_comes, Around
<1> QED
  BY <1>1, <1>2, <1>3, <1>4, <1>5 DEF Next

LEMMA NextEffects ==
  ASSUME FilesInv, Process, [Next]_vars
  PROVE  Effect /\ CanonStep /\ (UNCHANGED <<profile, keygenVars>> \/ UNCHANGED startVars)
<1>1. ASSUME UNCHANGED startVars PROVE Effect /\ CanonStep
  <2>1. Rest({"drain_at", "deadline"}) /\ read' = read /\ log' = log
    BY <1>1 DEF startVars, Rest
  <2> QED
    BY <2>1, Staying
<1>2. Effect /\ CanonStep
  <2>1. CASE UNCHANGED vars
    BY <1>1, <2>1 DEF vars
  <2>2. CASE Start
    BY <2>2, MainCli, MainEffects, NotGiven, CheckTrustedFile, LoadFile, RunEffects DEF Start
  <2>3. CASE Files
    <3>1. CASE \E name \in DOMAIN link : \E path \in site.targets : operator_retargets(name, path)
      <4>1. Rest({"drain_at", "deadline"}) /\ read' = read /\ log' = log
        BY <3>1 DEF operator_retargets, Rest
      <4> QED
        BY <4>1, Staying
    <3> QED
      BY <1>1, <2>3, <3>1 DEF Files
  <2>4. CASE serve \/ serve_aborts
    BY <2>4, ServeEffects
  <2>5. CASE listener_hears \/ systemd_kills \/ tick \/ \E k \in {"TERM", "INT"} : signal_comes(k)
    BY <2>5, SignalEffects
  <2> QED
    BY <2>1, <2>2, <2>3, <2>4, <2>5 DEF Next
<1>3. FilesStep
  BY NextOnFiles
<1> QED
  BY <1>2, <1>3 DEF FilesStep

-----------------------------------------------------------------------------
(* What the server reads is trusted, and stays so.                           *)

\* What a keygen run made is harmless to the server.
Owned(i) ==
  /\ ino[i].owner = "server" /\ ino[i].mode \subseteq {"gr"}
  /\ ino[i].content.kind \in {"empty", "private", "public"}
  /\ ino[i].content.kind = "private" => ino[i].mode = {}

KeygenOwned == \A i \in DOMAIN ino : (\E r \in K : ino[i].by = r) => Owned(i)

LEMMA KeygenFiles == FilesInv => KeygenOwned
<1> SUFFICES ASSUME FilesInv, NEW i \in DOMAIN ino, NEW r \in K, ino[i].by = r
             PROVE  Owned(i)
  BY DEF KeygenOwned
<1>1. Own(r, 1, i) \/ Own(r, 2, i)
  BY MarkedFile
<1> QED
  BY <1>1, Owns DEF Owned

\* What one step does to files that the server may know.
InodesKept ==
  /\ \A i \in DOMAIN ino : i \in DOMAIN ino' /\ (ino'[i] = ino[i] \/ (Owned(i) /\ Owned(i)'))
  /\ \A i \in DOMAIN ino' : i \in DOMAIN ino \/ Owned(i)'
  /\ \A path \in DOMAIN dirent' :
       \/ path \in DOMAIN dirent /\ dirent'[path] = dirent[path]
       \/ dirent'[path] \in DOMAIN ino' /\ Owned(dirent[path])'

LEMMA InodeStep ==
  ASSUME FilesInv, [Next]_vars
  PROVE  InodesKept
<1>1. FilesStep /\ FilesInv'
  BY NextOnFiles, FilesKept
<1>2. KeygenOwned'
  BY <1>1, KeygenFiles, PTL
<1>3. CASE UNCHANGED <<profile, keygenVars>>
  BY <1>3 DEF keygenVars, fileVars, InodesKept
<1>4. CASE \E r \in K : keygen(r) \/ operator_cleans(r)
  <2>1. PICK r \in K : keygen(r) \/ operator_cleans(r)
    BY <1>4
  <2>2. Kept(r)
    BY <2>1, KeygenStep
  <2>3. K' = K
    <3>1. profile' = profile
      BY <2>1 DEF keygen, keygen_opens, keygen_creates, keygen_chmods, keygen_generates, keygen_writes,
                  keygen_reports, keygen_removes, keygen_killed, operator_cleans, at
    <3> QED
      BY <3>1 DEF K, site
  <2>4. \A path \in DOMAIN dirent' : dirent'[path] \in DOMAIN ino'
    BY <1>1 DEF FilesInv, Disk
  <2>5. \A i \in DOMAIN ino' : ino'[i].by = r => Owned(i)'
    BY <1>2, <2>3 DEF KeygenOwned
  <2>6. \A i \in DOMAIN ino : ino[i].by = r => Owned(i)
    BY KeygenFiles DEF KeygenOwned
  <2> QED
    BY <2>2, <2>4, <2>5, <2>6 DEF Kept, InodesKept
<1> QED
  BY <1>1, <1>3, <1>4 DEF FilesStep

LEMMA OwnedTrusted ==
  ASSUME NEW i, i \in DOMAIN ino', Owned(i)', NEW f
  PROVE  TrustedFile(f, i)'
BY DEF Owned, TrustedFile

LEMMA TrustKept ==
  ASSUME InodesKept, NEW i, NEW f, TrustedFile(f, i)
  PROVE  TrustedFile(f, i)'
<1>1. i \in DOMAIN ino' /\ (ino'[i] = ino[i] \/ Owned(i)')
  BY DEF InodesKept, TrustedFile
<1>2. CASE ino'[i] = ino[i]
  BY <1>1, <1>2 DEF TrustedFile
<1>3. CASE Owned(i)'
  BY <1>1, <1>3, OwnedTrusted
<1> QED
  BY <1>1, <1>2, <1>3

LEMMA SiteKept ==
  ASSUME FilesInv, [Next]_vars
  PROVE  profile' = profile /\ site' = site
<1>1. FilesStep
  BY NextOnFiles
<1>2. profile' = profile
  BY <1>1 DEF FilesStep, keygen, keygen_opens, keygen_creates, keygen_chmods, keygen_generates, keygen_writes,
              keygen_reports, keygen_removes, keygen_killed, operator_cleans, at
<1> QED
  BY <1>2 DEF site

LEMMA CheckedKept ==
  ASSUME FilesInv, Process, Checked, [Next]_vars
  PROVE  Checked'
<1>1. Effect /\ CanonStep /\ (UNCHANGED <<profile, keygenVars>> \/ UNCHANGED startVars)
  BY NextEffects
<1>2. InodesKept /\ site' = site
  BY InodeStep, SiteKept
<1>3. \A path : TrustedDir(path) => TrustedDir(path)'
  BY <1>2 DEF TrustedDir
<1>4. ASSUME NEW x \in read' PROVE TrustedFile(x[1], x[3])' /\ TrustedDir(x[2])'
  <2>1. MayRead \/ ResolvesFile
    BY <1>1 DEF Effect, Stays, EndsWell, GivesUp, Parses, Checks, ResolvesNone, GoesOn, MayRead
  <2>2. MayRead
    <3>1. CASE ResolvesFile
      <4>1. "config" \in Trusted /\ Reading("config") = "read config"
        BY Readings DEF Trusted
      <4> QED
        BY <3>1, <4>1 DEF ResolvesFile, MayRead, ReadsOne
    <3> QED
      BY <2>1, <3>1
  <2>3. TrustedFile(x[1], x[3]) /\ TrustedDir(x[2])
    <3>1. CASE x \in read
      BY <3>1 DEF Checked
    <3>2. CASE x \notin read
      <4>1. PICK f \in Trusted : ReadsOne(f)
        BY <2>2, <3>2 DEF MayRead
      <4>2. x = <<f, server.canon, dirent[server.canon]>>
        BY <3>2, <4>1 DEF ReadsOne
      <4>3. x[1] = f /\ x[2] = server.canon /\ x[3] = dirent[server.canon]
        BY <4>2
      <4> QED
        BY <4>1, <4>3 DEF ReadsOne, Checked
    <3> QED
      BY <3>1, <3>2
  <2> QED
    BY <1>2, <1>3, <2>3, TrustKept
<1>5. ASSUME NEW f \in Trusted, server'.pc = Reading(f)
      PROVE  /\ TrustedDir(server.canon)'
             /\ server'.canon \in DOMAIN dirent' => TrustedFile(f, dirent[server.canon])'
  <2>1. CASE server'.pc = server.pc /\ server'.canon = server.canon
    <3>1. TrustedDir(server.canon) /\ (server.canon \in DOMAIN dirent => TrustedFile(f, dirent[server.canon]))
      BY <1>5, <2>1 DEF Checked
    <3>2. TrustedDir(server.canon)'
      BY <1>2, <2>1, <3>1 DEF TrustedDir
    <3>3. ASSUME server.canon \in DOMAIN dirent' PROVE TrustedFile(f, dirent[server.canon])'
      <4> DEFINE i == dirent'[server.canon]
      <4>1. CASE server.canon \in DOMAIN dirent /\ i = dirent[server.canon]
        <5>1. TrustedFile(f, dirent[server.canon])
          BY <3>1, <4>1
        <5>2. dirent'[server'.canon] = dirent[server.canon]
          BY <2>1, <4>1
        <5>3. ASSUME NEW j, TrustedFile(f, j) PROVE TrustedFile(f, j)'
          BY <1>2, <5>3, TrustKept
        <5>4. LET j == dirent[server.canon] IN
              /\ j \in DOMAIN ino' /\ ino'[j].owner \in {"root", "server"} /\ "gw" \notin ino'[j].mode
              /\ f = "host_key" /\ ino'[j].content.kind = "private" => "gr" \notin ino'[j].mode
          BY <5>1, <5>3 DEF TrustedFile
        <5> QED
          BY <5>2, <5>4 DEF TrustedFile
      <4>2. CASE i \in DOMAIN ino' /\ Owned(dirent[server.canon])'
        BY <2>1, <4>2 DEF Owned, TrustedFile
      <4>3. \/ server.canon \in DOMAIN dirent /\ i = dirent[server.canon]
            \/ i \in DOMAIN ino' /\ Owned(dirent[server.canon])'
        BY <1>2, <2>1, <3>3 DEF InodesKept, Owned
      <4> QED
        BY <4>1, <4>2, <4>3
    <3> QED
      BY <2>1, <3>2, <3>3
  <2>2. CASE \E g \in Trusted :
               server'.pc = Reading(g) /\ server'.canon \in DOMAIN dirent /\ ~insecure(server'.canon, g)
    <3>1. CASE UNCHANGED startVars
      <4>1. server' = server
        BY <3>1 DEF startVars
      <4> QED
        BY <2>1, <4>1
    <3>2. CASE UNCHANGED <<profile, keygenVars>>
      <4>1. server'.canon \in DOMAIN dirent /\ ~insecure(server'.canon, f)
        BY <1>5, <2>2, FilePcs
      <4>2. dirent' = dirent /\ ino' = ino
        BY <3>2 DEF keygenVars, fileVars
      <4>3. dirent[server'.canon] \in DOMAIN ino
        BY <4>1 DEF FilesInv, Disk
      <4> QED
        BY <1>2, <4>1, <4>2, <4>3 DEF insecure, file_violation, ancestor_violation, TrustedFile, TrustedDir
    <3> QED
      BY <1>1, <3>1, <3>2
  <2> QED
    BY <1>1, <1>5, <2>1, <2>2 DEF CanonStep
<1> QED
  BY <1>4, <1>5 DEF Checked

-----------------------------------------------------------------------------
(* The log tells what was decided.                                           *)

\* A field that a step leaves alone.
LEMMA RestOf ==
  ASSUME Process, NEW fields, Rest(fields)
  PROVE  /\ DOMAIN server' = {"pc", "cli", "settings", "canon", "logging", "deadline", "drain_at", "exit"}
         /\ "pc" \notin fields => server'.pc = server.pc
         /\ "cli" \notin fields => server'.cli = server.cli
         /\ "settings" \notin fields => server'.settings = server.settings
         /\ "logging" \notin fields => server'.logging = server.logging
         /\ "exit" \notin fields => server'.exit = server.exit
BY DEF Process, Rest

LEMMA ProcessKept ==
  ASSUME Process, Effect
  PROVE  Process'
<1>0. "over" \notin Early \cup Late /\ Early \cap Late = {}
  BY DEF Early, Late
<1>1. CASE Stays
  <2>1. /\ DOMAIN server' = {"pc", "cli", "settings", "canon", "logging", "deadline", "drain_at", "exit"}
        /\ server'.pc = server.pc /\ server'.cli = server.cli /\ server'.logging = server.logging
        /\ server'.exit = server.exit /\ read' = read
    BY <1>1, RestOf DEF Stays
  <2> QED
    BY <2>1 DEF Process
<1>2. CASE EndsWell \/ GivesUp
  <2>1. /\ DOMAIN server' = {"pc", "cli", "settings", "canon", "logging", "deadline", "drain_at", "exit"}
        /\ server'.pc = "over" /\ server'.cli = server.cli /\ server'.logging = server.logging
        /\ server'.exit # "none"
    BY <1>2, RestOf DEF EndsWell, GivesUp
  <2> QED
    BY <1>0, <2>1 DEF Process
<1>3. CASE Parses
  <2>1. /\ DOMAIN server' = {"pc", "cli", "settings", "canon", "logging", "deadline", "drain_at", "exit"}
        /\ server'.logging = server.logging /\ server'.exit = server.exit /\ read' = read
        /\ server'.pc \in {"check config", "resolve"}
        /\ server'.pc = "check config" => "config" \in DOMAIN server'.cli
        /\ DOMAIN server'.cli \subseteq CliFlags
        /\ "handshake_timeout" \in DOMAIN server'.cli => server'.cli["handshake_timeout"] # 0
    <3>1. Rest({"pc", "cli"})
      BY <1>3 DEF Parses
    <3>2. /\ DOMAIN server' = {"pc", "cli", "settings", "canon", "logging", "deadline", "drain_at", "exit"}
          /\ server'.logging = server.logging /\ server'.exit = server.exit
      BY <3>1, RestOf
    <3> QED
      BY <1>3, <3>2 DEF Parses
  <2>2. server.exit = "none" /\ ~server.logging /\ read = {}
    BY <1>3 DEF Process, Parses, Early
  <2> QED
    BY <2>1, <2>2 DEF Process, Early, Late
<1>4. CASE Checks
  <2>1. /\ DOMAIN server' = {"pc", "cli", "settings", "canon", "logging", "deadline", "drain_at", "exit"}
        /\ server'.logging = server.logging /\ server'.exit = server.exit /\ read' = read
        /\ server'.pc = "read config" /\ server'.cli = server.cli
    <3>1. Rest({"pc", "canon"})
      BY <1>4 DEF Checks
    <3>2. /\ DOMAIN server' = {"pc", "cli", "settings", "canon", "logging", "deadline", "drain_at", "exit"}
          /\ server'.logging = server.logging /\ server'.exit = server.exit /\ server'.cli = server.cli
      BY <3>1, RestOf
    <3> QED
      BY <1>4, <3>2 DEF Checks
  <2>2. server.exit = "none" /\ ~server.logging /\ read = {}
    BY <1>4 DEF Process, Checks, Early
  <2> QED
    BY <2>1, <2>2 DEF Process, Early, Late
<1>5. CASE ResolvesNone \/ ResolvesFile
  <2>1. PICK file : ResolvesTo(file)
    BY <1>5 DEF ResolvesNone, ResolvesFile
  <2>2. /\ DOMAIN server' = {"pc", "cli", "settings", "canon", "logging", "deadline", "drain_at", "exit"}
        /\ server'.logging = TRUE /\ server'.exit = server.exit
        /\ server'.pc = "runtime" /\ server'.cli = server.cli
    BY <2>1, RestOf DEF ResolvesTo
  <2>3. server.exit = "none"
    BY <1>5 DEF Process, ResolvesNone, ResolvesFile
  <2> QED
    BY <2>2, <2>3 DEF Process, Early, Late
<1>6. CASE GoesOn
  <2>1. /\ DOMAIN server' = {"pc", "cli", "settings", "canon", "logging", "deadline", "drain_at", "exit"}
        /\ server'.logging = server.logging /\ server'.exit = server.exit
        /\ server'.pc \in Late /\ server'.cli = server.cli /\ server.pc \in Late
    BY <1>6, RestOf DEF GoesOn
  <2>2. server.exit = "none" /\ server.logging
    BY <1>0, <2>1 DEF Process
  <2>3. server'.pc \notin Early /\ server'.pc # "over" /\ server'.pc # "check config"
    BY <2>1 DEF Early, Late
  <2> QED
    BY <2>1, <2>2, <2>3 DEF Process
<1> QED
  BY <1>1, <1>2, <1>3, <1>4, <1>5, <1>6 DEF Effect

LEMMA NumbersKept ==
  ASSUME Numbers, InodesKept
  PROVE  Numbers'
<1> SUFFICES ASSUME NEW i \in DOMAIN ino', ino'[i].content.kind = "toml"
             PROVE  \A x \in DOMAIN ino'[i].content.settings \cap Bounded : ino'[i].content.settings[x] \in Nat
  BY DEF Numbers
<1>1. ~Owned(i)'
  BY DEF Owned
<1>2. i \in DOMAIN ino /\ ino'[i] = ino[i]
  BY <1>1 DEF InodesKept
<1> QED
  BY <1>2 DEF Numbers

\* A file without settings, or one that passed config::parse.
LEMMA Picked ==
  ASSUME NEW cli, DOMAIN cli \subseteq CliFlags,
         "handshake_timeout" \in DOMAIN cli => cli["handshake_timeout"] # 0,
         NEW file, \A k \in DOMAIN file \cap Bounded : file[k] \in 1..MaxInteger
  PROVE  /\ DOMAIN Defaults \subseteq DOMAIN pick(cli, file)
         /\ \A k \in Bounded \cap DOMAIN pick(cli, file) :
              pick(cli, file)[k] # 0 /\ (k \notin DOMAIN cli => pick(cli, file)[k] \in 1..MaxInteger)
<1> DEFINE D == DOMAIN cli \cup DOMAIN file \cup DOMAIN Defaults
           p == pick(cli, file)
<1>1. /\ DOMAIN p = D
      /\ \A k \in D : p[k] = IF k \in DOMAIN cli THEN cli[k] ELSE IF k \in DOMAIN file THEN file[k] ELSE Defaults[k]
  BY DEF pick
<1>2. \A k \in Bounded \cap DOMAIN cli : k = "handshake_timeout"
  BY DEF Bounded, CliFlags
<1>3. \A k \in Bounded \cap DOMAIN Defaults : Defaults[k] \in 1..MaxInteger
  <2>1. MaxInteger \in Nat /\ MaxInteger >= 2
    BY StartupAssumption
  <2>2. Defaults["handshake_timeout"] = 2 /\ Defaults["drain_timeout"] = 1 /\ Defaults["max_connections"] = 2
    BY DEF Defaults
  <2>3. 1 \in 1..MaxInteger /\ 2 \in 1..MaxInteger
    BY <2>1
  <2> QED
    BY <2>2, <2>3 DEF Bounded
<1>4. ASSUME NEW k \in Bounded \cap DOMAIN p
      PROVE  p[k] # 0 /\ (k \notin DOMAIN cli => p[k] \in 1..MaxInteger)
  <2>0. \A n \in 1..MaxInteger : n # 0
    BY StartupAssumption
  <2>1. CASE k \in DOMAIN cli
    BY <1>1, <1>2, <2>1
  <2>2. CASE k \notin DOMAIN cli
    <3>1. p[k] \in 1..MaxInteger
      BY <1>1, <1>3, <2>2
    <3> QED
      BY <2>0, <2>2, <3>1
  <2> QED
    BY <2>1, <2>2
<1> QED
  BY <1>1, <1>4

LEMMA InRangeKept ==
  ASSUME FilesInv, Process, Numbers, InRange, Effect
  PROVE  InRange'
<1>1. CASE Stays \/ EndsWell \/ GivesUp \/ GoesOn \/ Checks
  <2>1. server'.logging = server.logging /\ server'.settings = server.settings /\ server'.cli = server.cli
    <3>1. Rest({"drain_at", "deadline"}) \/ Rest({"pc", "exit"}) \/ Rest({"pc", "canon"})
      BY <1>1 DEF Stays, EndsWell, GivesUp, GoesOn, Checks
    <3> QED
      BY <3>1, RestOf
  <2> QED
    BY <2>1 DEF InRange
<1>2. CASE Parses
  <2>1. server'.logging = server.logging
    <3>1. Rest({"pc", "cli"})
      BY <1>2 DEF Parses
    <3> QED
      BY <3>1, RestOf
  <2> QED
    BY <1>2, <2>1 DEF InRange, Process, Parses, Early
<1>3. ASSUME NEW file, ResolvesTo(file), \A k \in DOMAIN file \cap Bounded : file[k] \in 1..MaxInteger
      PROVE  InRange'
  <2>1. server'.settings = pick(server.cli, file) /\ server'.cli = server.cli
    BY <1>3, RestOf DEF ResolvesTo
  <2>2. /\ DOMAIN server.cli \subseteq CliFlags
        /\ "handshake_timeout" \in DOMAIN server.cli => server.cli["handshake_timeout"] # 0
    BY DEF Process
  <2>3. LET p == pick(server.cli, file) IN
        /\ DOMAIN Defaults \subseteq DOMAIN p
        /\ \A k \in Bounded \cap DOMAIN p : p[k] # 0 /\ (k \notin DOMAIN server.cli => p[k] \in 1..MaxInteger)
    BY <1>3, <2>2, Picked
  <2> QED
    BY <2>1, <2>3 DEF InRange
<1>4. CASE ResolvesNone
  <2>1. DOMAIN <<>> = {}
    OBVIOUS
  <2> QED
    BY <1>3, <1>4, <2>1 DEF ResolvesNone
<1>5. CASE ResolvesFile
  <2> DEFINE i == dirent[server.canon]
             content == ino[i].content
             file == content.settings
  <2>1. ResolvesTo(file) /\ parse_error(content) = "none" /\ server.canon \in DOMAIN dirent
    BY <1>5 DEF ResolvesFile
  <2>2. /\ content.kind = "toml"
        /\ \A k \in DOMAIN file \cap Bounded : ~(file[k] = 0 \/ file[k] > MaxInteger)
    BY <2>1 DEF parse_error
  <2>3. i \in DOMAIN ino
    BY <2>1 DEF FilesInv, Disk
  <2>4. \A k \in DOMAIN file \cap Bounded : file[k] \in Nat
    BY <2>2, <2>3 DEF Numbers
  <2>5. MaxInteger \in Nat
    BY StartupAssumption
  <2>6. ASSUME NEW n \in Nat, ~(n = 0 \/ n > MaxInteger) PROVE n \in 1..MaxInteger
    BY <2>5, <2>6
  <2>7. \A k \in DOMAIN file \cap Bounded : file[k] \in 1..MaxInteger
    <3> HIDE DEF file
    <3> QED
      BY <2>2, <2>4, <2>6
  <2> QED
    BY <1>3, <2>1, <2>7
<1> QED
  BY <1>1, <1>2, <1>4, <1>5 DEF Effect

LEMMA SurroundingsKept ==
  ASSUME Surroundings, Around, site' = site
  PROVE  Surroundings'
<1>1. clock \in 0..MaxTime /\ MaxTime \in Nat
  BY StartupAssumption DEF Surroundings
<1>2. clock' \in 0..MaxTime
  BY <1>1 DEF Around
<1> QED
  BY <1>2 DEF Surroundings, Around

\* What a step appends to the log.
Appended(new) == new \in Seq(Events) /\ log' = log \o new

LEMMA Grows ==
  ASSUME log \in Seq(Events), NEW new, Appended(new)
  PROVE  /\ log' \in Seq(Events) /\ Len(log') = Len(log) + Len(new)
         /\ Len(log) \in Nat /\ Len(new) \in Nat
         /\ DOMAIN log = 1..Len(log) /\ DOMAIN log' = 1..Len(log')
         /\ \A i \in DOMAIN log : i \in DOMAIN log' /\ log'[i] = log[i]
         /\ \A i \in 1..Len(new) : Len(log) + i \in DOMAIN log' /\ log'[Len(log) + i] = new[i]
         /\ \A i \in DOMAIN log' : i \in DOMAIN log \/ \E k \in 1..Len(new) : i = Len(log) + k
<1> DEFINE a == Len(log)
           b == Len(new)
<1>1. /\ log' \in Seq(Events) /\ Len(log') = Len(log) + Len(new)
      /\ \A i \in 1..Len(log) + Len(new) : log'[i] = IF i <= Len(log) THEN log[i] ELSE new[i - Len(log)]
  BY ConcatProperties DEF Appended
<1>2. a \in Nat /\ b \in Nat /\ DOMAIN log = 1..a /\ DOMAIN log' = 1..Len(log')
  BY <1>1 DEF Appended
<1>3. /\ Len(log') = a + b
      /\ \A i \in 1..a + b : log'[i] = IF i <= a THEN log[i] ELSE new[i - a]
  BY <1>1
<1> HIDE DEF a, b
<1>4. \A i \in 1..a : i \in 1..a + b /\ log'[i] = log[i]
  BY <1>2, <1>3
<1>5. ASSUME NEW i \in 1..b PROVE a + i \in 1..a + b /\ log'[a + i] = new[i]
  <2>1. a + i \in 1..a + b /\ ~(a + i <= a) /\ (a + i) - a = i
    BY <1>2
  <2> QED
    BY <1>3, <2>1
<1>6. ASSUME NEW i \in 1..a + b, i \notin 1..a PROVE \E k \in 1..b : i = a + k
  <2>1. i - a \in 1..b /\ i = a + (i - a)
    BY <1>2, <1>6
  <2> QED
    BY <2>1
<1> QED
  BY <1>1, <1>2, <1>3, <1>4, <1>5, <1>6 DEF a, b

LEMMA EventIs ==
  ASSUME NEW name, NEW detail
  PROVE  /\ Event(name, detail).event = name /\ Event(name, detail).detail = detail
         /\ name \in {"config_error", "config_override", "started"} /\ detail \in Classes \cup CliFlags \cup {"none"}
              => Event(name, detail) \in Events
BY DEF Event, Events

LEMMA One ==
  ASSUME NEW e \in Events
  PROVE  <<e>> \in Seq(Events) /\ Len(<<e>>) = 1 /\ <<e>>[1] = e
OBVIOUS

\* The events of the settings that were overridden.
LEMMA OverrideEvents ==
  ASSUME NEW cli, DOMAIN cli \subseteq CliFlags, NEW file
  PROVE  LET told == SetToSeq(overrides(cli, file))
             new == [i \in DOMAIN told |-> Event("config_override", told[i])]
         IN  /\ new \in Seq(Events)
             /\ \A i \in 1..Len(new) : new[i].event = "config_override"
             /\ \A k \in DOMAIN cli \cap DOMAIN file : \E i \in 1..Len(new) : new[i] = Event("config_override", k)
<1> DEFINE S == overrides(cli, file)
           told == SetToSeq(S)
           new == [i \in DOMAIN told |-> Event("config_override", told[i])]
<1>1. S \subseteq CliFlags /\ S = DOMAIN cli \cap DOMAIN file
  BY DEF overrides
<1>2. IsFiniteSet(S)
  <2> HIDE DEF S
  <2> QED
    BY <1>1, FlagsFinite, FS_Subset
<1>3. told \in Seq(S) /\ \A x \in S : \E i \in DOMAIN told : told[i] = x
  <2> HIDE DEF S
  <2> QED
    BY <1>2, Lists
<1> HIDE DEF S, told
<1>4. Len(told) \in Nat /\ DOMAIN told = 1..Len(told) /\ \A i \in DOMAIN told : told[i] \in CliFlags
  BY <1>1, <1>3
<1>5. \A i \in DOMAIN told : Event("config_override", told[i]) \in Events
  BY <1>4, EventIs
<1>6. new \in Seq(Events) /\ DOMAIN new = 1..Len(told) /\ Len(new) = Len(told)
  BY <1>4, <1>5
<1>7. \A i \in 1..Len(new) : new[i] = Event("config_override", told[i]) /\ new[i].event = "config_override"
  BY <1>4, <1>6, EventIs
<1>8. ASSUME NEW k \in DOMAIN cli \cap DOMAIN file
      PROVE  \E i \in 1..Len(new) : new[i] = Event("config_override", k)
  <2>1. PICK i \in DOMAIN told : told[i] = k
    BY <1>1, <1>3
  <2>2. i \in 1..Len(new) /\ new[i] = Event("config_override", told[i])
    BY <1>4, <1>6, <1>7
  <2> QED
    BY <2>1, <2>2
<1> QED
  BY <1>6, <1>7, <1>8 DEF told, S

LEMMA LoggedKept ==
  ASSUME Process, Logged, Effect
  PROVE  Logged'
<1> DEFINE errors == {i \in DOMAIN log : log[i].event = "config_error"}
<1>0. log \in Seq(Events) /\ (IF server.exit = "failure" THEN errors = {Len(log)} ELSE errors = {})
  BY DEF Logged, FailureExplained
<1>1. ASSUME log' = log, server'.exit = server.exit \/ (server.pc # "over" /\ server'.exit # "failure")
      PROVE  Logged'
  <2>1. server.pc # "over" => errors = {}
    BY <1>0 DEF Process
  <2>2. log' \in Seq(Events) /\ errors' = errors /\ Len(log') = Len(log)
    BY <1>0, <1>1
  <2>3. IF server'.exit = "failure" THEN errors' = {Len(log')} ELSE errors' = {}
    BY <1>0, <1>1, <2>1, <2>2
  <2> QED
    BY <2>2, <2>3 DEF Logged, FailureExplained
<1>2. ASSUME server.pc # "over", server'.exit = server.exit, NEW new, Appended(new),
             \A i \in 1..Len(new) : new[i].event # "config_error"
      PROVE  Logged'
  <2>1. server.exit = "none" /\ errors = {}
    BY <1>0, <1>2 DEF Process
  <2>2. /\ log' \in Seq(Events) /\ \A i \in DOMAIN log : log'[i] = log[i]
        /\ \A i \in 1..Len(new) : log'[Len(log) + i] = new[i]
        /\ \A i \in DOMAIN log' : i \in DOMAIN log \/ \E k \in 1..Len(new) : i = Len(log) + k
    BY <1>0, <1>2, Grows
  <2>3. \A i \in DOMAIN log' : log'[i].event # "config_error"
    <3>1. \A i \in DOMAIN log : log[i].event # "config_error"
      BY <2>1
    <3> QED
      BY <1>2, <2>2, <3>1
  <2>4. server'.exit # "failure"
    BY <1>2, <2>1
  <2> QED
    BY <2>2, <2>3, <2>4 DEF Logged, FailureExplained
<1>3. CASE Stays \/ EndsWell \/ Parses \/ Checks
  <2>1. Rest({"drain_at", "deadline"}) \/ Rest({"pc", "cli"}) \/ Rest({"pc", "canon"}) => server'.exit = server.exit
    BY RestOf
  <2> QED
    BY <1>1, <1>3, <2>1 DEF Stays, EndsWell, Parses, Checks
<1>4. CASE GivesUp
  <2>1. PICK class \in Classes : log' = log \o <<Event("config_error", class)>>
    BY <1>4 DEF GivesUp
  <2>2. server'.exit = "failure" /\ errors = {}
    BY <1>0, <1>4 DEF GivesUp, Process
  <2> DEFINE e == Event("config_error", class)
             new == <<e>>
  <2>3. e \in Events /\ e.event = "config_error"
    BY EventIs
  <2>4. Appended(new) /\ Len(new) = 1 /\ new[1] = e
    BY <2>1, <2>3, One DEF Appended
  <2> HIDE DEF e, new
  <2>5. /\ log' \in Seq(Events) /\ Len(log') = Len(log) + 1 /\ Len(log) \in Nat
        /\ \A i \in DOMAIN log : log'[i] = log[i]
        /\ \A i \in 1..1 : Len(log) + i \in DOMAIN log' /\ log'[Len(log) + i] = new[i]
        /\ \A i \in DOMAIN log' : i \in DOMAIN log \/ \E k \in 1..1 : i = Len(log) + k
    <3>1. /\ log' \in Seq(Events) /\ Len(log') = Len(log) + Len(new) /\ Len(log) \in Nat
          /\ \A i \in DOMAIN log : log'[i] = log[i]
          /\ \A i \in 1..Len(new) : Len(log) + i \in DOMAIN log' /\ log'[Len(log) + i] = new[i]
          /\ \A i \in DOMAIN log' : i \in DOMAIN log \/ \E k \in 1..Len(new) : i = Len(log) + k
      BY <1>0, <2>4, Grows
    <3> QED
      BY <2>4, <3>1
  <2>6. /\ Len(log') \in DOMAIN log' /\ log'[Len(log')] = e
        /\ \A i \in DOMAIN log' : i \in DOMAIN log \/ i = Len(log')
    <3>1. \A k : k \in 1..1 <=> k = 1
      OBVIOUS
    <3> QED
      BY <2>4, <2>5, <3>1
  <2>7. \A i \in DOMAIN log : log[i].event # "config_error"
    BY <2>2
  <2>8. errors' = {Len(log')}
    BY <2>3, <2>5, <2>6, <2>7
  <2> QED
    BY <2>2, <2>5, <2>8 DEF Logged, FailureExplained
<1>5. CASE ResolvesNone \/ ResolvesFile
  <2>1. PICK file : ResolvesTo(file)
    BY <1>5 DEF ResolvesNone, ResolvesFile
  <2> DEFINE told == SetToSeq(overrides(server.cli, file))
             new == [i \in DOMAIN told |-> Event("config_override", told[i])]
  <2>2. Rest({"pc", "logging", "settings"}) /\ log' = log \o new
    BY <2>1 DEF ResolvesTo
  <2>3. new \in Seq(Events) /\ \A i \in 1..Len(new) : new[i].event = "config_override"
    <3>1. DOMAIN server.cli \subseteq CliFlags
      BY DEF Process
    <3> QED
      BY <3>1, OverrideEvents
  <2>4. server'.exit = server.exit /\ server.pc # "over"
    <3>1. server'.exit = server.exit
      BY <2>2, RestOf
    <3> QED
      BY <1>5, <3>1 DEF ResolvesNone, ResolvesFile
  <2> HIDE DEF told, new
  <2>5. Appended(new)
    BY <2>2, <2>3 DEF Appended
  <2> QED
    BY <1>2, <2>3, <2>4, <2>5
<1>6. CASE GoesOn
  <2>1. Rest({"pc", "canon"}) /\ server.pc # "over"
    BY <1>6 DEF GoesOn, Late
  <2>2. server'.exit = server.exit
    BY <2>1, RestOf
  <2>3. CASE log' = log
    BY <1>1, <2>2, <2>3
  <2>4. CASE log' = log \o <<Event("started", "none")>>
    <3> DEFINE e == Event("started", "none")
               new == <<e>>
    <3>1. e \in Events /\ e.event = "started"
      BY EventIs
    <3>2. Appended(new) /\ Len(new) = 1 /\ new[1] = e
      BY <2>4, <3>1, One DEF Appended
    <3> HIDE DEF e, new
    <3>3. \A i \in 1..Len(new) : new[i].event # "config_error"
      <4>1. \A k \in 1..1 : k = 1
        OBVIOUS
      <4> QED
        BY <3>1, <3>2, <4>1
    <3> QED
      BY <1>2, <2>1, <2>2, <3>2, <3>3
  <2> QED
    BY <1>6, <2>3, <2>4 DEF GoesOn
<1> QED
  BY <1>3, <1>4, <1>5, <1>6 DEF Effect

\* What was told of one file read.
ToldOf(x) ==
  /\ x[3] \in DOMAIN ino /\ ino[x[3]].content.kind = "toml"
  /\ \A k \in DOMAIN ino[x[3]].content.settings :
       server.settings[k] # ino[x[3]].content.settings[k] =>
         \E i \in DOMAIN log : log[i] = Event("config_override", k)

LEMMA ToldKept ==
  ASSUME FilesInv, Process, Logged, Told, Effect, InodesKept,
         UNCHANGED <<profile, keygenVars>> \/ UNCHANGED startVars
  PROVE  Told'
<1>0. log \in Seq(Events)
  BY DEF Logged
<1>1. server.logging => \A x \in read : x[1] = "config" => ToldOf(x)
  BY DEF Told, ToldOf
<1>2. ASSUME NEW x, ToldOf(x), server'.settings = server.settings,
             \A i \in DOMAIN log : i \in DOMAIN log' /\ log'[i] = log[i]
      PROVE  ToldOf(x)'
  <2>1. ino[x[3]].content.kind = "toml" /\ x[3] \in DOMAIN ino
    BY <1>2 DEF ToldOf
  <2>2. ~Owned(x[3])
    BY <2>1 DEF Owned
  <2>3. x[3] \in DOMAIN ino' /\ ino'[x[3]] = ino[x[3]]
    BY <2>1, <2>2 DEF InodesKept
  <2> QED
    BY <1>2, <2>3 DEF ToldOf
<1>3. ASSUME NEW new, Appended(new) PROVE \A i \in DOMAIN log : i \in DOMAIN log' /\ log'[i] = log[i]
  BY <1>0, <1>3, Grows
\* The log grows, the settings stay, and what is read is not a configuration.
<1>4. ASSUME server.logging = server'.logging, server'.settings = server.settings,
             \A i \in DOMAIN log : i \in DOMAIN log' /\ log'[i] = log[i],
             server.logging => \A x \in read' : x \in read \/ x[1] # "config"
      PROVE  Told'
  <2>1. server'.logging => \A x \in read' : x[1] = "config" => ToldOf(x)'
    BY <1>1, <1>2, <1>4
  <2> QED
    BY <2>1 DEF Told, ToldOf
<1>5. ASSUME MayRead, server.logging PROVE \A x \in read' : x \in read \/ x[1] # "config"
  <2> SUFFICES ASSUME NEW x \in read', x \notin read PROVE x[1] # "config"
    OBVIOUS
  <2>1. PICK f \in Trusted : ReadsOne(f)
    BY <1>5 DEF MayRead
  <2>2. x = <<f, server.canon, dirent[server.canon]>> /\ server.pc = Reading(f)
    BY <2>1 DEF ReadsOne
  <2>3. f # "config"
    BY <1>5, <2>2, Readings DEF Process, Early
  <2> QED
    BY <2>2, <2>3
<1>6. CASE Stays \/ EndsWell \/ Parses \/ Checks \/ GoesOn \/ GivesUp
  <2>1. server'.logging = server.logging /\ server'.settings = server.settings
    <3>1. Rest({"drain_at", "deadline"}) \/ Rest({"pc", "exit"}) \/ Rest({"pc", "canon"}) \/ Rest({"pc", "cli"})
      BY <1>6 DEF Stays, EndsWell, GivesUp, GoesOn, Checks, Parses
    <3> QED
      BY <3>1, RestOf
  <2>2. MayRead
    BY <1>6 DEF Stays, EndsWell, GivesUp, GoesOn, Checks, Parses, MayRead
  <2>3. \A i \in DOMAIN log : i \in DOMAIN log' /\ log'[i] = log[i]
    <3>1. CASE log' = log
      BY <3>1
    <3>2. CASE \E class \in Classes : log' = log \o <<Event("config_error", class)>>
      <4>1. PICK class \in Classes : log' = log \o <<Event("config_error", class)>>
        BY <3>2
      <4>2. Event("config_error", class) \in Events
        BY EventIs
      <4>3. Appended(<<Event("config_error", class)>>)
        BY <4>1, <4>2, One DEF Appended
      <4> QED
        BY <1>3, <4>3
    <3>3. CASE log' = log \o <<Event("started", "none")>>
      <4>1. Event("started", "none") \in Events
        BY EventIs
      <4>2. Appended(<<Event("started", "none")>>)
        BY <3>3, <4>1, One DEF Appended
      <4> QED
        BY <1>3, <4>2
    <3> QED
      BY <1>6, <3>1, <3>2, <3>3 DEF Stays, EndsWell, GivesUp, GoesOn, Checks, Parses
  <2> QED
    BY <1>4, <1>5, <2>1, <2>2, <2>3
<1>7. CASE ResolvesNone
  <2>1. read' = {}
    BY <1>7 DEF ResolvesNone, Process, Early
  <2> QED
    BY <2>1 DEF Told
<1>8. CASE ResolvesFile
  <2> DEFINE j == dirent[server.canon]
             content == ino[j].content
             file == content.settings
             told == SetToSeq(overrides(server.cli, file))
             new == [i \in DOMAIN told |-> Event("config_override", told[i])]
  <2>1. /\ ResolvesTo(file) /\ server.canon \in DOMAIN dirent
        /\ parse_error(content) = "none" /\ read' = read \cup {<<"config", server.canon, j>>} /\ read = {}
    BY <1>8 DEF ResolvesFile, Process, Early
  <2>2. Rest({"pc", "logging", "settings"}) /\ server'.pc = "runtime"
        /\ server'.settings = pick(server.cli, file) /\ log' = log \o new
    BY <2>1 DEF ResolvesTo
  <2>3. /\ new \in Seq(Events)
        /\ \A k \in DOMAIN server.cli \cap DOMAIN file : \E i \in 1..Len(new) : new[i] = Event("config_override", k)
    <3>1. DOMAIN server.cli \subseteq CliFlags
      BY DEF Process
    <3> QED
      BY <3>1, OverrideEvents
  <2>4. j \in DOMAIN ino /\ content.kind = "toml"
    BY <2>1 DEF FilesInv, Disk, parse_error
  <2>5. ino' = ino
    <3>1. ~UNCHANGED startVars
      BY <1>8, <2>2 DEF startVars, ResolvesFile
    <3> QED
      BY <3>1 DEF keygenVars, fileVars
  <2>6. ASSUME NEW k \in DOMAIN file, pick(server.cli, file)[k] # file[k]
        PROVE  k \in DOMAIN server.cli
    BY <2>6 DEF pick
  <2>7. \A x \in read' : x[3] = j
    BY <2>1
  <2> HIDE DEF new, told
  <2>8. \A i \in 1..Len(new) : Len(log) + i \in DOMAIN log' /\ log'[Len(log) + i] = new[i]
    <3>1. Appended(new)
      BY <2>2, <2>3 DEF Appended
    <3> QED
      BY <1>0, <3>1, Grows
  <2>9. \A k \in DOMAIN server.cli \cap DOMAIN file : \E i \in DOMAIN log' : log'[i] = Event("config_override", k)
    BY <2>3, <2>8
  <2>10. \A k \in DOMAIN file :
           server'.settings[k] # file[k] => \E i \in DOMAIN log' : log'[i] = Event("config_override", k)
    <3> HIDE DEF file
    <3> QED
      BY <2>2, <2>6, <2>9
  <2> QED
    BY <2>4, <2>5, <2>7, <2>10 DEF Told
<1> QED
  BY <1>6, <1>7, <1>8 DEF Effect

LEMMA StartInit ==
  ASSUME Init
  PROVE  StartInv
<1> DEFINE t == Profiles[profile]
<1>1. /\ profile \in DOMAIN Profiles /\ site = t /\ ino = t.ino /\ read = {} /\ log = <<>> /\ clock = 0
      /\ link = site.link
      /\ server = [pc |-> "cli", cli |-> <<>>, settings |-> <<>>, canon |-> <<>>, logging |-> FALSE,
                   deadline |-> -1, drain_at |-> -1, exit |-> "none"]
  BY DEF Init, KeygenInit, site
<1>2. DOMAIN <<>> = {} /\ <<>> \in Seq(Events)
  OBVIOUS
<1>3. Process
  <2>1. /\ DOMAIN server = {"pc", "cli", "settings", "canon", "logging", "deadline", "drain_at", "exit"}
        /\ server.pc = "cli" /\ server.cli = <<>> /\ server.logging = FALSE /\ server.exit = "none"
    BY <1>1
  <2> QED
    BY <1>1, <1>2, <2>1 DEF Process, Early, Late
<1>4. Numbers
  BY <1>1, StartupAssumption DEF Numbers
<1>5. InRange /\ Told
  BY <1>1 DEF InRange, Told
<1>6. Logged
  BY <1>1, <1>2 DEF Logged, FailureExplained
<1>7. Surroundings
  BY <1>1, StartupAssumption DEF Surroundings
<1>8. Checked
  <2>1. \A f \in Trusted : "cli" # Reading(f)
    BY NotReading
  <2> QED
    BY <1>1, <2>1 DEF Checked
<1> QED
  BY <1>3, <1>4, <1>5, <1>6, <1>7, <1>8, FilesInit DEF StartInv

LEMMA StartKept ==
  ASSUME StartInv, [Next]_vars
  PROVE  StartInv'
<1>1. FilesInv /\ Process /\ Numbers /\ InRange /\ Logged /\ Told /\ Surroundings /\ Checked
  BY DEF StartInv
<1>2. Effect /\ (UNCHANGED <<profile, keygenVars>> \/ UNCHANGED startVars)
  BY <1>1, NextEffects
<1>3. InodesKept /\ Around /\ site' = site
  BY <1>1, InodeStep, Arounds, SiteKept
<1>4. FilesInv'
  BY <1>1, FilesKept
<1>5. Process' /\ Numbers'
  BY <1>1, <1>2, <1>3, ProcessKept, NumbersKept
<1>6. InRange' /\ Logged'
  BY <1>1, <1>2, InRangeKept, LoggedKept
<1>7. Told'
  BY <1>1, <1>2, <1>3, ToldKept
<1>8. Surroundings' /\ Checked'
  BY <1>1, <1>3, SurroundingsKept, CheckedKept
<1> QED
  BY <1>4, <1>5, <1>6, <1>7, <1>8 DEF StartInv

\* StartInv holds in every state: FilesInv, where the process is and what it has
\* by then, what its log has told, and what the files it read are.
THEOREM Invariance == Spec => []StartInv
<1>1. Init => StartInv
  BY StartInit
<1>2. StartInv /\ [Next]_vars => StartInv'
  BY StartKept
<1> QED
  BY <1>1, <1>2, PTL DEF Spec

\* Nothing is read that StrictModes would refuse, wherever the names pointed
\* between check and read, and whatever any number of keygen runs did to the
\* files (check_trusted_file, load_config_file, load_host_key, load_key_file).
THEOREM TrustedFilesOnly == Spec => []ReadsOnlyTrusted
<1>1. StartInv => ReadsOnlyTrusted
  BY DEF StartInv, Checked, TrustedFile, TrustedDir, ReadsOnlyTrusted
<1> QED
  BY <1>1, Invariance, PTL

\* A start that fails says why, exactly once and last; one that goes on has its
\* settings in range, and its log names every setting of the file that a flag
\* overrode (main, pick, config_error).
THEOREM LogIsTruthful == Spec => []LogTells
<1>1. StartInv => TypeOK
  BY DEF StartInv, FilesInv, Runs, Process, InRange, Surroundings, TypeOK
<1>2. StartInv => FailureExplained
  BY DEF StartInv, Logged
<1>3. StartInv => OverridesTold
  BY DEF StartInv, Told, OverridesTold
<1> QED
  BY <1>1, <1>2, <1>3, Invariance, PTL DEF LogTells

-----------------------------------------------------------------------------
(* The key that keygen left is served.                                       *)

Active == {"private"} \cup Between \cup Pair

\* A run that is past its start found the directory and those above it safe.
Opened == \A r \in K : gen[r].pc \in Active => ~directory_refused(Private[1])

LEMMA OpenedInit == Init => Opened
<1> SUFFICES ASSUME Init, NEW r \in K PROVE gen[r].pc \notin Active
  BY DEF Opened
<1>1. gen[r].pc = "start"
  BY DEF Init, KeygenInit, K
<1> QED
  BY <1>1 DEF Active, Between, Pair

\* No run becomes active but by the check of the directory.
LEMMA RunOpens ==
  ASSUME FilesInv, NEW r \in K, keygen(r) \/ operator_cleans(r), NEW q \in K, gen'[q].pc \in Active
  PROVE  gen[q].pc \in Active \/ ~directory_refused(Private[1])
<1>1. DOMAIN gen = K /\ DOMAIN gen[r] = {"pc", "created", "inode", "left"}
  BY DEF FilesInv, Runs, Shape
<1>2. CASE gen[r].pc \in Active
  <2>1. CASE q = r
    BY <1>2, <2>1
  <2>2. CASE q # r
    <3>1. gen'[q] = gen[q]
      BY <1>1, <2>2 DEF keygen, keygen_opens, keygen_creates, keygen_chmods, keygen_generates, keygen_writes,
                        keygen_reports, keygen_removes, keygen_killed, operator_cleans, create, write_synced, fails, goto
    <3> QED
      BY <3>1
  <2> QED
    BY <2>1, <2>2
<1>3. CASE gen[r].pc \notin Active
  <2>1. ASSUME NEW pc, goto(r, pc), pc \notin Active \/ ~directory_refused(Private[1])
        PROVE  gen[q].pc \in Active \/ ~directory_refused(Private[1])
    <3>1. gen'[q].pc = IF q = r THEN pc ELSE gen[q].pc
      BY <1>1, <2>1 DEF goto
    <3> QED
      BY <2>1, <3>1
  <2>2. /\ "start" \notin Active /\ "remove" \notin Active /\ "failed" \notin Active /\ "killed" \notin Active
        /\ {"private", "public", "chmod", "generate", "write private", "write public", "report"} \subseteq Active
    BY DEF Active, Between, Pair
  <2>3. CASE keygen_opens(r)
    BY <2>1, <2>2, <2>3 DEF keygen_opens, fails
  <2>4. CASE keygen_killed(r)
    BY <2>1, <2>2, <2>4 DEF keygen_killed
  <2>5. CASE operator_cleans(r)
    BY <2>5 DEF operator_cleans
  <2>6. CASE keygen_removes(r)
    <3>1. CASE goto(r, "failed")
      BY <2>1, <2>2, <3>1
    <3>2. CASE \/ gen' = [gen EXCEPT ![r].created = Tail(@), ![r].left = Append(@, Head(to_remove(r)))]
               \/ gen' = [gen EXCEPT ![r].created = Tail(@)]
      <4>1. CASE q # r
        <5>1. gen'[q] = gen[q]
          BY <1>1, <3>2, <4>1
        <5> QED
          BY <5>1
      <4>2. CASE q = r
        <5> DEFINE left == Append(gen[r].left, Head(to_remove(r)))
                   created == Tail(gen[r].created)
        <5>1. gen'[r] \in {[gen[r] EXCEPT !.created = created, !.left = left], [gen[r] EXCEPT !.created = created]}
          BY <1>1, <3>2
        <5> HIDE DEF left, created
        <5>2. gen'[r].pc = gen[r].pc
          BY <1>1, <5>1
        <5> QED
          BY <4>2, <5>2
      <4> QED
        BY <4>1, <4>2
    <3> QED
      BY <2>6, <3>1, <3>2 DEF keygen_removes
  <2>7. CASE keygen_creates(r) \/ keygen_chmods(r) \/ keygen_generates(r) \/ keygen_writes(r) \/ keygen_reports(r)
    <3>1. gen[r].pc \in {"private", "public", "chmod", "generate", "write private", "write public", "report"}
      BY <2>7 DEF keygen_creates, keygen_chmods, keygen_generates, keygen_writes, keygen_reports, at
    <3> QED
      BY <1>3, <2>2, <3>1
  <2> QED
    BY <2>3, <2>4, <2>5, <2>6, <2>7 DEF keygen
<1> QED
  BY <1>2, <1>3

LEMMA OpenedKept ==
  ASSUME FilesInv, Opened, [Next]_vars
  PROVE  Opened'
<1>1. site' = site
  BY SiteKept
<1>2. K' = K /\ Private' = Private /\ (directory_refused(Private[1]) <=> directory_refused(Private[1])')
  BY <1>1 DEF K, Private, directory_refused
<1>3. FilesStep
  BY NextOnFiles
<1>4. ASSUME NEW q \in K, gen'[q].pc \in Active PROVE ~directory_refused(Private[1])
  <2>1. CASE \E r \in K : keygen(r) \/ operator_cleans(r)
    BY <1>4, <2>1, RunOpens DEF Opened
  <2>2. CASE UNCHANGED keygenVars
    BY <1>4, <2>2 DEF keygenVars, Opened
  <2> QED
    BY <1>3, <2>1, <2>2 DEF FilesStep
<1> QED
  BY <1>2, <1>4 DEF Opened

\* What a run that succeeded left under the name of the private key.
LEMMA KeyLeft ==
  ASSUME FilesInv, Opened, NEW r \in K, gen[r].pc = "success"
  PROVE  /\ Private \in DOMAIN dirent /\ ~insecure(Private, "host_key")
         /\ accepted("host_key", ino[dirent[Private]].content)
<1>1. gen[r].created = <<Private, Public>> /\ gen[r].pc \notin Dead
  BY DEF FilesInv, Runs, Shape, Pair, Dead
<1>2. Private \in DOMAIN dirent /\ ino[dirent[Private]].by = r
  BY <1>1, Ranges DEF FilesInv, Held
<1>3. Own(r, 1, dirent[Private]) /\ dirent[Private] = gen[r].inode[1]
  BY <1>2, NamedFile
<1>4. ino[dirent[Private]].mode = {} /\ ino[dirent[Private]].owner = "server"
  BY <1>3, Owns
<1>5. ~directory_refused(Private[1])
  BY DEF Opened, Active, Pair
<1>6. ~insecure(Private, "host_key")
  BY <1>4, <1>5 DEF insecure, file_violation, directory_refused
<1>7. ino[dirent[Private]].content = Content("private", r, "none")
  BY <1>3 DEF FilesInv, Written, WrittenBy
<1>8. accepted("host_key", ino[dirent[Private]].content)
  BY <1>7 DEF accepted, Content
<1> QED
  BY <1>2, <1>6, <1>8

\* The step that gives up at the host key is its check, or its load.
LEMMA GivesUpAtKey ==
  ASSUME Process, [Next]_vars, server'.exit = "failure", server.pc \in {"check host_key", "read host_key"}
  PROVE  /\ server.pc = "check host_key" => not_given("host_key") \/ check_trusted_file("host_key")
         /\ server.pc = "read host_key" => load_file("host_key")
<1>1. server.exit = "none"
  BY DEF Process
<1>2. server' # server
  BY <1>1
<1>3. ASSUME NEW e, ends(e) PROVE server'.exit = e
  BY <1>3, Ending
<1>4. CASE Start
  <2>1. PICK f \in Trusted : not_given(f) \/ check_trusted_file(f) \/ load_file(f)
    BY <1>4 DEF Start, main_cli, main_no_config, main_runtime, run_bind, run_signals, run_ready, steps
  <2>2. CASE not_given(f) \/ check_trusted_file(f)
    <3>1. server.pc = Checking(f)
      BY <2>2 DEF not_given, check_trusted_file, steps
    <3>2. f = "host_key" /\ server.pc = "check host_key"
      BY <3>1, Readings DEF Trusted
    <3> QED
      BY <2>2, <3>2
  <2>3. CASE load_file(f)
    <3>1. server.pc = Reading(f)
      BY <2>3 DEF load_file, steps
    <3>2. f = "host_key" /\ server.pc = "read host_key"
      BY <3>1, Readings DEF Trusted
    <3> QED
      BY <2>3, <3>2
  <2> QED
    BY <2>1, <2>2, <2>3
<1>5. CASE UNCHANGED vars
  BY <1>2, <1>5 DEF vars, startVars
<1>6. CASE Files
  BY <1>2, <1>6 DEF Files, startVars, operator_retargets
<1>7. CASE listener_hears
  <2>1. \/ server' = [server EXCEPT !.drain_at = clock,
                                    !.deadline = deadline_seen(drain_deadline(clock, drain_timeout))]
        \/ server' = [server EXCEPT !.deadline = clock]
    BY <1>7 DEF listener_hears
  <2>2. server'.exit = server.exit
    BY <2>1 DEF Process
  <2> QED
    BY <1>1, <2>2
<1>8. CASE serve \/ serve_aborts
  BY <1>8 DEF serve, serve_aborts, steps
<1>9. CASE systemd_kills \/ tick \/ \E k \in {"TERM", "INT"} : signal_comes(k)
  BY <1>2, <1>3, <1>9 DEF systemd_kills, tick, signal_comes
<1> QED
  BY <1>4, <1>5, <1>6, <1>7, <1>8, <1>9 DEF Next

\* The step, as KeygenServes describes it.
ServesKey ==
  /\ \/ server.pc = "check host_key" /\ given("host_key") /\ link[name_of("host_key")] = Private
     \/ server.pc = "read host_key" /\ server.canon = Private
  /\ server'.exit = "failure"
  => \A r \in site.keygens : gen[r].pc # "success"

\* The server accepts the key of a keygen run that succeeded, whatever other runs
\* did before, fail to do or are doing: it is not refused for its mode, its
\* directory or its content (check_directory, write_pair, check_trusted_file).
THEOREM KeygenKeyIsServed == Spec => KeygenServes
<1>1. StartInv /\ Opened /\ [Next]_vars => Opened'
  BY OpenedKept DEF StartInv
<1>2. StartInv /\ Opened /\ [Next]_vars => [ServesKey]_vars
  <2> SUFFICES ASSUME StartInv, Opened, [Next]_vars, server'.exit = "failure",
                      \/ server.pc = "check host_key" /\ given("host_key") /\ link[name_of("host_key")] = Private
                      \/ server.pc = "read host_key" /\ server.canon = Private,
                      NEW r \in K, gen[r].pc = "success"
               PROVE  FALSE
    BY DEF ServesKey, K
  <2>1. /\ Private \in DOMAIN dirent /\ ~insecure(Private, "host_key")
        /\ accepted("host_key", ino[dirent[Private]].content)
    BY KeyLeft DEF StartInv
  <2>2. Process /\ server.exit = "none"
    BY DEF StartInv, Process
  <2>3. CASE server.pc = "check host_key" /\ given("host_key") /\ link[name_of("host_key")] = Private
    <3>1. check_trusted_file("host_key")
      BY <2>2, <2>3, GivesUpAtKey DEF not_given
    <3>2. server' = [server EXCEPT !.pc = Reading("host_key"), !.canon = Private]
      BY <2>1, <2>3, <3>1 DEF check_trusted_file
    <3>3. server'.exit = server.exit
      BY <2>2, <3>2 DEF Process
    <3> QED
      BY <2>2, <3>3
  <2>4. CASE server.pc = "read host_key" /\ server.canon = Private
    <3>1. load_file("host_key")
      BY <2>2, <2>4, GivesUpAtKey
    <3>2. server' = [server EXCEPT !.pc = Following["host_key"]]
      BY <2>1, <2>4, <3>1 DEF load_file, path_to_read
    <3>3. server'.exit = server.exit
      BY <2>2, <3>2 DEF Process
    <3> QED
      BY <2>2, <3>3
  <2> QED
    BY <2>3, <2>4
<1>3. KeygenServes <=> [][ServesKey]_vars
  BY PTL DEF KeygenServes, ServesKey
<1> QED
  BY <1>1, <1>2, <1>3, OpenedInit, Invariance, PTL DEF Spec

-----------------------------------------------------------------------------
(* A stop: the signals, the drain and systemd's timer.                       *)

Running == {"ready", "serve"}

\* The handlers are tried once, before readiness; a signal is heard only with
\* them, when the settings are final.
Heard ==
  /\ DOMAIN signals = {"came", "pending", "handlers", "heard"} /\ signals.heard \in 0..2
  /\ signals.handlers \in {"default", "installed", "failed"}
  /\ signals.handlers # "default" => server.pc \in Running \cup {"over"} /\ server.logging
  /\ server.pc \in Running => signals.handlers # "default"
  /\ signals.heard > 0 => signals.handlers = "installed"

\* What the accept loop was told, by the number of signals heard.
Deadlines ==
  /\ signals.heard = 0 => server.deadline = -1
  /\ signals.heard > 0 => server.drain_at \in 0..clock
  /\ signals.heard = 1 => server.deadline = drain_deadline(server.drain_at, drain_timeout)
  /\ signals.heard = 2 => server.deadline \in 0..clock

\* The stop timer that STOPPING extended outlasts the drain and its grace.
Timer ==
  /\ DOMAIN systemd = {"ready", "stopping", "kill_at"} /\ systemd.kill_at \in Nat \cup {-1}
  /\ systemd.ready => signals.handlers # "default"
  /\ systemd.stopping => /\ signals.heard > 0
                         /\ systemd.kill_at >= server.drain_at + drain_timeout + STOP_MARGIN
                         /\ server.pc # "over" => clock < systemd.kill_at

StopInv == Heard /\ Deadlines /\ Timer /\ ReadyMeansDrains /\ DrainGetsItsTime /\ SystemdWaits

LEMMA SmallerOf ==
  ASSUME NEW a \in Nat, NEW b \in Nat
  PROVE  Min({a, b}) \in {a, b} /\ Min({a, b}) <= a /\ Min({a, b}) <= b
<1>1. \E x \in {a, b} : \A y \in {a, b} : x <= y
  OBVIOUS
<1> QED
  BY <1>1 DEF Min

LEMMA LargestOf ==
  ASSUME NEW a \in Int, NEW b \in Int, NEW x \in Int
  PROVE  Max({a, b, x}) \in {a, b, x} /\ Max({a, b, x}) >= a /\ Max({a, b, x}) >= b /\ Max({a, b, x}) >= x
<1>1. \E m \in {a, b, x} : \A y \in {a, b, x} : m >= y
  OBVIOUS
<1> QED
  BY <1>1 DEF Max

\* A drain is never longer than configured, nor shorter unless the clock ends.
LEMMA DeadlineBounds ==
  ASSUME NEW now \in 0..MaxTime, NEW drain \in Nat
  PROVE  /\ drain_deadline(now, drain) \in Nat /\ drain_deadline(now, drain) <= now + drain
         /\ drain_deadline(now, drain) >= now + Min({drain, FAR_FUTURE})
<1>1. MaxTime \in Nat /\ FAR_FUTURE \in Nat /\ INSTANT_MAX \in Nat /\ MaxTime + FAR_FUTURE <= INSTANT_MAX
  BY StartupAssumption
<1>2. Min({drain, FAR_FUTURE}) \in Nat /\ Min({drain, FAR_FUTURE}) <= drain /\ Min({drain, FAR_FUTURE}) <= FAR_FUTURE
  BY <1>1, SmallerOf
<1>3. CASE now + drain <= INSTANT_MAX
  <2>1. drain_deadline(now, drain) = now + drain
    BY <1>3 DEF drain_deadline
  <2> QED
    BY <1>1, <1>2, <2>1
<1>4. CASE ~(now + drain <= INSTANT_MAX)
  <2>1. drain_deadline(now, drain) = now + FAR_FUTURE
    BY <1>4 DEF drain_deadline
  <2>2. FAR_FUTURE <= drain
    BY <1>1, <1>4
  <2> QED
    BY <1>1, <1>2, <2>1, <2>2
<1> QED
  BY <1>3, <1>4

LEMMA DrainTimeout ==
  ASSUME StartInv, server.logging
  PROVE  drain_timeout \in Nat
<1>1. "drain_timeout" \in DOMAIN server.settings
  BY DEF StartInv, InRange, Defaults
<1>2. "drain_timeout" \in Bounded /\ "drain_timeout" \notin DOMAIN server.cli
  BY DEF Bounded, StartInv, Process, CliFlags
<1>3. server.settings["drain_timeout"] \in 1..MaxInteger
  BY <1>1, <1>2 DEF StartInv, InRange
<1>4. MaxInteger \in Nat
  BY StartupAssumption
<1> QED
  BY <1>3, <1>4 DEF drain_timeout

LEMMA StopInit == Init => StopInv
<1> SUFFICES ASSUME Init PROVE StopInv
  OBVIOUS
<1>1. /\ server.pc = "cli" /\ server.exit = "none" /\ server.deadline = -1
      /\ signals = [came |-> 0, pending |-> {}, handlers |-> "default", heard |-> 0]
      /\ systemd = [ready |-> FALSE, stopping |-> FALSE, kill_at |-> -1]
  BY DEF Init
<1>2. Heard /\ Deadlines
  BY <1>1 DEF Heard, Deadlines, Running
<1>3. Timer
  BY <1>1 DEF Timer
<1> QED
  BY <1>1, <1>2, <1>3 DEF StopInv, ReadyMeansDrains, DrainGetsItsTime, SystemdWaits

\* Before the handlers nothing was heard, and nothing told to systemd.
LEMMA BeforeHandlers ==
  ASSUME StopInv, server.pc \notin Running \cup {"over"}
  PROVE  signals.handlers = "default" /\ signals.heard = 0 /\ ~systemd.ready /\ ~systemd.stopping /\ server.deadline = -1
BY DEF StopInv, Heard, Deadlines, Timer

EarlyStep ==
  /\ server.pc \notin Running \cup {"over"} /\ server'.pc \notin Running
  /\ server'.deadline = server.deadline
  /\ signals' = signals /\ systemd' = systemd

LEMMA EarlySteps ==
  ASSUME StopInv, EarlyStep
  PROVE  StopInv'
<1>1. signals.handlers = "default" /\ signals.heard = 0 /\ ~systemd.ready /\ ~systemd.stopping /\ server.deadline = -1
  BY BeforeHandlers DEF EarlyStep
<1>2. Heard'
  BY <1>1 DEF StopInv, Heard, EarlyStep
<1>3. Deadlines'
  BY <1>1 DEF Deadlines, EarlyStep
<1>4. Timer'
  BY <1>1 DEF StopInv, Timer, EarlyStep
<1>5. signals'.heard = 0 /\ ~systemd'.ready /\ ~systemd'.stopping
  BY <1>1 DEF EarlyStep
<1>6. ReadyMeansDrains' /\ SystemdWaits'
  BY <1>5, Zenon DEF ReadyMeansDrains, SystemdWaits
<1>7. DrainGetsItsTime'
  BY <1>5 DEF DrainGetsItsTime
<1> QED
  BY <1>2, <1>3, <1>4, <1>6, <1>7 DEF StopInv

\* A process that has not ended has no exit to explain.
LEMMA NotEnded ==
  ASSUME server.exit = "none"
  PROVE  ReadyMeansDrains /\ DrainGetsItsTime /\ SystemdWaits
BY DEF ReadyMeansDrains, DrainGetsItsTime, SystemdWaits

\* The start up to the handlers tells nobody anything.
LEMMA EarlyStart ==
  ASSUME Process, Start, ~run_signals, ~run_ready
  PROVE  EarlyStep
<1> DEFINE Quiet == server'.deadline = server.deadline /\ server'.pc \notin Running
<1>1. ASSUME NEW e, ends(e) PROVE Quiet
  <2>1. Rest({"pc", "exit"}) /\ server'.pc = "over"
    BY <1>1, Ending
  <2> QED
    BY <2>1 DEF Rest, Process, Running
<1>2. ASSUME NEW file, resolves(file) PROVE Quiet
  <2>1. Rest({"pc", "logging", "settings"}) /\ server'.pc = "runtime"
    BY <1>2, Resolving DEF ResolvesTo
  <2> QED
    BY <2>1 DEF Rest, Process, Running
<1>3. ASSUME NEW pc, pc \notin Running, server' = [server EXCEPT !.pc = pc] PROVE Quiet
  BY <1>3 DEF Process
<1>4. ASSUME NEW pc, pc \notin Running, NEW path, server' = [server EXCEPT !.pc = pc, !.canon = path] PROVE Quiet
  BY <1>4 DEF Process
<1>5. ASSUME NEW pc, pc \notin Running, NEW cli, server' = [server EXCEPT !.cli = cli, !.pc = pc] PROVE Quiet
  BY <1>5 DEF Process
<1>6. \A f \in Trusted : /\ Reading(f) \notin Running \cup {"over"} /\ Checking(f) \notin Running \cup {"over"}
                         /\ Following[f] \notin Running
  BY Readings DEF Running, Trusted
<1>7. {"cli", "resolve", "runtime", "bind", "signals", "check config", "check host_key"} \cap (Running \cup {"over"}) = {}
  BY DEF Running
<1> DEFINE Silent == server.pc \notin Running \cup {"over"} /\ signals' = signals /\ systemd' = systemd
<1> HIDE DEF Quiet
<1>8. CASE \E args \in site.args : main_cli(args)
  <2>1. PICK args \in site.args : main_cli(args)
    BY <1>8
  <2> DEFINE o == parse_cli(args)
             pc == IF "config" \in DOMAIN o.cli THEN "check config" ELSE "resolve"
  <2>2. Silent
    BY <1>7, <2>1 DEF main_cli, steps, quiet
  <2>3. \/ \E e : ends(e)
        \/ server' = [server EXCEPT !.cli = o.cli, !.pc = pc]
    BY <2>1 DEF main_cli
  <2>4. pc \notin Running
    BY <1>7
  <2> HIDE DEF pc, o
  <2>5. Quiet
    BY <1>1, <1>5, <2>3, <2>4
  <2> QED
    BY <2>2, <2>5 DEF EarlyStep, Quiet
<1>9. CASE main_no_config
  <2>1. Silent
    BY <1>7, <1>9 DEF main_no_config, steps, resolves, quiet
  <2>2. Quiet
    BY <1>2, <1>9 DEF main_no_config
  <2> QED
    BY <2>1, <2>2 DEF EarlyStep, Quiet
<1>10. CASE main_runtime
  <2>1. Silent
    BY <1>7, <1>10 DEF main_runtime, steps, config_error, quiet
  <2>2. Quiet
    BY <1>1, <1>3, <1>7, <1>10 DEF main_runtime, config_error
  <2> QED
    BY <2>1, <2>2 DEF EarlyStep, Quiet
<1>11. CASE run_bind
  <2>1. Silent
    BY <1>7, <1>11 DEF run_bind, steps, config_error, quiet
  <2>2. run_order.bind = "signals"
    BY DEF run_order
  <2>3. Quiet
    BY <1>1, <1>3, <1>7, <1>11, <2>2 DEF run_bind, config_error
  <2> QED
    BY <2>1, <2>3 DEF EarlyStep, Quiet
<1>12. ASSUME NEW class, fails_with(class) PROVE Quiet /\ quiet
  BY <1>1, <1>12 DEF fails_with, main_config_failed, config_error
<1>13. ASSUME NEW f \in Trusted, not_given(f) PROVE EarlyStep
  <2>1. Silent
    BY <1>6, <1>13 DEF not_given, steps, config_error, quiet
  <2>2. Quiet
    BY <1>1, <1>3, <1>6, <1>13 DEF not_given, config_error
  <2> QED
    BY <2>1, <2>2 DEF EarlyStep, Quiet
<1>14. ASSUME NEW f \in Trusted, check_trusted_file(f) PROVE EarlyStep
  <2>1. Quiet /\ quiet
    BY <1>4, <1>6, <1>12, <1>14 DEF check_trusted_file
  <2>2. Silent
    BY <1>6, <1>14, <2>1 DEF check_trusted_file, steps, quiet
  <2> QED
    BY <2>1, <2>2 DEF EarlyStep, Quiet
<1>15. ASSUME NEW f \in Trusted, load_file(f) PROVE EarlyStep
  <2>1. \/ \E class : fails_with(class)
        \/ \E file : resolves(file)
        \/ server' = [server EXCEPT !.pc = Following[f]] /\ quiet
    BY <1>15, Zenon DEF load_file
  <2>2. Quiet /\ quiet
    <3>1. CASE \E class : fails_with(class)
      BY <1>12, <3>1
    <3>2. CASE \E file : resolves(file)
      BY <1>2, <3>2 DEF resolves
    <3>3. CASE server' = [server EXCEPT !.pc = Following[f]] /\ quiet
      BY <1>3, <1>6, <3>3
    <3> QED
      BY <2>1, <3>1, <3>2, <3>3
  <2>3. Silent
    BY <1>6, <1>15, <2>2 DEF load_file, steps, quiet
  <2> QED
    BY <2>2, <2>3 DEF EarlyStep, Quiet
<1> QED
  BY <1>8, <1>9, <1>10, <1>11, <1>13, <1>14, <1>15 DEF Start

\* Nothing of a stop changes.
LEMMA StopUnchanged ==
  ASSUME StopInv, server' = server, signals' = signals, systemd' = systemd, clock' = clock
  PROVE  StopInv'
<1>1. drain_timeout' = drain_timeout
  BY DEF drain_timeout
<1>2. Heard' /\ Deadlines'
  BY <1>1 DEF StopInv, Heard, Deadlines, drain_deadline
<1>3. Timer'
  BY <1>1 DEF StopInv, Timer
<1>4. ReadyMeansDrains' /\ SystemdWaits'
  BY DEF StopInv, ReadyMeansDrains, SystemdWaits
<1>5. DrainGetsItsTime'
  BY <1>1 DEF StopInv, DrainGetsItsTime
<1> QED
  BY <1>2, <1>3, <1>4, <1>5 DEF StopInv

\* The process ends; what it heard and told stays. A first stop timer may be set.
LEMMA StopEnds ==
  ASSUME StopInv, Process, NEW e, ends(e), clock' = clock, DOMAIN signals' = DOMAIN signals,
         signals'.heard = signals.heard, signals'.handlers = signals.handlers, DOMAIN systemd' = DOMAIN systemd,
         systemd'.ready = systemd.ready, systemd'.stopping = systemd.stopping, systemd'.kill_at \in Nat \cup {-1},
         systemd.stopping => systemd'.kill_at = systemd.kill_at
  PROVE  Heard' /\ Deadlines' /\ Timer'
<1>1. Rest({"pc", "exit"}) /\ server'.pc = "over"
  BY Ending
<1>2. /\ server'.deadline = server.deadline /\ server'.drain_at = server.drain_at /\ server'.logging = server.logging
      /\ server'.settings = server.settings
  BY <1>1 DEF Rest, Process
<1>3. drain_timeout' = drain_timeout
  BY <1>2 DEF drain_timeout
<1>4. Heard'
  BY <1>1, <1>2 DEF StopInv, Heard, Running
<1>5. Deadlines'
  BY <1>2, <1>3 DEF StopInv, Deadlines, drain_deadline
<1>6. Timer'
  BY <1>1, <1>2, <1>3 DEF StopInv, Timer
<1> QED
  BY <1>4, <1>5, <1>6

LEMMA RunSignalsStops ==
  ASSUME StopInv, Process, run_signals
  PROVE  StopInv'
<1>1. server.pc = "signals" /\ systemd' = systemd /\ clock' = clock /\ server' = [server EXCEPT !.pc = "ready"]
  BY DEF run_signals, steps, run_order
<1>2. signals.heard = 0 /\ ~systemd.ready /\ ~systemd.stopping /\ server.deadline = -1
  BY <1>1, BeforeHandlers DEF Running
<1>3. server.logging /\ server.exit = "none"
  BY <1>1 DEF Process, Late
<1>4. server'.pc = "ready" /\ server'.logging /\ server'.deadline = -1 /\ server'.exit = "none"
  BY <1>1, <1>2, <1>3 DEF Process
<1>5. /\ signals'.handlers \in {"installed", "failed"} /\ signals'.heard = 0
      /\ DOMAIN signals' = {"came", "pending", "handlers", "heard"}
  BY <1>2 DEF run_signals, StopInv, Heard
<1>6. Heard'
  BY <1>4, <1>5 DEF Heard, Running
<1>7. Deadlines'
  BY <1>4, <1>5 DEF Deadlines
<1>8. Timer'
  BY <1>1, <1>2, <1>5 DEF StopInv, Timer
<1>9. ReadyMeansDrains' /\ DrainGetsItsTime' /\ SystemdWaits'
  BY <1>4 DEF ReadyMeansDrains, DrainGetsItsTime, SystemdWaits
<1> QED
  BY <1>6, <1>7, <1>8, <1>9 DEF StopInv

LEMMA RunReadyStops ==
  ASSUME StopInv, Process, run_ready
  PROVE  StopInv'
<1>1. server.pc = "ready" /\ signals' = signals /\ clock' = clock /\ server' = [server EXCEPT !.pc = "serve"]
  BY DEF run_ready, steps, run_order
<1>2. server.exit = "none"
  BY <1>1 DEF Process
<1>3. /\ server'.pc = "serve" /\ server'.logging = server.logging /\ server'.deadline = server.deadline
      /\ server'.drain_at = server.drain_at /\ server'.exit = "none" /\ server'.settings = server.settings
  BY <1>1, <1>2 DEF Process
<1>4. /\ systemd'.stopping = systemd.stopping /\ systemd'.kill_at = systemd.kill_at
      /\ DOMAIN systemd' = DOMAIN systemd
  BY DEF run_ready, StopInv, Timer
<1>5. drain_timeout' = drain_timeout
  BY <1>3 DEF drain_timeout
<1>6. Heard' /\ signals'.handlers # "default"
  BY <1>1, <1>3 DEF StopInv, Heard, Running
<1>7. Deadlines'
  BY <1>1, <1>3, <1>5 DEF StopInv, Deadlines, drain_deadline
<1>8. Timer'
  BY <1>1, <1>3, <1>4, <1>5, <1>6 DEF StopInv, Timer
<1>9. ReadyMeansDrains' /\ DrainGetsItsTime' /\ SystemdWaits'
  BY <1>3 DEF ReadyMeansDrains, DrainGetsItsTime, SystemdWaits
<1> QED
  BY <1>6, <1>7, <1>8, <1>9 DEF StopInv

LEMMA ServeStops ==
  ASSUME StopInv, StartInv, serve \/ serve_aborts
  PROVE  StopInv'
<1>0. Process
  BY DEF StartInv
<1>1. clock' = clock /\ signals' = signals /\ systemd' = systemd /\ server.pc = "serve"
  BY DEF serve, serve_aborts, steps, config_error, quiet
<1>2. PICK e \in {"failure", "drained", "aborted"} :
        ends(e) /\ (e = "aborted" => clock >= server.deadline)
  BY DEF serve, serve_aborts, config_error
<1>3. Rest({"pc", "exit"}) /\ server'.exit = e
  BY <1>0, <1>2, Ending
<1>4. systemd.kill_at \in Nat \cup {-1}
  BY DEF StopInv, Timer
<1>5. Heard' /\ Deadlines' /\ Timer'
  BY <1>0, <1>1, <1>2, <1>4, StopEnds
<1>6. ReadyMeansDrains' /\ SystemdWaits'
  BY <1>2, <1>3 DEF ReadyMeansDrains, SystemdWaits
<1>7. DrainGetsItsTime'
  <2>1. SUFFICES ASSUME e = "aborted", signals.heard = 1
                 PROVE  clock >= server.drain_at + Min({drain_timeout, FAR_FUTURE})
    <3>1. server'.drain_at = server.drain_at /\ server'.settings = server.settings
      BY <1>0, <1>3 DEF Rest, Process
    <3> QED
      BY <1>1, <1>3, <3>1 DEF DrainGetsItsTime, drain_timeout
  <2>2. clock >= server.deadline
    BY <1>2, <2>1
  <2>3. /\ clock \in 0..MaxTime /\ MaxTime \in Nat /\ server.drain_at \in 0..clock
        /\ server.deadline = drain_deadline(server.drain_at, drain_timeout)
    BY <2>1, StartupAssumption DEF StartInv, Surroundings, StopInv, Deadlines
  <2>4. drain_timeout \in Nat
    BY <1>0, <1>1, DrainTimeout DEF Process, Late
  <2>5. server.drain_at \in 0..MaxTime
    BY <2>3
  <2>6. drain_deadline(server.drain_at, drain_timeout) \in Nat
        /\ drain_deadline(server.drain_at, drain_timeout) >= server.drain_at + Min({drain_timeout, FAR_FUTURE})
    BY <2>4, <2>5, DeadlineBounds
  <2>7. Min({drain_timeout, FAR_FUTURE}) \in Nat
    BY <2>4, SmallerOf, StartupAssumption
  <2> QED
    BY <2>2, <2>3, <2>5, <2>6, <2>7
<1> QED
  BY <1>5, <1>6, <1>7 DEF StopInv

LEMMA SystemdStops ==
  ASSUME StopInv, StartInv, systemd_kills
  PROVE  StopInv'
<1>0. Process /\ clock \in Nat
  BY StartupAssumption DEF StartInv, Surroundings
<1>1. clock' = clock /\ signals' = signals /\ systemd' = systemd /\ ends("killed by systemd")
  BY DEF systemd_kills
<1>2. server'.exit = "killed by systemd"
  BY <1>0, <1>1, Ending
<1>3. systemd.kill_at \in Nat \cup {-1} /\ ~systemd.stopping
  <2>1. systemd.kill_at \in Int /\ systemd.kill_at \in Nat \cup {-1}
    BY DEF StopInv, Timer
  <2>2. ~(clock < systemd.kill_at)
    <3>1. clock >= systemd.kill_at
      BY Zenon DEF systemd_kills
    <3> QED
      BY <1>0, <2>1, <3>1
  <2>3. systemd.stopping => clock < systemd.kill_at
    BY Zenon DEF StopInv, Timer, systemd_kills
  <2> QED
    BY <2>1, <2>2, <2>3
<1>4. Heard' /\ Deadlines' /\ Timer'
  BY <1>0, <1>1, <1>3, StopEnds
<1>5. ReadyMeansDrains' /\ SystemdWaits' /\ DrainGetsItsTime'
  BY <1>1, <1>2, <1>3 DEF ReadyMeansDrains, SystemdWaits, DrainGetsItsTime
<1> QED
  BY <1>4, <1>5 DEF StopInv

\* Time goes on only short of the abort, and so short of systemd's timer.
LEMMA TickStops ==
  ASSUME StopInv, StartInv, tick
  PROVE  StopInv'
<1>0. Process /\ clock \in 0..MaxTime /\ MaxTime \in Nat /\ clock \in Nat
  BY StartupAssumption DEF StartInv, Surroundings
<1>1. /\ server' = server /\ signals' = signals /\ systemd' = systemd /\ server.pc = "serve"
      /\ server.deadline # -1 => clock < abort_at
  BY DEF tick
<1>2. clock' = clock + 1
  BY DEF tick
<1>3. drain_timeout \in Nat /\ drain_timeout' = drain_timeout
  <2>1. server.logging
    BY <1>0, <1>1 DEF Process, Late
  <2> QED
    BY <1>1, <2>1, DrainTimeout DEF drain_timeout
<1>4. server.exit = "none"
  BY <1>0, <1>1 DEF Process
<1>5. Heard'
  BY <1>1 DEF StopInv, Heard
<1>6. Deadlines'
  <2>1. (server.drain_at \in 0..clock => server.drain_at \in 0..clock')
        /\ (server.deadline \in 0..clock => server.deadline \in 0..clock')
    BY <1>0, <1>2
  <2> QED
    BY <1>1, <1>3, <2>1 DEF StopInv, Deadlines, drain_deadline
<1>7. systemd.stopping => clock + 1 < systemd.kill_at
  <2> SUFFICES ASSUME systemd.stopping PROVE clock + 1 < systemd.kill_at
    OBVIOUS
  <2>1. /\ signals.heard > 0 /\ signals.heard \in 0..2 /\ systemd.kill_at \in Nat \cup {-1}
        /\ systemd.kill_at >= server.drain_at + drain_timeout + STOP_MARGIN
    BY Zenon DEF StopInv, Heard, Timer
  <2>2. CASE signals.heard = 1
    <3>1. /\ server.drain_at \in 0..clock /\ server.deadline = drain_deadline(server.drain_at, drain_timeout)
      BY <2>2 DEF StopInv, Deadlines
    <3>2. server.drain_at \in 0..MaxTime /\ server.drain_at \in Nat
      BY <1>0, <3>1
    <3>3. server.deadline \in Nat /\ server.deadline <= server.drain_at + drain_timeout
      BY <1>3, <3>1, <3>2, DeadlineBounds
    <3>4. clock < server.deadline + ABORT_GRACE
      BY <1>1, <2>2, <3>3 DEF abort_at
    <3>5. ABORT_GRACE \in Nat /\ STOP_MARGIN \in Nat /\ ABORT_GRACE < STOP_MARGIN
      BY StartupAssumption
    <3>6. clock + 1 < server.drain_at + drain_timeout + STOP_MARGIN
      BY <1>0, <1>3, <3>2, <3>3, <3>4, <3>5
    <3> QED
      BY <1>0, <1>3, <2>1, <3>2, <3>5, <3>6
  <2>3. CASE signals.heard = 2
    <3>1. server.deadline \in 0..clock
      BY <2>3 DEF StopInv, Deadlines
    <3>2. clock < server.deadline
      BY <1>0, <1>1, <2>3, <3>1 DEF abort_at
    <3> QED
      BY <1>0, <3>1, <3>2
  <2> QED
    BY <2>1, <2>2, <2>3
<1>8. Timer'
  <2>1. systemd.stopping => clock' < systemd.kill_at
    BY <1>2, <1>7
  <2> QED
    BY <1>1, <1>3, <2>1 DEF StopInv, Timer
<1>9. ReadyMeansDrains' /\ DrainGetsItsTime' /\ SystemdWaits'
  BY <1>1, <1>4 DEF ReadyMeansDrains, DrainGetsItsTime, SystemdWaits
<1> QED
  BY <1>5, <1>6, <1>8, <1>9 DEF StopInv

\* A signal that finds no handler finds nothing told to systemd either, unless
\* the handlers failed.
LEMMA SignalStops ==
  ASSUME StopInv, StartInv, NEW k, signal_comes(k)
  PROVE  StopInv'
<1>0. Process /\ clock \in Nat /\ TimeoutStop \in Nat /\ STOP_MARGIN \in Nat
  BY StartupAssumption DEF StartInv, Surroundings
<1>1. clock' = clock /\ server.pc # "over"
  BY DEF signal_comes
<1>2. /\ DOMAIN signals' = DOMAIN signals /\ signals'.heard = signals.heard /\ signals'.handlers = signals.handlers
  BY DEF signal_comes, StopInv, Heard
<1>3. /\ DOMAIN systemd' = DOMAIN systemd /\ systemd'.ready = systemd.ready /\ systemd'.stopping = systemd.stopping
      /\ systemd' = systemd \/ (systemd.kill_at = -1 /\ systemd'.kill_at = clock + TimeoutStop)
  BY DEF signal_comes, StopInv, Timer
<1>4. systemd.stopping => systemd.kill_at # -1
  <2> SUFFICES ASSUME systemd.stopping PROVE systemd.kill_at # -1
    OBVIOUS
  <2>1. /\ signals.heard > 0 /\ server.drain_at \in 0..clock
        /\ systemd.kill_at >= server.drain_at + drain_timeout + STOP_MARGIN
    BY DEF StopInv, Timer, Deadlines
  <2>2. server.logging
    BY <2>1 DEF StopInv, Heard
  <2> QED
    BY <1>0, <2>1, <2>2, DrainTimeout
<1>5. /\ systemd'.kill_at \in Nat \cup {-1}
      /\ systemd.stopping => systemd'.kill_at = systemd.kill_at
  <2>1. CASE systemd' = systemd
    BY <2>1 DEF StopInv, Timer
  <2>2. CASE systemd.kill_at = -1 /\ systemd'.kill_at = clock + TimeoutStop
    BY <1>0, <1>4, <2>2
  <2> QED
    BY <1>3, <2>1, <2>2
<1>6. CASE signals.handlers # "installed" /\ ends("killed")
  <2>1. Heard' /\ Deadlines' /\ Timer'
    BY <1>0, <1>1, <1>2, <1>3, <1>5, <1>6, StopEnds
  <2>2. server'.exit = "killed"
    BY <1>0, <1>6, Ending
  <2>3. systemd.ready => signals.handlers = "failed"
    BY <1>6 DEF StopInv, Timer, Heard
  <2>4. ReadyMeansDrains'
    BY <1>2, <1>3, <2>3 DEF ReadyMeansDrains
  <2>5. DrainGetsItsTime' /\ SystemdWaits'
    BY <2>2 DEF DrainGetsItsTime, SystemdWaits
  <2> QED
    BY <2>1, <2>4, <2>5 DEF StopInv
<1>7. CASE server' = server
  <2>1. server.exit = "none" /\ drain_timeout' = drain_timeout
    BY <1>0, <1>1, <1>7 DEF Process, drain_timeout
  <2>2. Heard'
    BY <1>2, <1>7 DEF StopInv, Heard
  <2>3. Deadlines'
    BY <1>1, <1>2, <1>7, <2>1 DEF StopInv, Deadlines, drain_deadline
  <2>4. Timer'
    BY <1>1, <1>2, <1>3, <1>5, <1>7, <2>1 DEF StopInv, Timer
  <2>5. ReadyMeansDrains' /\ DrainGetsItsTime' /\ SystemdWaits'
    BY <1>7, <2>1 DEF ReadyMeansDrains, DrainGetsItsTime, SystemdWaits
  <2> QED
    BY <2>2, <2>3, <2>4, <2>5 DEF StopInv
<1> QED
  BY <1>6, <1>7 DEF signal_comes

\* The first signal sets the deadline and extends the timer; the second ends the
\* drain.
LEMMA ListenerStops ==
  ASSUME StopInv, StartInv, listener_hears
  PROVE  StopInv'
<1>0. Process /\ clock \in 0..MaxTime /\ MaxTime \in Nat /\ clock \in Nat
  BY StartupAssumption DEF StartInv, Surroundings
<1>1. /\ clock' = clock /\ server.pc # "over" /\ signals.heard < 2 /\ signals.handlers = "installed"
  BY DEF listener_hears
<1>2. /\ DOMAIN signals' = DOMAIN signals /\ signals'.heard = signals.heard + 1
      /\ signals'.handlers = signals.handlers
  BY DEF listener_hears, StopInv, Heard
<1>3. signals.heard \in 0..2 /\ server.pc \in Running /\ server.logging /\ server.exit = "none"
  BY <1>0, <1>1 DEF StopInv, Heard, Process
<1>4. drain_timeout \in Nat
  BY <1>3, DrainTimeout
<1>5. \/ server' = [server EXCEPT !.drain_at = clock,
                                  !.deadline = deadline_seen(drain_deadline(clock, drain_timeout))]
      \/ server' = [server EXCEPT !.deadline = clock]
  BY DEF listener_hears
<1>6. /\ server'.pc = server.pc /\ server'.logging = server.logging /\ server'.settings = server.settings
      /\ server'.exit = "none"
  BY <1>0, <1>3, <1>5 DEF Process
<1>7. drain_timeout' = drain_timeout
  BY <1>6 DEF drain_timeout
<1>8. Heard'
  <2>1. signals'.heard \in 0..2
    BY <1>1, <1>2, <1>3
  <2> QED
    BY <1>1, <1>2, <1>3, <1>6, <2>1 DEF StopInv, Heard
<1>9. ReadyMeansDrains' /\ DrainGetsItsTime' /\ SystemdWaits'
  BY <1>6 DEF ReadyMeansDrains, DrainGetsItsTime, SystemdWaits
<1>10. CASE signals.heard = 0
  <2>1. server' = [server EXCEPT !.drain_at = clock, !.deadline = drain_deadline(clock, drain_timeout)]
    BY <1>10 DEF listener_hears, deadline_seen
  <2>2. server'.drain_at = clock /\ server'.deadline = drain_deadline(clock, drain_timeout)
    BY <1>0, <2>1 DEF Process
  <2>3. signals'.heard = 1
    BY <1>2, <1>10
  <2>4. Deadlines'
    <3>1. server'.drain_at \in 0..clock'
      BY <1>0, <1>1, <2>2
    <3>2. server'.deadline = drain_deadline(server.drain_at, drain_timeout)'
      BY <1>7, <2>2 DEF drain_deadline
    <3> QED
      BY <2>3, <3>1, <3>2 DEF Deadlines
  <2>5. ~systemd.stopping
    BY <1>10 DEF StopInv, Timer
  <2> DEFINE kill == Max({systemd.kill_at, clock + TimeoutStop, clock + stopping(drain_timeout)})
  <2>6. \/ systemd' = systemd
        \/ systemd' = [systemd EXCEPT !.stopping = TRUE, !.kill_at = kill]
    BY <1>10 DEF listener_hears
  <2>7. kill \in Nat \cup {-1} /\ kill >= clock + drain_timeout + STOP_MARGIN /\ clock < kill
    <3>1. STOP_MARGIN \in Nat /\ STOP_MARGIN > 0 /\ TimeoutStop \in Nat
      BY StartupAssumption
    <3>2. systemd.kill_at \in Nat \cup {-1} /\ systemd.kill_at \in Int
      BY DEF StopInv, Timer
    <3>3. stopping(drain_timeout) = drain_timeout + STOP_MARGIN
      BY DEF stopping
    <3>4. clock + TimeoutStop \in Nat /\ clock + stopping(drain_timeout) \in Nat
      BY <1>0, <1>4, <3>1, <3>3
    <3>5. /\ kill \in {systemd.kill_at, clock + TimeoutStop, clock + stopping(drain_timeout)}
          /\ kill >= clock + stopping(drain_timeout)
      <4> DEFINE a == systemd.kill_at
                 b == clock + TimeoutStop
                 x == clock + stopping(drain_timeout)
      <4>1. a \in Int /\ b \in Int /\ x \in Int
        BY <3>2, <3>4
      <4> HIDE DEF a, b, x
      <4>2. Max({a, b, x}) \in {a, b, x} /\ Max({a, b, x}) >= x
        BY <4>1, LargestOf
      <4> QED
        BY <4>2 DEF a, b, x
    <3> HIDE DEF kill
    <3> QED
      BY <1>0, <1>4, <3>1, <3>2, <3>3, <3>4, <3>5
  <2> HIDE DEF kill
  <2>8. Timer'
    <3>1. CASE systemd' = systemd
      BY <1>2, <2>5, <3>1 DEF StopInv, Timer
    <3>2. CASE systemd' = [systemd EXCEPT !.stopping = TRUE, !.kill_at = kill]
      <4>1. /\ DOMAIN systemd' = {"ready", "stopping", "kill_at"} /\ systemd'.kill_at = kill
            /\ systemd'.ready = systemd.ready
        BY <3>2 DEF StopInv, Timer
      <4>2. systemd'.kill_at \in Nat \cup {-1} /\ clock' < systemd'.kill_at
            /\ systemd'.kill_at >= server'.drain_at + drain_timeout' + STOP_MARGIN
        BY <1>1, <1>7, <2>2, <2>7, <4>1
      <4>3. signals'.heard > 0 /\ signals'.handlers # "default"
        BY <1>1, <1>2, <2>3
      <4> QED
        BY <4>1, <4>2, <4>3 DEF Timer
    <3> QED
      BY <2>6, <3>1, <3>2
  <2> QED
    BY <1>8, <1>9, <2>4, <2>8 DEF StopInv
<1>11. CASE signals.heard = 1
  <2>1. server' = [server EXCEPT !.deadline = clock] /\ systemd' = systemd
    BY <1>11 DEF listener_hears
  <2>2. server'.drain_at = server.drain_at /\ server'.deadline = clock
    BY <1>0, <2>1 DEF Process
  <2>3. signals'.heard = 2
    BY <1>2, <1>11
  <2>4. server.drain_at \in 0..clock
    BY <1>11 DEF StopInv, Deadlines
  <2>5. Deadlines'
    BY <1>0, <1>1, <2>2, <2>3, <2>4 DEF Deadlines
  <2>6. Timer'
    BY <1>1, <1>2, <1>6, <1>7, <2>1, <2>2, <2>3 DEF StopInv, Timer
  <2> QED
    BY <1>8, <1>9, <2>5, <2>6 DEF StopInv
<1> QED
  BY <1>1, <1>3, <1>10, <1>11

LEMMA StopKept ==
  ASSUME StopInv, StartInv, [Next]_vars
  PROVE  StopInv'
<1>1. Process
  BY DEF StartInv
<1>2. CASE UNCHANGED vars
  BY <1>2, StopUnchanged DEF vars, startVars
<1>3. CASE Start
  <2>1. CASE run_signals
    BY <1>1, <2>1, RunSignalsStops
  <2>2. CASE run_ready
    BY <1>1, <2>2, RunReadyStops
  <2>3. CASE ~run_signals /\ ~run_ready
    BY <1>1, <1>3, <2>3, EarlyStart, EarlySteps
  <2> QED
    BY <2>1, <2>2, <2>3
<1>4. CASE Files
  <2>1. server' = server /\ signals' = signals /\ systemd' = systemd /\ clock' = clock
    BY <1>4 DEF Files, operator_retargets, startVars
  <2> QED
    BY <2>1, StopUnchanged
<1>5. CASE listener_hears
  BY <1>5, ListenerStops
<1>6. CASE serve \/ serve_aborts
  BY <1>6, ServeStops
<1>7. CASE systemd_kills
  BY <1>7, SystemdStops
<1>8. CASE tick
  BY <1>8, TickStops
<1>9. CASE \E k \in {"TERM", "INT"} : signal_comes(k)
  BY <1>9, SignalStops
<1> QED
  BY <1>2, <1>3, <1>4, <1>5, <1>6, <1>7, <1>8, <1>9 DEF Next

\* The safety part of StopIsGraceful: once systemd was told READY, a stop request
\* never kills the process outright unless the handlers failed; a drain that one
\* signal started is aborted only after the time configured for it, or the far
\* future; and systemd's timer, once STOPPING extended it, outlasts the drain and
\* the abort, whatever drain, margin and stop timeout are configured (run,
\* spawn_signal_listener, drain_deadline, stopping).
THEOREM StopIsOrderly == Spec => [](ReadyMeansDrains /\ DrainGetsItsTime /\ SystemdWaits)
<1>1. StopInv /\ StartInv /\ [Next]_vars => StopInv'
  BY StopKept
<1>2. StopInv => ReadyMeansDrains /\ DrainGetsItsTime /\ SystemdWaits
  BY DEF StopInv
<1> QED
  BY <1>1, <1>2, StopInit, Invariance, PTL DEF Spec
=============================================================================
