----------------------------- MODULE HostPaths -----------------------------
(***************************************************************************)
(* Host paths and the little of a host filesystem that the launcher looks  *)
(* at before it creates a container.  A path is the sequence of its names: *)
(* "/" is the empty sequence, and a canonical absolute path is any other   *)
(* sequence.  A disk is a record                                           *)
(*                                                                         *)
(*   dirs, files   the canonical paths of its directories, regular files   *)
(*   links         symbolic links: where each one leads, a canonical path  *)
(*   locked        directories the invoking user may not read and write    *)
(*                                                                         *)
(* The links are named in every way they are reached, so the last one on   *)
(* the way to a path says where the path leads.                            *)
(***************************************************************************)
EXTENDS Naturals, Sequences, SequencesExt, FiniteSets

Name == STRING \ {""}
Path == Seq(Name)

Root == <<>>

\* The empty string, where a path is optional.
NoPath == <<"">>

\* A name with a character that a Docker --mount option cannot carry.
Awkward == "a,b"

\* A name with the character that ends the target of a --tmpfs option.
Colon == "a:b"

Mountable(path) == Awkward \notin Range(path)

Covers(parent, child) == IsPrefix(parent, child)

Overlap(first, second) == Covers(first, second) \/ Covers(second, first)

\* What filepath.Rel leaves of a path below its parent.
Below(parent, child) == SubSeq(child, Len(parent) + 1, Len(child))

LinksOnTheWay(disk, path) == {link \in DOMAIN disk.links : Covers(link, path)}

EvalSymlinks(disk, path) ==
  LET links == LinksOnTheWay(disk, path)
      last  == CHOOSE l \in links : \A k \in links : Len(k) <= Len(l)
  IN  IF links = {} THEN path ELSE disk.links[last] \o Below(last, path)

IsDir(disk, path) == EvalSymlinks(disk, path) \in disk.dirs

IsFile(disk, path) == EvalSymlinks(disk, path) \in disk.files

\* Where a link leads there is none on the way; one that lies beyond is also a
\* link as the first link names it.
SoundDisk(disk) ==
  /\ disk.dirs \cup disk.files \subseteq Path
  /\ \A link \in DOMAIN disk.links : {link, disk.links[link]} \subseteq Path
  /\ \A k, l \in DOMAIN disk.links :
       LET through == l \o Below(disk.links[l], k)
       IN  /\ ~Covers(k, disk.links[l])
           /\ Covers(disk.links[l], k) =>
                /\ through \in DOMAIN disk.links
                /\ disk.links[through] = disk.links[k]

\* os.Stat finds something; os.Lstat also finds a link that leads nowhere.
Exists(disk, path) == IsDir(disk, path) \/ IsFile(disk, path)

Listed(disk, path) == path \in DOMAIN disk.links \/ Exists(disk, path)

=============================================================================
