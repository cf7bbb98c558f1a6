------------------------------ MODULE SharedFs ------------------------------
(***************************************************************************)
(* The FUSE server of a shared directory (visor-vmm devices/fs.rs): the    *)
(* inode table, the open handles, and one guest process that looks up,     *)
(* opens, lists and reads while the host changes the directory.  A request *)
(* is handled under the device's lock, so each handler is one step.  Only  *)
(* the shared directory itself is listed; subdirectories are entries.      *)
(***************************************************************************)
EXTENDS Integers, Sequences, FiniteSets, SequencesExt

CONSTANTS FsNames,      \* names of entries of the shared directory
          MaxHandles,   \* opens of a run
          MaxChanges,   \* changes the host makes
          Fits          \* entries a listing buffer takes, at least one

RootPath == "root"
RootIno == 1

VARIABLES hostDir,    \* the shared directory, in the order read_dir lists it
          hostKind,   \* "file" or "dir" for each entry
          changes,    \* changes made so far
          inodes, nextIno, handles, nextFh,     \* FsDevice
          fsReply,    \* the reply to the last request
          walk        \* the guest's listing in progress

fsVars == <<hostDir, hostKind, changes, inodes, nextIno, handles, nextFh, fsReply, walk>>
fsDevice == <<inodes, nextIno, handles, nextFh>>
fsHost == <<hostDir, hostKind, changes>>

NoWalk == [fh |-> 0, off |-> 0, got |-> <<>>, since |-> 0, done |-> FALSE]
Entry(path, kind) == [path |-> path, isDir |-> kind = "dir"]

FsInit ==
  /\ hostDir \in SetToSeqs(FsNames) /\ hostKind = [n \in FsNames |-> "file"] /\ changes = 0
  /\ inodes = (RootIno :> Entry(RootPath, "dir")) /\ nextIno = 2
  /\ handles = <<>> /\ nextFh = 1
  /\ fsReply = [op |-> "none", err |-> FALSE, ino |-> 0, fh |-> 0] /\ walk = NoWalk

Exists(name) == name \in ToSet(hostDir)
Reply(op, err, ino, fh) == fsReply' = [op |-> op, err |-> err, ino |-> ino, fh |-> fh]

(* get_or_create_inode: the number of a path the table knows, whether or   *)
(* not the file is still there; else the next number, if the host has it.  *)
Known(path) == {i \in DOMAIN inodes : inodes[i].path = path}

Intern(path) ==
  IF Known(path) # {} THEN [ino |-> CHOOSE i \in Known(path) : TRUE, table |-> inodes, next |-> nextIno]
  ELSE IF Exists(path) THEN [ino |-> nextIno, table |-> inodes @@ (nextIno :> Entry(path, hostKind[path])), next |-> nextIno + 1]
  ELSE [ino |-> 0, table |-> inodes, next |-> nextIno]

(* handle_lookup. *)
Lookup(name) ==
  LET r == Intern(name) IN
  /\ inodes' = r.table /\ nextIno' = r.next /\ Reply("lookup", r.ino = 0, r.ino, 0)
  /\ UNCHANGED <<handles, nextFh, walk>> /\ UNCHANGED fsHost

(* alloc_handle. *)
AllocHandle(ino) ==
  handles' = handles @@ (nextFh :> ino) /\ nextFh' = nextFh + 1 /\ Reply("open", FALSE, ino, nextFh)

(* handle_open and handle_opendir: the kind the table remembers decides. *)
OpenFile(ino) ==
  /\ ino \in DOMAIN inodes /\ nextFh <= MaxHandles
  /\ IF inodes[ino].isDir THEN Reply("open", TRUE, ino, 0) /\ UNCHANGED <<handles, nextFh>>
     ELSE AllocHandle(ino)
  /\ UNCHANGED <<inodes, nextIno, walk>> /\ UNCHANGED fsHost

OpenDir(ino) ==
  /\ ino \in DOMAIN inodes /\ nextFh <= MaxHandles
  /\ IF ~inodes[ino].isDir THEN Reply("open", TRUE, ino, 0) /\ UNCHANGED <<handles, nextFh, walk>>
     ELSE /\ AllocHandle(ino)
          /\ walk' = IF ino = RootIno /\ walk.fh = 0 THEN [NoWalk EXCEPT !.fh = fsReply'.fh, !.since = changes] ELSE walk
  /\ UNCHANGED <<inodes, nextIno>> /\ UNCHANGED fsHost

(* handle_read: the file is opened again by its path on every read. *)
ReadFile(fh) ==
  /\ fh \in DOMAIN handles
  /\ LET e == inodes[handles[fh]] IN
     Reply("read", e.path # RootPath /\ ~Exists(e.path), handles[fh], fh)
  /\ UNCHANGED <<fsDevice, walk>> /\ UNCHANGED fsHost

(* handle_readdir: the whole directory is read again and the entries up to *)
(* the offset skipped; each entry met is interned, the one that no longer  *)
(* fits included.  The guest asks until a listing comes back empty.        *)
Page(from, fits) == SubSeq(hostDir, from + 1, IF from + fits < Len(hostDir) THEN from + fits ELSE Len(hostDir))

ListedAgain(fits) == Page(IF walk.off > 0 THEN walk.off - 1 ELSE 0, fits)
Listed(fits) == Page(walk.off, fits)

ReadDir(fits) ==
  /\ walk.fh \in DOMAIN handles /\ ~walk.done
  /\ LET new == SelectSeq(Page(walk.off, fits + 1), LAMBDA n : Known(n) = {}) IN
     /\ inodes' = inodes @@ [i \in nextIno .. nextIno + Len(new) - 1 |->
                               Entry(new[i - nextIno + 1], hostKind[new[i - nextIno + 1]])]
     /\ nextIno' = nextIno + Len(new)
  /\ walk' = [walk EXCEPT !.off = @ + Len(Listed(fits)), !.got = @ \o Listed(fits), !.done = Listed(fits) = <<>>]
  /\ Reply("readdir", FALSE, RootIno, walk.fh)
  /\ UNCHANGED <<handles, nextFh>> /\ UNCHANGED fsHost

(* handle_release never fails. *)
Release(fh) ==
  /\ fh \in DOMAIN handles
  /\ handles' = [h \in DOMAIN handles \ {fh} |-> handles[h]]
  /\ walk' = IF walk.fh = fh THEN NoWalk ELSE walk
  /\ Reply("release", FALSE, 0, fh) /\ UNCHANGED <<inodes, nextIno, nextFh>> /\ UNCHANGED fsHost

(* The host's own programs. *)
HostCreates(name, kind) ==
  /\ changes < MaxChanges /\ ~Exists(name) /\ changes' = changes + 1
  /\ \E k \in 1 .. Len(hostDir) + 1 : hostDir' = InsertAt(hostDir, k, name)
  /\ hostKind' = [hostKind EXCEPT ![name] = kind] /\ UNCHANGED <<fsDevice, fsReply, walk>>

HostRemoves(name) ==
  /\ changes < MaxChanges /\ Exists(name) /\ changes' = changes + 1
  /\ hostDir' = SelectSeq(hostDir, LAMBDA n : n # name)
  /\ UNCHANGED <<hostKind, fsDevice, fsReply, walk>>

FsNext ==
  \/ \E n \in FsNames : Lookup(n) \/ HostRemoves(n) \/ \E k \in {"file", "dir"} : HostCreates(n, k)
  \/ \E i \in DOMAIN inodes : OpenFile(i) \/ OpenDir(i)
  \/ \E fh \in DOMAIN handles : ReadFile(fh) \/ Release(fh)
  \/ \E fits \in Fits : ReadDir(fits)

----------------------------------------------------------------------------
(* A path has one number, however it was met (lookup or listing): the      *)
(* guest keeps numbers cached and compares files by them.                  *)
InodePerPath == \A i, j \in DOMAIN inodes : inodes[i].path = inodes[j].path => i = j

(* An open file handle keeps naming what was opened, whatever is opened or *)
(* closed in between; a new handle is not one in use.                      *)
HandlesKept == [][/\ \A h \in DOMAIN handles \cap DOMAIN handles' : handles'[h] = handles[h]
                  /\ fsReply' # fsReply /\ fsReply'.op = "open" /\ ~fsReply'.err => fsReply'.fh \notin DOMAIN handles]_fsVars

(* A listing read in pieces of any size names every entry exactly once if  *)
(* the directory did not change meanwhile.                                 *)
ListsAll == walk.done /\ walk.since = changes => walk.got = hostDir
=============================================================================
