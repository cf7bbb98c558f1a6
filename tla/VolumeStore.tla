---------------------------- MODULE VolumeStore ----------------------------
(* The volume directory (volume.rs): for each volume an ext4 image and a JSON   *)
(* file with its size.  The daemon's API and the command line work on the same  *)
(* directory at the same time, each call running external tools between its     *)
(* checks and its writes; a tool may fail and a process may end at any point.   *)
EXTENDS Naturals, FiniteSets

CONSTANTS Callers, MaxSize, MaxCalls, MaxBreaks

ASSUME VolumeBounds == MaxSize \in Nat /\ MaxCalls \in Nat /\ MaxBreaks \in Nat

VARIABLES image, meta, call, calls, breaks, mixed, behind
volumeVars == <<image, meta, call, calls, breaks, mixed, behind>>

(* One volume: volumes share nothing.  `image' is the length of the file and of *)
(* the filesystem in it, in size steps; 0 and 0 is no file, filesystem 0 none.  *)
NoImage == [len |-> 0, fs |-> 0]
NoMeta == 0
TornMeta == MaxSize + 1                          \* truncated, not yet written
NoCall == [op |-> "none", size |-> 0, at |-> "none"]

VolumeInit ==
  /\ image = NoImage /\ meta = NoMeta
  /\ call = [c \in Callers |-> NoCall]
  /\ calls = 0 /\ breaks = 0 /\ mixed = FALSE /\ behind = FALSE

Busy(c) == call[c].op # "none"
Alone(c) == \A d \in Callers \ {c} : ~Busy(d)
At2(c, at) == call[c].at = at
GoTo(c, at) == call' = [call EXCEPT ![c].at = at]
Returns(c) == call' = [call EXCEPT ![c] = NoCall]

\* A request arrives; `mixed' remembers that two ever overlapped,
\* `behind' that one was cut short after it changed one file and not the other.
Ask(c) ==
  /\ ~Busy(c) /\ calls < MaxCalls /\ calls' = calls + 1
  /\ \E op \in {"create", "remove", "resize"}, s \in 1..MaxSize :
       /\ op = "remove" => s = 1
       /\ call' = [call EXCEPT ![c] = [op |-> op, size |-> s, at |-> "check"]]
  /\ mixed' = (mixed \/ ~Alone(c))
  /\ UNCHANGED <<image, meta, breaks, behind>>

\* A tool or a file operation fails: the call returns an error and undoes nothing.
Break(c, a) ==
  /\ breaks < MaxBreaks /\ At2(c, a)
  /\ breaks' = breaks + 1

----------------------------------------------------------------------------
(* create: the image must not exist; truncate, mke2fs, metadata. *)

CreateCheck(c) ==
  /\ call[c].op = "create" /\ At2(c, "check")
  /\ IF image # NoImage THEN Returns(c) ELSE GoTo(c, "truncate")
  /\ UNCHANGED <<image, meta, calls, breaks, mixed, behind>>

CreateTruncate(c) ==
  /\ call[c].op = "create"
  /\ \/ /\ At2(c, "truncate") /\ GoTo(c, "format")
        /\ image' = [image EXCEPT !.len = call[c].size] /\ UNCHANGED breaks
     \/ Break(c, "truncate") /\ Returns(c) /\ UNCHANGED image
  /\ UNCHANGED <<meta, calls, mixed, behind>>

\* mke2fs fills the file; when it fails the file is removed.
CreateFormat(c) ==
  /\ call[c].op = "create"
  /\ \/ /\ At2(c, "format") /\ image.len > 0 /\ GoTo(c, "open")
        /\ image' = [image EXCEPT !.fs = image.len] /\ UNCHANGED breaks
     \/ At2(c, "format") /\ image.len = 0 /\ Returns(c) /\ UNCHANGED <<image, breaks>>
     \/ Break(c, "format") /\ Returns(c) /\ image' = NoImage
  /\ UNCHANGED <<meta, calls, mixed, behind>>

----------------------------------------------------------------------------
(* resize: larger than the recorded size; truncate, resize2fs, metadata. *)

ResizeCheck(c) ==
  /\ call[c].op = "resize" /\ At2(c, "check")
  /\ IF meta \in 1..MaxSize /\ call[c].size > meta THEN GoTo(c, "truncate") ELSE Returns(c)
  /\ UNCHANGED <<image, meta, calls, breaks, mixed, behind>>

ResizeTruncateOnly(c) ==
  /\ call[c].op = "resize" /\ At2(c, "truncate") /\ GoTo(c, "open")
  /\ image' = [image EXCEPT !.len = call[c].size]
  /\ UNCHANGED <<meta, calls, breaks, mixed, behind>>

\* truncate sets the length, up or down, and makes the file if there is none.
ResizeTruncate(c) ==
  /\ call[c].op = "resize"
  /\ \/ /\ At2(c, "truncate") /\ GoTo(c, "grow")
        /\ image' = [image EXCEPT !.len = call[c].size] /\ UNCHANGED breaks
     \/ Break(c, "truncate") /\ Returns(c) /\ UNCHANGED image
  /\ UNCHANGED <<meta, calls, mixed, behind>>

\* resize2fs makes the filesystem as long as the file; it refuses a file that
\* holds none, or only part of one.
ResizeGrow(c) ==
  /\ call[c].op = "resize"
  /\ \/ /\ At2(c, "grow") /\ image.fs \in 1..image.len /\ GoTo(c, "open")
        /\ image' = [image EXCEPT !.fs = image.len] /\ UNCHANGED <<breaks, behind>>
     \/ /\ At2(c, "grow") /\ image.fs \notin 1..image.len /\ Returns(c)
        /\ behind' = TRUE /\ UNCHANGED <<image, breaks>>
     \/ Break(c, "grow") /\ Returns(c) /\ behind' = TRUE /\ UNCHANGED image
  /\ UNCHANGED <<meta, calls, mixed>>

----------------------------------------------------------------------------
(* The metadata file is truncated and then written (fs::write). *)

WriteMeta(c) ==
  /\ \/ At2(c, "open") /\ meta' = TornMeta /\ GoTo(c, "write") /\ UNCHANGED <<breaks, behind>>
     \/ At2(c, "write") /\ meta' = call[c].size /\ Returns(c) /\ UNCHANGED <<breaks, behind>>
     \/ \E a \in {"open", "write"} : Break(c, a) /\ Returns(c) /\ behind' = TRUE /\ UNCHANGED meta
  /\ UNCHANGED <<image, calls, mixed>>

(* remove: the image first, then the metadata. *)

RemoveVolume(c) ==
  /\ call[c].op = "remove"
  /\ \/ At2(c, "check") /\ (IF meta = NoMeta THEN Returns(c) ELSE GoTo(c, "image")) /\ UNCHANGED <<image, meta, breaks>>
     \/ At2(c, "image") /\ image' = NoImage /\ GoTo(c, "meta") /\ UNCHANGED <<meta, breaks>>
     \/ At2(c, "meta") /\ meta' = NoMeta /\ Returns(c) /\ UNCHANGED <<image, breaks>>
     \/ \E a \in {"image", "meta"} : Break(c, a) /\ Returns(c) /\ UNCHANGED <<image, meta>>
  /\ behind' = (behind \/ (At2(c, "meta") /\ breaks' # breaks))
  /\ UNCHANGED <<calls, mixed>>

\* The process of a caller is killed between two steps.
Killed(c) ==
  /\ Busy(c) /\ breaks < MaxBreaks /\ breaks' = breaks + 1
  /\ behind' = (behind \/ call[c].at \in {"grow", "open", "write", "meta"})
  /\ Returns(c) /\ UNCHANGED <<image, meta, calls, mixed>>

VolumeNext ==
  \E c \in Callers :
    \/ Ask(c) \/ Killed(c)
    \/ CreateCheck(c) \/ CreateTruncate(c) \/ CreateFormat(c)
    \/ ResizeCheck(c) \/ ResizeTruncate(c) \/ ResizeGrow(c)
    \/ WriteMeta(c) \/ RemoveVolume(c)

VolumeSpec == VolumeInit /\ [][VolumeNext]_volumeVars

----------------------------------------------------------------------------
(* Properties. *)

\* A volume that list() and inspect() show has a formatted image at least as
\* long as they say, the filesystem filling it, whatever failed before: unless
\* calls overlapped, one was cut short between the two files, or a removal is
\* under way.
VolumeWhole ==
  \/ meta \notin 1..MaxSize \/ mixed \/ behind
  \/ image.fs = meta /\ image.len >= meta
  \/ \E c \in Callers : call[c].op = "resize" /\ image.len >= meta /\ image.fs >= meta
  \/ image = NoImage /\ \E c \in Callers : At2(c, "meta")

\* While nothing failed and no calls overlapped, a name is either free, with no
\* file at all, or a volume that can be inspected, resized and removed.
NoHalfVolume ==
  (breaks = 0 /\ ~mixed /\ \A c \in Callers : ~Busy(c)) =>
    (image = NoImage <=> meta = NoMeta)

\* "Shrinking is not supported": the image is never cut below the filesystem
\* in it (volume.rs resize, which asks only for more than the recorded size).
NeverCut == image.fs <= image.len

(* A volume is a formatted image of the size on record, or nothing at all.   *)
VolumeSound ==
  VolumeWhole /\ NoHalfVolume
============================================================================
