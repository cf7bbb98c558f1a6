---------------------------- MODULE BuildSession ----------------------------
(***************************************************************************)
(* One image build: the build service (vsock/build_service.rs) boots a VM, *)
(* the build engine (visor-build engine.rs) walks the stages and drives    *)
(* the guest agent through the executor and the vsock client               *)
(* (vsock/executor.rs, vsock/client.rs).  Requests and answers are lines   *)
(* on one stream; the client takes the next line as the answer to its      *)
(* request, and a request that times out leaves its answer behind.         *)
(***************************************************************************)
EXTENDS Integers, Sequences, SequencesExt, FiniteSets

-----------------------------------------------------------------------------
(***************************************************************************)
(* Image layers: how the guest computes one (visor-init overlay.rs) and    *)
(* how the host unpacks one onto a root file system (visor-runtime         *)
(* oci/layers.rs).  A tree maps every path of a small universe to what is  *)
(* there: "none", "dir", a file with contents "f1" or "f2", a symbolic     *)
(* link, or a device node, which neither side carries.                     *)
(***************************************************************************)

(* Every path, in the order of a BTreeMap of paths.                        *)
PathOrder == << <<"d">>, <<"d", "f">>, <<"e">>, <<"proc">> >>
Paths == Range(PathOrder)

Above(a, p) == Len(a) < Len(p) /\ IsPrefix(a, p)

Tree(t) == \A p \in Paths : t[p] # "none" => \A a \in Paths : Above(a, p) => t[a] = "dir"

ShouldIgnore(p) == Head(p) = "proc"

(* capture_manifest: directories, files and links outside /proc and /sys.  *)
Manifest(t) ==
  [p \in Paths |-> IF ShouldIgnore(p) \/ t[p] = "dev" THEN "none" ELSE t[p]]

Deleted(base, cur) == {p \in Paths : base[p] # "none" /\ cur[p] = "none"}

Whiteout(p) == [wh |-> TRUE, path |-> p, kind |-> "none"]
ArchiveEntry(p, kind) == [wh |-> FALSE, path |-> p, kind |-> kind]
ArchiveOf(outs, puts, cur) ==
  [i \in DOMAIN outs |-> Whiteout(outs[i])]
    \o [i \in DOMAIN puts |-> ArchiveEntry(puts[i], cur[puts[i]])]

(* One whiteout per deleted subtree, then every entry that differs.        *)
DiffArchive(base, cur) ==
  LET gone == Deleted(base, cur)
  IN ArchiveOf(SelectSeq(PathOrder, LAMBDA p : p \in gone /\ ~\E a \in gone : Above(a, p)),
               SelectSeq(PathOrder, LAMBDA p : cur[p] # "none" /\ base[p] # cur[p]), cur)

-----------------------------------------------------------------------------
Refused == [p \in Paths |-> "refused"]

RemoveEntry(t, p) ==
  [q \in Paths |-> IF q = p \/ (Above(p, q) /\ t[p] = "dir") THEN "none" ELSE t[q]]

(* create_dir_all of the parents; a file in the way is an error.           *)
WithParents(t, p) ==
  [q \in Paths |-> IF Above(q, p) /\ t[q] = "none" THEN "dir" ELSE t[q]]

ParentsBlocked(t, p) == \E a \in Paths : Above(a, p) /\ t[a] \in {"f1", "f2"}

(* An existing link stands for one that leads to a directory: creating the *)
(* directory then succeeds and the link stays.                             *)
PutDirectory(t, p) ==
  IF ParentsBlocked(t, p) \/ t[p] \in {"f1", "f2"} THEN Refused
  ELSE [WithParents(t, p) EXCEPT ![p] = IF t[p] = "link" THEN "link" ELSE "dir"]

(* The old file is unlinked first, which fails unnoticed on a directory;   *)
(* creating the new entry in its place then fails.                         *)
PutOther(t, p, kind) ==
  IF ParentsBlocked(t, p) \/ t[p] = "dir" THEN Refused
  ELSE [WithParents(t, p) EXCEPT ![p] = kind]

UnpackEntry(t, e) ==
  IF t = Refused THEN Refused
  ELSE IF e.wh THEN RemoveEntry(t, e.path)
  ELSE IF e.kind = "dir" THEN PutDirectory(t, e.path)
  ELSE PutOther(t, e.path, e.kind)

UnpackLayer(t, layer) == FoldLeft(UnpackEntry, t, layer)
MergeLayers(t, layers) == FoldLeft(UnpackLayer, t, layers)

LinkBecameDir(base, cur) == \E p \in Paths : base[p] = "link" /\ cur[p] = "dir"
KindChanged(base, cur) ==
  \E p \in Paths : /\ base[p] # "none" /\ cur[p] # "none"
                   /\ (base[p] = "dir") # (cur[p] = "dir")

(* A tree and what it becomes before the next layer is taken.              *)
VARIABLES treeBefore, treeNow
treeVars == <<treeBefore, treeNow>>

TreesOf(kinds) == {t \in [Paths -> kinds] : Tree(t)}

(* Any tree is written over by any other, one path at a time.              *)
TreeInit(kinds) == treeBefore \in TreesOf(kinds) /\ treeNow = treeBefore
Touch(p, kind) ==
  /\ treeNow' = [treeNow EXCEPT ![p] = kind] /\ Tree(treeNow')
  /\ UNCHANGED treeBefore
TreeNext(kinds) == \E p \in Paths, kind \in kinds : Touch(p, kind)

(* Unpacking the layer between two trees onto the first yields the second: *)
(* deletions, replacements and new entries in any combination.  Where a    *)
(* directory took the place of something else, or gave way to it,          *)
(* unpacking is refused rather than wrong, a link to a directory excepted. *)
LayerExact ==
  LET base == Manifest(treeBefore)
      cur == Manifest(treeNow)
      got == UnpackLayer(base, DiffArchive(base, cur))
  IN /\ ~KindChanged(base, cur) => Manifest(got) = cur
     /\ ~LinkBecameDir(base, cur) => got = Refused \/ Manifest(got) = cur
-----------------------------------------------------------------------------
(* The build. *)

CONSTANTS BuildPrograms,  \* Dockerfiles: a target (0: none) and stages, a stage having
                          \* the stages it refers to and its instructions
          BuildTrees,     \* file systems a command may leave
          MaxConnects,    \* connection attempts within the 10 s limit
          MaxStray        \* writes of processes that outlive their RUN

VARIABLES prog,       \* the Dockerfile
          bphase,     \* where the build service is
          todo,       \* calls of the engine still to make
          waiting,    \* the engine awaits an answer
          runFailed,  \* exec_result of the RUN at hand is an error
          layers,     \* layers of the stage at hand
          reqWire, ansWire, nextId,
          guest,      \* the guest's file system
          baseline,   \* the overlay's manifest, or the empty record
          origin,     \* the manifest the stage started from
          ranOk,      \* RUN commands that ended with 0 in the guest
          window,     \* a layer was taken and the overlay not yet flattened
          raced,      \* history: a stray write fell into that window, or a layer was taken
                      \* across which a directory gave way to something else or took its place
          strays, connects, outcome

buildVars == <<prog, bphase, todo, waiting, runFailed, layers, reqWire, ansWire, nextId,
               guest, baseline, origin, ranOk, window, raced, strays, connects, outcome>>

NoOverlay == <<>>

(* Only a tmpfs or a cache takes a command in the guest, and only a tmpfs  *)
(* is taken down again.                                                    *)
SetupMount(kind) == IF kind \in {"tmpfs", "cache"} THEN <<"mount">> ELSE <<>>
TeardownMount(kind) == IF kind = "tmpfs" THEN <<"umount">> ELSE <<>>

SnapshotAndFlatten == <<"snap", "flat">>

RunCalls(mounts) ==
  FlattenSeq([i \in DOMAIN mounts |-> SetupMount(mounts[i])]) \o <<"exec">>
    \o FlattenSeq([i \in DOMAIN mounts |-> TeardownMount(mounts[Len(mounts) + 1 - i])])
    \o <<"check">> \o SnapshotAndFlatten

CopyCalls == <<"copy">> \o SnapshotAndFlatten

CallsOf(instr) ==
  CASE instr = "run"  -> RunCalls(<<>>)
    [] instr = "runm" -> RunCalls(<<"secret", "tmpfs">>)
    [] instr \in {"copy", "add"} -> CopyCalls
    [] OTHER -> <<>>

(* Without a target every stage is built; with one, those it reaches       *)
(* through FROM and COPY --from.                                           *)
NeededStages(p) ==
  LET all == DOMAIN p.stages
      closed == {S \in SUBSET all : /\ p.target \in S
                                     /\ \A i \in S : p.stages[i].refs \subseteq S}
  IN IF p.target = 0 THEN all ELSE {i \in all : \A S \in closed : i \in S}

Needed(p) == SelectSeq([i \in DOMAIN p.stages |-> i], LAMBDA i : i \in NeededStages(p))

(* The calls of build(), stage after stage in the order of the file.       *)
StageCalls(stage) ==
  <<"init">> \o FlattenSeq([i \in DOMAIN stage.instrs |-> CallsOf(stage.instrs[i])])
ProgramCalls(p) ==
  FlattenSeq([k \in DOMAIN Needed(p) |-> StageCalls(p.stages[Needed(p)[k]])])

BuildInit ==
  /\ prog \in BuildPrograms
  /\ bphase = "create" /\ todo = <<>> /\ waiting = FALSE /\ runFailed = FALSE
  /\ layers = <<>> /\ reqWire = <<>> /\ ansWire = <<>> /\ nextId = 0
  /\ guest = [p \in Paths |-> IF p = <<"e">> THEN "f1" ELSE "none"]
  /\ baseline = NoOverlay /\ origin = NoOverlay /\ ranOk = 0
  /\ window = FALSE /\ raced = FALSE /\ strays = 0 /\ connects = 0 /\ outcome = "none"

wireVars == <<reqWire, ansWire, nextId>>
guestVars == <<guest, baseline, origin, ranOk, window, raced, strays>>

CreateVm(ok) ==
  /\ bphase = "create"
  /\ bphase' = IF ok THEN "connect" ELSE "over"
  /\ outcome' = IF ok THEN "none" ELSE "failed"
  /\ UNCHANGED <<prog, todo, waiting, runFailed, layers, connects, wireVars, guestVars>>

(* connect() probes with a ping; a failed attempt is retried for 10 s.     *)
Connect(ok) ==
  /\ bphase = "connect" /\ connects < MaxConnects
  /\ connects' = connects + 1
  /\ bphase' = IF ok THEN "build" ELSE IF connects' = MaxConnects THEN "destroy" ELSE "connect"
  /\ todo' = IF ok THEN ProgramCalls(prog) ELSE todo
  /\ outcome' = IF bphase' = "destroy" THEN "failed" ELSE "none"
  /\ UNCHANGED <<prog, waiting, runFailed, layers, wireVars, guestVars>>

Fail == bphase' = "destroy" /\ outcome' = "failed" /\ todo' = <<>>
GoOn == todo' = Tail(todo) /\ UNCHANGED <<bphase, outcome>>

Call ==
  /\ bphase = "build" /\ todo # <<>> /\ ~waiting /\ Head(todo) # "check"
  /\ waiting' = TRUE
  /\ reqWire' = Append(reqWire, [id |-> nextId, call |-> Head(todo)])
  /\ nextId' = nextId + 1
  /\ UNCHANGED <<prog, bphase, todo, runFailed, layers, ansWire, connects, outcome, guestVars>>

IsExec(call) == call \in {"exec", "mount", "umount"}

(* The result must have the shape of the call: an exec result, a layer, a  *)
(* count of files; init and flatten take any result.                       *)
Readable(call, ans) ==
  \/ call \in {"init", "flat"}
  \/ IsExec(call) /\ IsExec(ans.call)
  \/ call = ans.call

(* An error of the exec itself does not return at once: the mounts are     *)
(* taken down first.                                                       *)
CallFailed ==
  IF Head(todo) = "exec" THEN runFailed' = TRUE /\ GoOn
  ELSE Fail /\ UNCHANGED runFailed

TakeAnswer ==
  /\ bphase = "build" /\ waiting /\ ansWire # <<>>
  /\ waiting' = FALSE /\ ansWire' = Tail(ansWire)
  /\ LET ans == Head(ansWire) call == Head(todo)
     IN IF ~ans.ok \/ ~Readable(call, ans) \/ (call \in {"mount", "umount"} /\ ans.code # 0)
        THEN CallFailed /\ UNCHANGED layers
        ELSE /\ GoOn
             /\ runFailed' = IF call = "exec" THEN ans.code # 0 ELSE runFailed
             /\ layers' = IF call = "snap" THEN Append(layers, ans.layer)
                          ELSE IF call = "init" THEN <<>> ELSE layers
  /\ UNCHANGED <<prog, reqWire, nextId, connects, guestVars>>

(* The 30 s limit of a request, or an error of the stream.                 *)
TimeOut ==
  /\ bphase = "build" /\ waiting
  /\ waiting' = FALSE /\ CallFailed
  /\ UNCHANGED <<prog, layers, connects, wireVars, guestVars>>

(* After the mounts: the stored result of the exec.                        *)
CheckRun ==
  /\ bphase = "build" /\ todo # <<>> /\ Head(todo) = "check"
  /\ IF runFailed THEN Fail ELSE GoOn
  /\ runFailed' = FALSE
  /\ UNCHANGED <<prog, waiting, layers, connects, wireVars, guestVars>>

(* resolve_assembly_inputs: what an image holds whose layers are those of  *)
(* its FROM image, which unpack to `from`, and the ones that were built.   *)
(* The VM a build runs in has an image of its own, whatever FROM says.     *)
Image(from) == MergeLayers(from, layers)
Scratch == [p \in Paths |-> "none"]

(* The image is stored. *)
BuildDone(ok) ==
  /\ bphase = "build" /\ todo = <<>> /\ ~waiting
  /\ bphase' = "destroy" /\ outcome' = IF ok THEN "built" ELSE "failed"
  /\ UNCHANGED <<prog, todo, waiting, runFailed, layers, connects, wireVars, guestVars>>

(* A VM that cannot be destroyed is left, with a warning. *)
DestroyVm(ok) ==
  /\ bphase = "destroy" /\ bphase' = IF ok THEN "over" ELSE "left"
  /\ UNCHANGED <<prog, todo, waiting, runFailed, layers, connects, outcome, wireVars, guestVars>>

-----------------------------------------------------------------------------
(* The agent serves the stream in order.                                   *)

VmUp == bphase \in {"connect", "build", "destroy", "left"}

Answer(fields) == ansWire' = Append(ansWire, fields)

(* The file system cannot be read, or the command not started.             *)
ServeError(r) ==
  /\ Answer([call |-> r.call, ok |-> FALSE, code |-> 0, layer |-> <<>>])
  /\ UNCHANGED <<guest, baseline, origin, ranOk, window>>

Served(r) ==
  \/ ServeError(r)
  \/ /\ r.call = "exec"
     /\ \E t \in BuildTrees \cup {guest}, code \in {0, 1} :
          /\ guest' = t /\ ranOk' = ranOk + 1 - code
          /\ Answer([call |-> "exec", ok |-> TRUE, code |-> code, layer |-> <<>>])
     /\ UNCHANGED <<baseline, origin, window>>
  \/ /\ r.call \in {"mount", "umount"}
     /\ \E code \in {0, 1} :
          Answer([call |-> r.call, ok |-> TRUE, code |-> code, layer |-> <<>>])
     /\ UNCHANGED <<guest, baseline, origin, ranOk, window>>
  \/ /\ r.call = "copy"
     /\ \E t \in BuildTrees, ok \in BOOLEAN :
          /\ guest' = t
          /\ Answer([call |-> "copy", ok |-> ok, code |-> 0, layer |-> <<>>])
     /\ UNCHANGED <<baseline, origin, ranOk, window>>
  \/ /\ r.call = "init"
     /\ baseline' = Manifest(guest) /\ origin' = Manifest(guest)
     /\ Answer([call |-> "init", ok |-> TRUE, code |-> 0, layer |-> <<>>])
     /\ UNCHANGED <<guest, ranOk, window>>
  \/ /\ r.call = "snap" /\ window' = TRUE
     /\ Answer([call |-> "snap", ok |-> TRUE, code |-> 0,
                layer |-> DiffArchive(baseline, Manifest(guest))])
     /\ UNCHANGED <<guest, baseline, origin, ranOk>>
  \/ /\ r.call = "flat" /\ window' = FALSE
     /\ baseline' = Manifest(guest)
     /\ Answer([call |-> "flat", ok |-> TRUE, code |-> 0, layer |-> <<>>])
     /\ UNCHANGED <<guest, origin, ranOk>>

FlattenKeepsOld(r) ==
  \/ r.call # "flat" /\ Served(r)
  \/ /\ r.call = "flat" /\ window' = FALSE
     /\ Answer([call |-> "flat", ok |-> TRUE, code |-> 0, layer |-> <<>>])
     /\ UNCHANGED <<guest, baseline, origin, ranOk>>

ServeStale ==
  /\ VmUp /\ reqWire # <<>> /\ reqWire' = Tail(reqWire)
  /\ FlattenKeepsOld(Head(reqWire))
  /\ UNCHANGED <<prog, bphase, todo, waiting, runFailed, layers, nextId, raced, strays,
                 connects, outcome>>

Serve ==
  /\ VmUp /\ reqWire # <<>> /\ reqWire' = Tail(reqWire)
  /\ Served(Head(reqWire))
  /\ raced' = (raced \/ (Head(reqWire).call = "snap" /\ KindChanged(baseline, Manifest(guest))))
  /\ UNCHANGED <<prog, bphase, todo, waiting, runFailed, layers, nextId, strays,
                 connects, outcome>>

(* A process a RUN left behind goes on writing.                            *)
StrayWrite ==
  /\ VmUp /\ ranOk > 0 /\ strays < MaxStray /\ strays' = strays + 1
  /\ \E t \in BuildTrees : guest' = t
  /\ raced' = (raced \/ window)
  /\ UNCHANGED <<prog, bphase, todo, waiting, runFailed, layers, wireVars, baseline, origin,
                 ranOk, window, connects, outcome>>

ServiceSteps ==
  \/ \E ok \in BOOLEAN : CreateVm(ok) \/ Connect(ok) \/ BuildDone(ok) \/ DestroyVm(ok)
  \/ Call \/ TakeAnswer \/ TimeOut \/ CheckRun

BuildNext == ServiceSteps \/ Serve \/ StrayWrite

-----------------------------------------------------------------------------
(* The layers of a finished build, unpacked in order onto what its last    *)
(* stage started from, give the file system the build ended with: nothing  *)
(* lost, nothing twice.  On an empty FROM image they give at least all     *)
(* that the stage changed.  Excepted are a leftover process that wrote     *)
(* between a layer and the flatten after it, and a directory that gave way *)
(* to something else or took its place, which cannot be unpacked.          *)
LayersReplay ==
  outcome = "built" /\ ~raced
    => /\ Manifest(Image(origin)) = baseline
       /\ \A p \in Paths : origin[p] # baseline[p] => Image(Scratch)[p] = baseline[p]

RunsOf(p) ==
  Cardinality({<<i, k>> \in NeededStages(p) \X (1..3) :
                 k \in DOMAIN p.stages[i].instrs /\ p.stages[i].instrs[k] \in {"run", "runm"}})

(* A finished build ran every RUN of the stages it needs to success, and   *)
(* once, although answers are not matched to requests and a late one is    *)
(* taken for another's.                                                    *)
AllRunsSucceeded == outcome = "built" => ranOk = RunsOf(prog)

(* Each answer a going build acts on is the one to its own request.        *)
InStep ==
  bphase = "build" /\ waiting /\ ~runFailed
    => Len(reqWire) + Len(ansWire) = 1
       /\ (ansWire # <<>> => Head(ansWire).call = Head(todo))

(* A build ends, and its VM with it unless that cannot be destroyed, even  *)
(* if the guest never answers.                                             *)
BuildEnds == bphase \notin {"over", "left"} ~> bphase \in {"over", "left"}

(* A finished build is what its Dockerfile says: every RUN succeeded, each   *)
(* answer was the one to its request, and the layers, unpacked, give the     *)
(* file system the build ended with, with the exceptions of LayersReplay.    *)
BuildExact ==
  LayersReplay /\ AllRunsSucceeded /\ InStep /\ LayerExact
=============================================================================
