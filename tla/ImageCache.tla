----------------------------- MODULE ImageCache -----------------------------
(* Images on the host: the layer cache (oci/cache.rs: blobs and manifests,     *)
(* written to a temporary file and renamed), the image store (assembly.rs: one *)
(* directory per image and tags.json) and what runs over both inside one       *)
(* daemon, side by side: creating a VM from a reference, pulling, building,    *)
(* loading a docker archive, untagging, and deleting through the API.          *)
(*                                                                             *)
(* A job is a record whose `todo' lists the calls it still has to make; each   *)
(* action is one call.  "r" is a reference the registry serves, first image A  *)
(* then B; "t" is the tag of what is built from r.  A blob is named by what it *)
(* contains, so a file is whole when it holds its own name.                    *)
EXTENDS Naturals, Sequences, FiniteSets, SequencesExt

CONSTANTS Jobs, MaxWriters, MaxJobs, MaxCrashes, Kinds

ASSUME CacheBounds == MaxWriters \in Nat \ {0} /\ MaxJobs \in Nat /\ MaxCrashes \in Nat

VARIABLES files, tags, dirs, registry, job, fd,
          started, daemonCrashes, promised, hurt, cut, interrupted, rootfses
imageVars == <<files, tags, dirs, registry, job, fd,
               started, daemonCrashes, promised, hurt, cut, interrupted, rootfses>>

Images == {"A", "B", "AX", "BX"}
LayersOf == [A |-> <<"l1", "l2">>, B |-> <<"l1", "l3">>,
             AX |-> <<"l1", "l2", "lx">>, BX |-> <<"l1", "l3", "lx">>]
ConfigOf == [A |-> "cA", B |-> "cB", AX |-> "cAX", BX |-> "cBX"]
BuiltFrom == [A |-> "AX", B |-> "BX", AX |-> "AX", BX |-> "BX"]
Blobs == {"l1", "l2", "l3", "lx", "cA", "cB", "cAX", "cBX"}
BlobsOf(i) == Range(LayersOf[i]) \cup {ConfigOf[i]}
Refs == {"r", "t"}
ManifestKey == [r |-> "m_r", t |-> "m_t"]
ManifestKeys == {"m_r", "m_t"}
Tmp(f) == IF f \in ManifestKeys THEN "tmp_m" ELSE "tmp_b"
Files == Blobs \cup ManifestKeys \cup {"tmp_m", "tmp_b"}
TagNames == Refs \cup Images
Torn == [torn |-> TRUE]                       \* tags.json that does not parse

Idle == [kind |-> "idle", ref |-> "r", img |-> "none", todo |-> <<>>, got |-> <<>>]

ImageInit ==
  /\ files = [f \in Files |-> "none"]
  /\ tags = [t \in TagNames |-> "none"]
  /\ dirs = [i \in Images |-> "none"]
  /\ registry = "A"
  /\ job = [j \in Jobs |-> Idle]
  /\ fd = [j \in Jobs |-> "none"]
  /\ started = 0 /\ daemonCrashes = 0
  /\ promised = [t \in TagNames |-> "none"]
  /\ hurt = {} /\ cut = {} /\ interrupted = {} /\ rootfses = {}

----------------------------------------------------------------------------
(* A job's program. *)

\* load_tags: a file that is there must parse.
TagsReadable == tags # Torn

Head1(j) == Head(job[j].todo)
At(j, op) == job[j].todo # <<>> /\ Head1(j)[1] = op
Arg(j) == Head1(j)[2]
Rest(j) == Tail(job[j].todo)

\* load_docker_archive: the layers of an archive, assembled like a build.
LoadArchive == << <<"assemble", "AX">> >>

\* The calls before the first await of each operation; what follows depends on
\* what they find.
Program(k, ref) ==
  CASE k = "create" -> << <<"lookup", ref>> >>
    [] k \in {"pull", "apipull"} -> << <<"pullmanifest", ref>> >>
    [] k = "build" -> << <<"ensurebase", "r">>, <<"base", "r">> >>
    [] k = "load" -> LoadArchive
    [] k = "untag" -> << <<"untag", ref>> >>
    [] k = "delete" -> << <<"deletemanifest", ref>> >>

Does(j, steps) == job' = [job EXCEPT ![j].todo = steps]
Chooses(j, i, steps) == job' = [job EXCEPT ![j].todo = steps, ![j].img = i]
Gives(j) == job' = [job EXCEPT ![j] = Idle]

\* The image whose manifest a job has cached and whose config it still owes.
Owes(j) ==
  IF job[j].img \in Images
     /\ \E n \in DOMAIN job[j].todo :
          /\ job[j].todo[n][1] \in {"need", "put", "write", "rename", "copy"}
          /\ job[j].todo[n][2] = ConfigOf[job[j].img]
  THEN {job[j].img} ELSE {}

\* An error returned to the caller; nothing written so far is undone.
Fails(j) == Gives(j) /\ interrupted' = interrupted \cup Owes(j)

Start(j) ==
  /\ job[j].kind = "idle" /\ started < MaxJobs
  /\ \E k \in Kinds, ref \in Refs :
       /\ k \in {"pull", "apipull", "untag", "build", "load"} => ref = "r"
       /\ job' = [job EXCEPT ![j] = [Idle EXCEPT !.kind = k, !.ref = ref, !.todo = Program(k, ref)]]
  /\ started' = started + 1
  /\ UNCHANGED <<files, tags, dirs, registry, fd, daemonCrashes, promised, hurt, cut, interrupted, rootfses>>

----------------------------------------------------------------------------
(* The layer cache. *)

Writers == {j \in Jobs : job[j].todo # <<>> /\ Head1(j)[1] \in {"write", "rename", "save", "flush"}}
MayWrite == Cardinality(Writers) < MaxWriters
Has(f) == files[f] # "none"
\* What put() is given: verify_digest admits only the blob's own data.
DataOf(j, f) == IF f \in ManifestKeys THEN job[j].img ELSE f

\* atomic_write: File::create truncates the temporary file, a new one or the
\* one another writer of this process has open.
PutOpen(j) ==
  /\ At(j, "put") /\ MayWrite
  /\ files' = [files EXCEPT ![Tmp(Arg(j))] = "empty"]
  /\ fd' = [fd EXCEPT ![j] = Tmp(Arg(j))]
  /\ Does(j, <<<<"write", Arg(j)>>>> \o Rest(j))
  /\ UNCHANGED <<tags, dirs, registry, started, daemonCrashes, promised, hurt, cut, interrupted, rootfses>>

\* write_all and sync_all go to the open file, whatever its name is by now.
PutWrite(j) ==
  /\ At(j, "write")
  /\ files' = IF fd[j] \in Files THEN [files EXCEPT ![fd[j]] = DataOf(j, Arg(j))] ELSE files
  /\ Does(j, <<<<"rename", Arg(j)>>>> \o Rest(j))
  /\ UNCHANGED <<tags, dirs, registry, fd, started, daemonCrashes, promised, hurt, cut, interrupted, rootfses>>

\* rename moves whatever the temporary name denotes; descriptors follow the file.
PutRename(j) ==
  LET f == Arg(j) IN
  /\ At(j, "rename")
  /\ \/ /\ Has(Tmp(f))
        /\ files' = [files EXCEPT ![f] = files[Tmp(f)], ![Tmp(f)] = "none"]
        /\ fd' = [k \in Jobs |-> IF k = j \/ fd[k] = f THEN "gone"
                                  ELSE IF fd[k] = Tmp(f) THEN f ELSE fd[k]]
        /\ Does(j, Rest(j)) /\ UNCHANGED interrupted
     \/ /\ ~Has(Tmp(f))                       \* another writer renamed it first
        /\ Fails(j) /\ fd' = [fd EXCEPT ![j] = "gone"] /\ UNCHANGED files
  /\ UNCHANGED <<tags, dirs, registry, started, daemonCrashes, promised, hurt, cut, rootfses>>

\* A blob that must be cached: fetched from the registry when it is not.
Need(j) ==
  /\ At(j, "need")
  /\ \/ Has(Arg(j)) /\ Does(j, Rest(j)) /\ UNCHANGED interrupted
     \/ ~Has(Arg(j)) /\ Does(j, <<<<"put", Arg(j)>>>> \o Rest(j)) /\ UNCHANGED interrupted
     \/ ~Has(Arg(j)) /\ Fails(j)
  /\ UNCHANGED <<files, tags, dirs, registry, fd, started, daemonCrashes, promised, hurt, cut, rootfses>>

----------------------------------------------------------------------------
(* Creating a VM: the tag, the image directory, the cached manifest, the registry. *)

BlobSteps(op, i) == [n \in 1..Len(LayersOf[i]) |-> <<op, LayersOf[i][n]>>]
UnpackAll(i) == BlobSteps("unpack", i)

\* load_store_layout_image_into_cache.
StoreLayout(ref, i) ==
  <<<<"copy", ManifestKey[ref]>>, <<"copy", ConfigOf[i]>>>> \o BlobSteps("copy", i)

Lookup(j) ==
  LET ref == Arg(j) IN
  /\ At(j, "lookup")
  /\ \/ ~TagsReadable /\ Fails(j)
     \/ /\ TagsReadable /\ tags[ref] # "none"
        /\ Chooses(j, tags[ref], StoreLayout(ref, tags[ref]) \o UnpackAll(tags[ref]))
        /\ UNCHANGED interrupted
     \/ TagsReadable /\ tags[ref] = "none" /\ Does(j, <<<<"cached", "first">>>>) /\ UNCHANGED interrupted
  /\ UNCHANGED <<files, tags, dirs, registry, fd, started, daemonCrashes, promised, hurt, cut, rootfses>>

\* put_from_file out of the image directory; without it the cached manifest is tried.
CopyFromStore(j) ==
  /\ At(j, "copy")
  /\ \/ dirs[job[j].img] = "whole" /\ Does(j, <<<<"put", Arg(j)>>>> \o Rest(j)) /\ UNCHANGED interrupted
     \/ /\ dirs[job[j].img] # "whole"
        /\ Does(j, <<<<"cached", "fallback">>>>)
        /\ interrupted' = interrupted \cup Owes(j)
  /\ UNCHANGED <<files, tags, dirs, registry, fd, started, daemonCrashes, promised, hurt, cut, rootfses>>

LoadCached(j) ==
  LET m == files[ManifestKey[job[j].ref]] IN
  /\ At(j, "cached")
  /\ \/ m = "none" /\ Arg(j) = "first" /\ Does(j, <<<<"resolve", job[j].ref>>>>) /\ UNCHANGED interrupted
     \/ m = "none" /\ Arg(j) = "fallback" /\ Fails(j)
     \/ m \in Images /\ Chooses(j, m, <<<<"config", ConfigOf[m]>>>> \o UnpackAll(m)) /\ UNCHANGED interrupted
  /\ UNCHANGED <<files, tags, dirs, registry, fd, started, daemonCrashes, promised, hurt, cut, rootfses>>

\* The config blob beside a cached manifest: its absence is an error, not a download.
CachedConfig(j) ==
  /\ At(j, "config")
  /\ \/ Has(Arg(j)) /\ Does(j, Rest(j)) /\ UNCHANGED interrupted
     \/ ~Has(Arg(j)) /\ Fails(j)
  /\ UNCHANGED <<files, tags, dirs, registry, fd, started, daemonCrashes, promised, hurt, cut, rootfses>>

\* The config of a manifest that was not resolved locally may be downloaded.
ConfigBlob(i) == <<<<"need", ConfigOf[i]>>>>

\* Nothing local: the manifest that meanwhile got cached, or the registry's.
ResolveManifest(j) ==
  LET k == ManifestKey[Arg(j)] IN
  /\ At(j, "resolve")
  /\ \/ /\ files[k] \in Images
        /\ Chooses(j, files[k], ConfigBlob(files[k]) \o UnpackAll(files[k]))
        /\ UNCHANGED interrupted
     \/ /\ ~Has(k) /\ Arg(j) = "r"
        /\ Chooses(j, registry, <<<<"put", k>>>> \o ConfigBlob(registry) \o UnpackAll(registry))
        /\ UNCHANGED interrupted
     \/ ~Has(k) /\ Fails(j)
  /\ UNCHANGED <<files, tags, dirs, registry, fd, started, daemonCrashes, promised, hurt, cut, rootfses>>

Unpacks(j, l) == job' = [job EXCEPT ![j].todo = Rest(j), ![j].got = Append(@, files[l])]

\* One layer of download_and_build_rootfs.
UnpackLayerOf(j) ==
  /\ At(j, "unpack")
  /\ \/ Has(Arg(j)) /\ files[Arg(j)] # "empty" /\ Unpacks(j, Arg(j)) /\ UNCHANGED interrupted
     \/ ~Has(Arg(j)) /\ Does(j, <<<<"put", Arg(j)>>, <<"reget", Arg(j)>>>> \o Rest(j)) /\ UNCHANGED interrupted
     \/ (~Has(Arg(j)) \/ files[Arg(j)] = "empty") /\ Fails(j)
  /\ UNCHANGED <<files, tags, dirs, registry, fd, started, daemonCrashes, promised, hurt, cut, rootfses>>

\* The blob is looked up again after put(): it may be gone.
GetAfterPut(j) ==
  /\ At(j, "reget")
  /\ \/ Has(Arg(j)) /\ files[Arg(j)] # "empty" /\ Unpacks(j, Arg(j)) /\ UNCHANGED interrupted
     \/ (~Has(Arg(j)) \/ files[Arg(j)] = "empty") /\ Fails(j)
  /\ UNCHANGED <<files, tags, dirs, registry, fd, started, daemonCrashes, promised, hurt, cut, rootfses>>

----------------------------------------------------------------------------
(* Pulling, building, loading. *)

PullTags(ref, i) == <<<<"tag", ref>>, <<"tag", i>>>>

\* pull_image of the API: the manifest is cached first, then what is missing.
ApiPull(ref, i) ==
  <<<<"put", ManifestKey[ref]>>, <<"need", ConfigOf[i]>>>> \o BlobSteps("need", i)

\* pull_image of the image manager: the same and the tags, at the end.
PullImage(ref, i) == ApiPull(ref, i) \o PullTags(ref, i)

PullManifest(j) ==
  LET ref == Arg(j) IN
  /\ At(j, "pullmanifest")
  /\ \/ /\ Chooses(j, registry,
             (IF job[j].kind = "apipull" THEN ApiPull(ref, registry) ELSE PullImage(ref, registry)) \o Rest(j))
        /\ UNCHANGED interrupted
     \/ Fails(j)
  /\ UNCHANGED <<files, tags, dirs, registry, fd, started, daemonCrashes, promised, hurt, cut, rootfses>>

EnsureBaseImage(j) ==
  /\ At(j, "ensurebase")
  /\ \/ ~TagsReadable /\ Fails(j)
     \/ TagsReadable /\ tags[Arg(j)] # "none" /\ Does(j, Rest(j)) /\ UNCHANGED interrupted
     \/ /\ TagsReadable /\ tags[Arg(j)] = "none"
        /\ Does(j, <<<<"pullmanifest", Arg(j)>>>> \o Rest(j)) /\ UNCHANGED interrupted
  /\ UNCHANGED <<files, tags, dirs, registry, fd, started, daemonCrashes, promised, hurt, cut, rootfses>>

\* resolve_base_image: the stored directory of the tag, or the cached manifest
\* with its config and all its layers.
StoredBase(ref) == {i \in Images : TagsReadable /\ tags[ref] = i /\ dirs[i] = "whole"}
CachedBase(ref) == {i \in Images : files[ManifestKey[ref]] = i /\ \A b \in BlobsOf(i) : Has(b)}

ResolveBase(j) ==
  /\ At(j, "base")
  /\ \/ \E i \in IF StoredBase(Arg(j)) # {} THEN StoredBase(Arg(j)) ELSE CachedBase(Arg(j)) :
          Does(j, <<<<"assemble", BuiltFrom[i]>>>>) /\ UNCHANGED interrupted
     \/ StoredBase(Arg(j)) \cup CachedBase(Arg(j)) = {} /\ Fails(j)
  /\ UNCHANGED <<files, tags, dirs, registry, fd, started, daemonCrashes, promised, hurt, cut, rootfses>>

\* The image is assembled in a staging directory of its own; the directory of
\* the same digest, if there is one, is removed first.
AssembledTags(i) == <<<<"tag", "t">>, <<"tag", i>>>>

AssembleTagsFirst(j) ==
  LET i == Arg(j) IN
  /\ At(j, "assemble")
  /\ dirs' = [dirs EXCEPT ![i] = "none"]
  /\ Chooses(j, i, <<<<"tag", "t">>, <<"move", i>>, <<"tag", i>>>>)
  /\ UNCHANGED <<files, tags, registry, fd, started, daemonCrashes, promised, hurt, cut, interrupted, rootfses>>

Assemble(j) ==
  LET i == Arg(j) IN
  /\ At(j, "assemble")
  /\ dirs' = [dirs EXCEPT ![i] = "none"]
  /\ Chooses(j, i, <<<<"move", i>>>> \o AssembledTags(i))
  /\ UNCHANGED <<files, tags, registry, fd, started, daemonCrashes, promised, hurt, cut, interrupted, rootfses>>

\* rename of a directory onto one that is not empty fails.
MoveIntoStore(j) ==
  /\ At(j, "move")
  /\ \/ dirs[Arg(j)] = "none" /\ dirs' = [dirs EXCEPT ![Arg(j)] = "whole"] /\ Does(j, Rest(j)) /\ UNCHANGED interrupted
     \/ dirs[Arg(j)] = "whole" /\ Fails(j) /\ UNCHANGED dirs
  /\ UNCHANGED <<files, tags, registry, fd, started, daemonCrashes, promised, hurt, cut, rootfses>>

----------------------------------------------------------------------------
(* tags.json: read, changed and written back whole. *)

TagLoad(j) ==
  /\ At(j, "tag") /\ MayWrite
  /\ \/ ~TagsReadable /\ Fails(j) /\ UNCHANGED promised
     \/ /\ TagsReadable
        /\ Does(j, <<<<"save", [tags EXCEPT ![Arg(j)] = job[j].img], Arg(j)>>>> \o Rest(j))
        /\ promised' = [promised EXCEPT ![Arg(j)] = "none"]
        /\ UNCHANGED interrupted
  /\ UNCHANGED <<files, tags, dirs, registry, fd, started, daemonCrashes, hurt, cut, rootfses>>

Tagged(t) == TagsReadable /\ tags[t] # "none"

\* remove_image: the tag must have existed.
UntagLoad(j) ==
  /\ At(j, "untag") /\ MayWrite
  /\ \/ ~Tagged(Arg(j)) /\ Fails(j) /\ UNCHANGED promised
     \/ /\ Tagged(Arg(j))
        /\ Does(j, <<<<"save", [tags EXCEPT ![Arg(j)] = "none"], Arg(j)>>>> \o Rest(j))
        /\ promised' = [promised EXCEPT ![Arg(j)] = "none"]
        /\ UNCHANGED interrupted
  /\ UNCHANGED <<files, tags, dirs, registry, fd, started, daemonCrashes, hurt, cut, rootfses>>

\* fs::write truncates the file and then writes it.
SaveTags(j) ==
  /\ \/ /\ At(j, "save") /\ tags' = Torn
        /\ Does(j, <<<<"flush", Arg(j), Head1(j)[3]>>>> \o Rest(j)) /\ UNCHANGED promised
     \/ /\ At(j, "flush") /\ tags' = Arg(j)
        /\ promised' = [promised EXCEPT ![Head1(j)[3]] = Arg(j)[Head1(j)[3]]]
        /\ Does(j, Rest(j))
  /\ UNCHANGED <<files, dirs, registry, fd, started, daemonCrashes, hurt, cut, interrupted, rootfses>>

----------------------------------------------------------------------------
(* Deleting through the API: every blob of the cached manifest, shared or not. *)

DeleteBlobs(ref, m) == BlobSteps("remove", m) \o <<<<"remove", ConfigOf[m]>>, <<"remove", ManifestKey[ref]>>>>

DeleteManifest(j) ==
  LET m == files[ManifestKey[Arg(j)]] IN
  /\ At(j, "deletemanifest")
  /\ \/ m = "none" /\ Fails(j) /\ UNCHANGED cut
     \/ /\ m \in Images
        /\ Does(j, DeleteBlobs(Arg(j), m))
        /\ cut' = cut \cup {i \in Images : BlobsOf(i) \cap BlobsOf(m) # {}}
        /\ UNCHANGED interrupted
  /\ UNCHANGED <<files, tags, dirs, registry, fd, started, daemonCrashes, promised, hurt, rootfses>>

RemoveFile(j) ==
  /\ At(j, "remove")
  /\ files' = [files EXCEPT ![Arg(j)] = "none"]
  /\ fd' = [k \in Jobs |-> IF fd[k] = Arg(j) THEN "gone" ELSE fd[k]]
  /\ Does(j, Rest(j))
  /\ UNCHANGED <<tags, dirs, registry, started, daemonCrashes, promised, hurt, cut, interrupted, rootfses>>

----------------------------------------------------------------------------
(* Results, the registry, and the end of the daemon. *)

\* What is left after the last layer of a create, injecting the first process
\* and making the ext4 image, may fail too.
RootfsFails(j) ==
  /\ job[j].kind = "create" /\ job[j].todo = <<>> /\ Fails(j)
  /\ UNCHANGED <<files, tags, dirs, registry, fd, started, daemonCrashes, promised, hurt, cut, rootfses>>

Finish(j) ==
  /\ job[j].kind # "idle" /\ job[j].todo = <<>>
  /\ rootfses' = rootfses \cup (IF job[j].kind = "create" THEN {<<job[j].img, job[j].got>>} ELSE {})
  /\ Gives(j)
  /\ UNCHANGED <<files, tags, dirs, registry, fd, started, daemonCrashes, promised, hurt, cut, interrupted>>

RegistryMoves ==
  /\ registry = "A" /\ registry' = "B"
  /\ UNCHANGED <<files, tags, dirs, job, fd, started, daemonCrashes, promised, hurt, cut, interrupted, rootfses>>

\* The process ends between two calls; the temporary files stay.
DaemonCrashes ==
  /\ daemonCrashes < MaxCrashes /\ \E j \in Jobs : job[j].kind # "idle"
  /\ daemonCrashes' = daemonCrashes + 1
  /\ hurt' = hurt \cup {i \in Images : \E j \in Jobs : At(j, "move") /\ Arg(j) = i /\ dirs[i] = "none"}
  /\ interrupted' = interrupted \cup UNION {Owes(j) : j \in Jobs}
  /\ job' = [j \in Jobs |-> Idle] /\ fd' = [j \in Jobs |-> "none"]
  /\ UNCHANGED <<files, tags, dirs, registry, started, promised, cut, rootfses>>

Pulls(j) == PullManifest(j) \/ EnsureBaseImage(j) \/ ResolveBase(j) \/ Assemble(j) \/ MoveIntoStore(j)
Creates(j) == Lookup(j) \/ CopyFromStore(j) \/ LoadCached(j) \/ CachedConfig(j) \/ ResolveManifest(j)
              \/ UnpackLayerOf(j) \/ GetAfterPut(j)
CacheCalls(j) == PutOpen(j) \/ PutWrite(j) \/ PutRename(j) \/ Need(j) \/ DeleteManifest(j) \/ RemoveFile(j)
TagCalls(j) == TagLoad(j) \/ UntagLoad(j) \/ SaveTags(j)

ImageNext ==
  \/ \E j \in Jobs : Start(j) \/ Pulls(j) \/ Creates(j) \/ CacheCalls(j) \/ TagCalls(j) \/ RootfsFails(j) \/ Finish(j)
  \/ RegistryMoves
  \/ DaemonCrashes

----------------------------------------------------------------------------
(* Properties. *)

\* "Writes are atomic": whatever is running or has crashed, a blob in the cache
\* is whole and is the blob its digest names (cache.rs atomic_write).
BlobsWhole == \A b \in Blobs : files[b] \in {"none", b}

\* A root filesystem is built of exactly the layers of one manifest, in order,
\* from the cache, the store or the registry, and with deletes going on.
RootfsExact == \A x \in rootfses : x[2] = LayersOf[x[1]]

\* A tag once written stays in tags.json until some operation changes that very
\* tag; the file is unreadable only while it is being written, or
\* after a crash caught it so.
TagKept ==
  /\ tags = Torn => daemonCrashes > 0 \/ \E j \in Jobs : At(j, "flush")
  /\ TagsReadable => \A t \in TagNames : promised[t] # "none" => tags[t] = promised[t]

\* A tag denotes an image that is all there, in the store or in the cache:
\* unless its blobs were deleted, or its directory is being replaced.
TagResolves ==
  TagsReadable => \A i \in Images :
    (\E t \in TagNames : tags[t] = i) =>
       \/ dirs[i] = "whole" \/ \A b \in BlobsOf(i) : files[b] = b
       \/ i \in hurt \cup cut
       \/ \E j \in Jobs : job[j].kind \in {"build", "load"} /\ job[j].img = i /\ At(j, "move")

\* A cached manifest without its config blob, which makes every create of that
\* reference fail, is left behind only by an operation that is still running,
\* failed or was killed in between, or by a delete.
ManifestHasConfig ==
  \A k \in ManifestKeys : files[k] \in Images =>
    \/ Has(ConfigOf[files[k]])
    \/ files[k] \in interrupted \cup cut
    \/ \E j \in Jobs : files[k] \in Owes(j)

(* The image cache serves what its names say, operations and deletions       *)
(* running and crashing in it: blobs are whole, a root filesystem has the    *)
(* layers of one manifest, tags stay and resolve, and a manifest is not left *)
(* without its config.                                                       *)
ImagesSound ==
  /\ BlobsWhole /\ RootfsExact /\ TagKept
  /\ TagResolves /\ ManifestHasConfig
=============================================================================
