--------------------------- MODULE DockerTranslate ---------------------------
(***************************************************************************)
(* The pure conversions of the Docker layer (visor-docker translate.rs and *)
(* the lookups of handlers.rs): what a create request asks for against the *)
(* VM configuration it becomes, and which container an identifier means.   *)
(* A state holds one input; the definitions are checked over all of them.  *)
(***************************************************************************)
EXTENDS Integers, Sequences, SequencesExt, FiniteSets, FiniteSetsExt

CONSTANTS Kibi,          \* 1024, the step between two size suffixes
          MaxU64, MaxU32,
          MaxExtraMib,   \* MAX_ROOTFS_EXTRA_SIZE_MIB
          Amounts,       \* the numbers requests contain
          DefaultMib, FloorMib

ASSUME TranslateAssumption ==
  /\ {Kibi, MaxU64, MaxU32, MaxExtraMib, DefaultMib, FloorMib} \subseteq Nat \ {0}
  /\ MaxExtraMib * Kibi * Kibi <= MaxU64 /\ DefaultMib <= MaxU32 /\ FloorMib <= MaxU32

VARIABLE sample
translateVars == <<sample>>

Refused == -1
CeilDiv(a, b) == (a + b - 1) \div b
Fits(n, max) == IF n <= max THEN n ELSE Refused

(* parse_storage_size_mib: the amount is a u64; a suffix larger than a     *)
(* mebibyte multiplies with an overflow check, a smaller one rounds up.    *)
ParseStorageSizeMib(amount, suffix) ==
  IF amount = 0 \/ amount > MaxU64 THEN Refused
  ELSE LET mib == CASE suffix = "b" -> CeilDiv(amount, Kibi * Kibi)
                    [] suffix = "k" -> CeilDiv(amount, Kibi)
                    [] suffix = "m" -> amount
                    [] suffix = "g" -> Fits(amount * Kibi, MaxU64)
                    [] suffix = "t" -> Fits(amount * Kibi * Kibi, MaxU64)
                    [] OTHER -> Refused
       IN IF mib <= 0 THEN Refused ELSE Fits(mib, MaxExtraMib)

(* The memory of a request is in bytes, converted to a u32 of mebibytes;   *)
(* a value that does not fit becomes the default, a small one the floor.   *)
MemoryMib(bytes) ==
  IF bytes <= 0 THEN DefaultMib
  ELSE LET mib == bytes \div (Kibi * Kibi) IN Max({IF mib > MaxU32 THEN DefaultMib ELSE mib, FloorMib})

(* parse_port_bindings: a guest port that is 0 or does not parse is        *)
(* skipped; a host port that does not parse is the guest port, while 0     *)
(* stays 0 and lets the backend choose.                                    *)
NoNumber == -1

ParsePortBindingsZero(bindings) ==
  {[b EXCEPT !.host = IF @ = NoNumber THEN 0 ELSE @] : b \in {x \in bindings : x.guest > 0}}

ParsePortBindings(bindings) ==
  {[b EXCEPT !.host = IF @ = NoNumber THEN b.guest ELSE @] : b \in {x \in bindings : x.guest > 0}}

(* ports_to_bindings: every mapping is shown under its guest port, as tcp. *)
PortsToBindings(ports) == {<<p.guest, "tcp", p.host>> : p \in ports}

(* collect_service_ports: the exposed and published guest ports that       *)
(* parse, 0 included.                                                      *)
CollectServicePorts(exposed, bindings) ==
  {e \in exposed \cup {[port |-> b.guest, proto |-> b.proto] : b \in bindings} : e.port # NoNumber}

(* collect_network_names, and compose_network_names for the peers.         *)
BuiltinModes == {"", "default", "bridge", "host", "none"}
JoinsContainer == "container:"
ProjectDefault(project) == <<project, "default">>

CollectNetworkNames(req) ==
  IF req.endpoints # {} THEN req.endpoints
  ELSE IF req.mode \notin BuiltinModes \cup {JoinsContainer} THEN {<<req.mode>>}
  ELSE IF req.project # "" THEN {ProjectDefault(req.project)} ELSE {}

SharedNetwork(left, right) == CollectNetworkNames(left) \cap CollectNetworkNames(right)

(* resolve_managed_container_id: an exact identifier, else a name, else an *)
(* unambiguous prefix of an identifier.                                    *)
ResolveManagedContainerId(cs, id) ==
  LET named == {c \in cs : c.name = id}
      starting == {c \in cs : IsPrefix(id, c.id)}
  IN IF \E c \in cs : c.id = id THEN {c \in cs : c.id = id}
     ELSE IF named # {} THEN named
     ELSE IF id = <<>> \/ Cardinality(starting) # 1 THEN {} ELSE starting

(* resolv_conf_uses_only_loopback_nameservers: at least one nameserver     *)
(* line, each a loopback address; an address that does not parse ends it.  *)
LoopbackOnly(lines) ==
  /\ \E i \in 1..Len(lines) : lines[i] # "other"
  /\ \A i \in 1..Len(lines) : lines[i] \in {"loopback", "other"}

(* archive_needs_resolv_override: of an archive for /etc the first entry   *)
(* called resolv.conf decides; one that is no regular file is replaced.    *)
ArchiveNeedsResolvOverride(dest, entries) ==
  LET found == SelectSeq(entries, LAMBDA e : e.resolv)
  IN dest = "/etc" /\ found # <<>> /\ (~found[1].file \/ LoopbackOnly(found[1].lines))

----------------------------------------------------------------------------
SizeSuffixes == {"b", "k", "m", "g", "t", "x"}
Bindings == [guest: {NoNumber, 0, 80, 81}, host: {NoNumber, 0, 80, 90}, proto: {"tcp", "udp"}]
Requests == [endpoints: SUBSET {<<"front">>, <<"back">>}, mode: {"bridge", JoinsContainer, "front"}, project: {"", "p"}]
Ids == {<<1, 1>>, <<1, 2>>, <<2, 1>>}
Managed == [id: Ids, name: {<<>>, <<1>>, <<1, 1>>, <<9>>}]
Lines == {"loopback", "public", "garbage", "other"}
Texts == UNION {[1..n -> Lines] : n \in 0..2}
Entries == [resolv: {TRUE}, file: {TRUE}, lines: Texts]
             \cup [resolv: {TRUE}, file: {FALSE}, lines: {<<>>}] \cup [resolv: {FALSE}, file: {TRUE}, lines: {<<>>}]

Samples ==
  [kind: {"size"}, amount: Amounts, suffix: SizeSuffixes]
  \cup [kind: {"bytes"}, bytes: Amounts \cup {-1}]
  \cup [kind: {"ports"}, bindings: {{}} \cup {{a, b} : a, b \in Bindings}]
  \cup [kind: {"nets"}, left: Requests, right: Requests]
  \cup [kind: {"ids"}, cs: {s \in UNION {kSubset(n, Managed) : n \in 0..2} :
                              \A a, b \in s : a.id = b.id => a = b},
        ask: Ids \cup {<<>>, <<1>>, <<9>>}]
  \cup [kind: {"resolv"}, dest: {"/etc", "/srv"}, entries: UNION {[1..n -> Entries] : n \in 0..2}]

TranslateInit == sample \in Samples
TranslateNext == UNCHANGED sample

Is(kind) == sample.kind = kind

(* The extra root file system of a container is the size asked for rounded *)
(* up to mebibytes, and only a size that is zero, unknown or beyond the    *)
(* maximum is refused.                                                     *)
Bytes(amount, suffix) ==
  amount * (CASE suffix = "b" -> 1 [] suffix = "k" -> Kibi [] suffix = "m" -> Kibi * Kibi
              [] suffix = "g" -> Kibi * Kibi * Kibi [] OTHER -> Kibi * Kibi * Kibi * Kibi)

StorageExact ==
  Is("size") =>
    LET got == ParseStorageSizeMib(sample.amount, sample.suffix)
        want == Bytes(sample.amount, sample.suffix)
    IN IF got = Refused
       THEN sample.suffix = "x" \/ want = 0 \/ want > MaxExtraMib * Kibi * Kibi
       ELSE /\ want <= got * Kibi * Kibi /\ (got - 1) * Kibi * Kibi < want /\ got <= MaxExtraMib

(* A VM is never given more memory than was asked for, the default and the *)
(* floor apart, never none, and the request's whole mebibytes when those   *)
(* fit.                                                                    *)
MemoryFollows ==
  Is("bytes") =>
    LET got == MemoryMib(sample.bytes)
        want == sample.bytes \div (Kibi * Kibi)
    IN /\ got >= 1 /\ got <= MaxU32
       /\ sample.bytes > 0 /\ want <= MaxU32 /\ want >= FloorMib => got = want

(* Every binding with a guest port is published on the host port asked     *)
(* for, on the guest's own when that is no number, and on one the backend  *)
(* picks only when 0 was asked for; inspect shows it under its guest port  *)
(* and it is discoverable as a service port.                               *)
PortsKept ==
  Is("ports") =>
    LET ports == ParsePortBindings(sample.bindings)
        asked == {b \in sample.bindings : b.guest > 0}
    IN /\ \A b \in asked : \E p \in ports : p.guest = b.guest /\ p.proto = b.proto
             /\ p.host = IF b.host = NoNumber THEN b.guest ELSE b.host
       /\ \A p \in ports : p.host = 0 => [p EXCEPT !.host = 0] \in asked
       /\ {<<k[1], k[3]>> : k \in PortsToBindings(ports)} = {<<p.guest, p.host>> : p \in ports}
       /\ {p.guest : p \in ports} = {s.port : s \in CollectServicePorts({}, sample.bindings)} \ {0}

(* Peers get each other's address on a network both are attached to; two   *)
(* containers of one project that name no network (or join another         *)
(* container's) always have one.                                           *)
PeersShareNetwork ==
  Is("nets") =>
    LET l == sample.left
        r == sample.right
    IN /\ SharedNetwork(l, r) = SharedNetwork(r, l)
       /\ l.project # "" /\ l.project = r.project /\ l.endpoints = {} /\ r.endpoints = {}
          /\ {l.mode, r.mode} \subseteq BuiltinModes \cup {JoinsContainer} => SharedNetwork(l, r) # {}

(* An identifier means at most one container unless two share the name it  *)
(* is; the full identifier of a container always means that container.     *)
ResolveSound ==
  Is("ids") =>
    LET got == ResolveManagedContainerId(sample.cs, sample.ask)
    IN /\ Cardinality(got) > 1 => \A c \in got : c.name = sample.ask
       /\ \A c \in sample.cs : c.id = sample.ask => got = {c}

(* The fallback resolv.conf replaces only a file put in /etc that is no    *)
(* regular file or names servers, all of them loopback: one usable server  *)
(* keeps the client's file, whatever else the archive holds.               *)
FallbackOnlyIfNeeded ==
  Is("resolv") =>
    (ArchiveNeedsResolvOverride(sample.dest, sample.entries) =>
       \E i \in DOMAIN sample.entries :
         LET e == sample.entries[i] IN
         /\ e.resolv /\ \A j \in 1..(i - 1) : ~sample.entries[j].resolv
         /\ e.file => "loopback" \in ToSet(e.lines) /\ ToSet(e.lines) \cap {"public", "garbage"} = {})

(* Requests of Docker clients mean for the VM what they say: sizes, memory,  *)
(* ports, networks, identifiers and name servers.                            *)
ConversionsExact ==
  /\ StorageExact /\ MemoryFollows /\ PortsKept
  /\ PeersShareNetwork /\ ResolveSound /\ FallbackOnlyIfNeeded
=============================================================================
