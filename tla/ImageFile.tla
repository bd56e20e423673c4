----------------------------- MODULE ImageFile -----------------------------
(***************************************************************************)
(* The file format the persisted images share (persistence/*_image.cpp):   *)
(* a header with a magic, a version, live counts and two checksums; a      *)
(* directory with the record count and the checksum of every section; the  *)
(* sections, arrays of fixed-size records; and among them open-addressing  *)
(* indexes whose slots hold a fingerprint and a handle.                    *)
(*                                                                         *)
(* A section is the sequence of its records, and its byte size is its      *)
(* record count: the record sizes and the 64-byte alignment are constants  *)
(* of the format.  The checksum is ideal: it is the value it covers.       *)
(***************************************************************************)
EXTENDS Naturals, Sequences, SequencesExt, FiniteSets, FiniteSetsExt, Functions

CONSTANTS MinSlots,        \* smallest persisted index (16 in the code)
          Fingerprints,    \* values of a 32-bit fingerprint
          Spread,          \* neighbouring keys that share a hash
          NameHash         \* NameHash[n]: FNV-1a hash of the text of a name

ASSUME ImageConstants ==
  /\ \E k \in 0..MinSlots : MinSlots = 2^k
  /\ Fingerprints \in Nat \ {0} /\ Spread \in Nat \ {0}

Checksum(value) == value

Sum(counts) == FoldFunction(LAMBDA a, b : a + b, 0, counts)
Total(sections) == Sum([s \in DOMAIN sections |-> Len(sections[s])])

\* The numbers first..last in order.
SlotsFrom(first, last) == [i \in 1..(last - first + 1) |-> first + i - 1]

Directory(sections) ==
  [s \in DOMAIN sections |-> [count |-> Len(sections[s]), crc |-> Checksum(sections[s])]]

\* The header and directory that describe sections; counts is whatever else
\* the header of this kind of image records.
Sealed(magic, version, counts, sections) ==
  LET directory == Directory(sections)
      header == [magic |-> magic, version |-> version, size |-> Total(sections),
                 counts |-> counts, directory_crc |-> Checksum(directory)]
  IN [header |-> header, header_crc |-> Checksum(header),
      directory |-> directory, sections |-> sections]

\* The first checks of every bind: fixed metadata and its two checksums.
BindHeader(image, magic, version) ==
  IF image.header.magic # magic THEN "artifact_corrupt"
  ELSE IF image.header.version # version THEN "rebuild_required"
  ELSE IF /\ Checksum(image.header) = image.header_crc
          /\ Checksum(image.directory) = image.header.directory_crc
       THEN "ok" ELSE "artifact_corrupt"

\* bind: one contiguous file.  The sections follow one another, so a file that
\* was cut or grew anywhere has another size than its header records.
BindFile(image, magic, version) ==
  LET checked == BindHeader(image, magic, version) IN
  IF checked # "ok" THEN checked
  ELSE IF /\ image.header.size = Total(image.sections)
          /\ image.header.size = Sum([s \in DOMAIN image.directory |-> image.directory[s].count])
       THEN "ok" ELSE "artifact_corrupt"

\* bind_sectioned: a prefix and separate sections, each of its recorded size.
BindSections(image, magic, version) ==
  LET checked == BindHeader(image, magic, version) IN
  IF checked # "ok" THEN checked
  ELSE IF \A s \in DOMAIN image.directory : Len(image.sections[s]) = image.directory[s].count
       THEN "ok" ELSE "artifact_corrupt"

\* The first pass of every verify_contents.
SectionsIntact(image) ==
  \A s \in DOMAIN image.directory : Checksum(image.sections[s]) = image.directory[s].crc

----------------------------------------------------------------------------
(* Open-addressing indexes.                                                *)

EmptySlot == [fingerprint |-> 0, id |-> 0]

\* index_capacity: the least power of two, at least MinSlots, above 2n.
Slots(n) ==
  CHOOSE p \in {MinSlots * 2^k : k \in 0..n} :
    /\ p >= 2 * n + 1
    /\ \A k \in 0..n : MinSlots * 2^k >= 2 * n + 1 => p <= MinSlots * 2^k

ValidSlots(n) == n >= MinSlots /\ \E k \in 0..n : n = 2^k

EmptyIndex(slots) == FoldLeft(LAMBDA t, i : Append(t, EmptySlot), <<>>, SlotsFrom(1, slots))

\* mix64 and fold32: some hash, and its nonzero fingerprint.
Mix(key) == key \div Spread
Fold32(hash) == IF hash % Fingerprints = 0 THEN 1 ELSE hash % Fingerprints

Position(index, hash, probe) == ((hash + probe) % Len(index)) + 1

FirstProbe(index, Stop(_)) ==
  LET stops == {p \in 0..(Len(index) - 1) : Stop(p)} IN
  IF stops = {} THEN Len(index) ELSE Min(stops)

\* Linear probing to the first free slot.
Insert(index, hash, id) ==
  LET p == FirstProbe(index, LAMBDA k : index[Position(index, hash, k)].id = 0) IN
  [index EXCEPT ![Position(index, hash, p)] = [fingerprint |-> Fold32(hash), id |-> id]]

\* Linear probing to a free slot or to the first one with the fingerprint
\* whose handle Matches; 0 when there is none.
Find(index, hash, Matches(_)) ==
  LET at(k) == index[Position(index, hash, k)]
      hit(k) == at(k).id # 0 /\ at(k).fingerprint = Fold32(hash) /\ Matches(at(k).id)
      p == FirstProbe(index, LAMBDA k : at(k).id = 0 \/ hit(k))
  IN IF p < Len(index) /\ at(p).id # 0 THEN at(p).id ELSE 0

\* Entries inserted in order into an index that may hold some already.
InsertAll(index, entries) ==
  FoldLeft(LAMBDA table, e : Insert(table, e.hash, e.id), index, entries)

Occupied(index) == {i \in DOMAIN index : index[i].id # 0}

\* A free slot is all zero and an occupied one has a fingerprint.
SlotsWellFormed(index) ==
  \A i \in DOMAIN index : (index[i].id = 0) <=> (index[i].fingerprint = 0)

----------------------------------------------------------------------------
(* An array over a mapped baseline (containers/mapped_vector.hpp): the     *)
(* first baseline records are read from the baseline image unless they     *)
(* were materialized; later records are local.                             *)

Mapped(values, baseline, materialized) ==
  [values |-> values, baseline |-> baseline, materialized |-> materialized]

\* encode_mapped_baseline_section: copy the baseline's records, overwrite the
\* materialized ones, append the local ones.  Refused, and then encoded record
\* by record, when the baseline section is not the array's baseline.
OverBaseline(array, written, section) ==
  IF Len(section) = array.baseline
  THEN [i \in 1..Len(array.values) |->
          IF i <= array.baseline /\ i \notin array.materialized
          THEN section[i] ELSE written[i]]
  ELSE written
============================================================================
