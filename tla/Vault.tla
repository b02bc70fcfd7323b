-------------------------------- MODULE Vault --------------------------------
(* VaultIndexer, src/src/crypto/VaultIndexer.ts: files sealed one by one behind an index that is sealed as
   a whole.  Sealing is symbolic: a tag is what was sealed, a sealed byte knows its file
   and its place in it.  Between pack and selectiveUnpack the container is cut short or
   altered. *)
EXTENDS Integers, Sequences, SequencesExt

CONSTANTS
  Paths, Contents,  \* of the files; a content is a sequence of bytes
  MaxFiles,         \* bound
  Keys,
  MaxVaultSize,     \* 100 GB
  HeaderSize, EntrySize, \* what the header, and an entry of the index, take
  Nothing

VARIABLES
  files, key,  \* what pack was called with
  vault,       \* the container: header intact, index, payload
  asked, found \* what selectiveUnpack was called with, and returned

vars == <<files, key, vault, asked, found>>

Init ==
  /\ files = <<>> /\ key = Nothing
  /\ vault = Nothing
  /\ asked = Nothing /\ found = Nothing

(* currentOffset, after each of the files. *)
Offsets(fs) ==
  LET currentOffset[i \in 0..Len(fs)] ==
        IF i = 0 THEN 0 ELSE currentOffset[i - 1] + Len(fs[i].content)
  IN currentOffset

(* Mutant: the offset is stored before the last file is added to it. *)
OffsetLag(fs, i) == Offsets(fs)[IF i = 1 THEN 0 ELSE i - 2]

(* currentOffset, when file i is reached. *)
Offset(fs, i) == Offsets(fs)[i - 1]

Sealed(fs, i) == [j \in DOMAIN fs[i].content |-> <<i, j, fs[i].content[j]>>]

Manifest(fs) ==
  [i \in DOMAIN fs |-> [path |-> fs[i].path, offset |-> Offset(fs, i),
                        size |-> Len(fs[i].content), tag |-> Sealed(fs, i)]]

(* The files region, written file by file. *)
Region(fs) ==
  LET written[i \in 0..Len(fs)] == IF i = 0 THEN <<>> ELSE written[i - 1] \o Sealed(fs, i)
  IN written[Len(fs)]

(* The running total and the whole container stay within the limit, or pack throws. *)
WithinLimit(fs) == HeaderSize + Len(fs) * EntrySize + Offsets(fs)[Len(fs)] <= MaxVaultSize

Pack ==
  /\ vault = Nothing /\ files = <<>>
  /\ \E fs \in UNION {[1..n -> [path : Paths, content : Contents]] : n \in 0..MaxFiles} :
       /\ files' = fs
       /\ vault' = IF WithinLimit(fs)
                   THEN [whole |-> TRUE, index |-> Manifest(fs), payload |-> Region(fs)]
                   ELSE Nothing
  /\ key' \in Keys
  /\ UNCHANGED <<asked, found>>

(* The file is cut short, a byte of the payload is altered, or one before it is: the
   magic, the length, the index or its tag. *)
Damage ==
  /\ vault # Nothing /\ asked = Nothing
  /\ \/ \E n \in 0..Len(vault.payload) : vault' = [vault EXCEPT !.payload = SubSeq(@, 1, n)]
     \/ \E n \in DOMAIN vault.payload : vault' = [vault EXCEPT !.payload[n] = <<0, 0, 0>>]
     \/ vault' = [vault EXCEPT !.whole = FALSE]
  /\ UNCHANGED <<files, key, asked, found>>

-----------------------------------------------------------------------------
(* manifest.find: of two entries with one path the first. *)
EntryOf(path) ==
  LET i == SelectInSeq(vault.index, LAMBDA e : e.path = path)
  IN IF i = 0 THEN Nothing ELSE vault.index[i]

IsThere(e) == e.offset + e.size <= Len(vault.payload)

Slice(e) == SubSeq(vault.payload, e.offset + 1, e.offset + e.size)

(* selectiveUnpack throws, or the slice verifies and is decrypted. *)
SelectiveUnpack(path, k) ==
  /\ vault # Nothing /\ asked = Nothing
  /\ asked' = [path |-> path, key |-> k]
  /\ found' = LET e == EntryOf(path)
              IN IF vault.whole /\ k = key /\ e # Nothing
                 THEN IF IsThere(e) /\ Slice(e) = e.tag
                      THEN [j \in DOMAIN Slice(e) |-> Slice(e)[j][3]] ELSE Nothing
                 ELSE Nothing
  /\ UNCHANGED <<files, key, vault>>

Next == Pack \/ Damage \/ \E path \in Paths, k \in Keys : SelectiveUnpack(path, k)
Spec == Init /\ [][Next]_vars

-----------------------------------------------------------------------------
TypeOK ==
  /\ files \in Seq([path : Paths, content : Contents])
  /\ vault # Nothing => vault.whole \in BOOLEAN

(* Extraction is exact and selective: it returns the first file packed under the path,
   whole, or nothing, and it returns it as long as the index and that file's own bytes
   are what was packed, whatever became of the others; an empty file has to lie before
   the cut. *)
UnpackExactly ==
  asked # Nothing =>
    LET i == SelectInSeq(files, LAMBDA f : f.path = asked.path)
        Unharmed == /\ vault.whole /\ Offsets(files)[i] <= Len(vault.payload)
                    /\ \A n \in Offsets(files)[i - 1] + 1..Offsets(files)[i] :
                         vault.payload[n][1] = i
    IN found = IF i # 0 /\ asked.key = key THEN IF Unharmed THEN files[i].content ELSE Nothing
               ELSE Nothing
=============================================================================
