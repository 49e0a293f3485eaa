------------------------------- MODULE Codec --------------------------------
(***************************************************************************)
(* The payloads of epochs-core: commits (commit.rs) and HAMT nodes          *)
(* (hamt/node.rs), written with ByteEncoder and read with ByteDecoder       *)
(* (codec/*.rs).  A byte is a number below Base and a u16 has two bytes     *)
(* whatever Base is, so that a small Base makes small widths.               *)
(***************************************************************************)
EXTENDS Integers, Sequences, FiniteSets, SequencesExt, Functions

CONSTANTS
    Base,     \* the number of values of a byte (256)
    HashLen   \* the bytes of a hash (32)

ASSUME CodecAssumption ==
    /\ Base \in Nat /\ Base > 3
    /\ HashLen \in Nat \ {0}

Byte == 0 .. Base - 1
Hash == [1..HashLen -> Byte]
ZERO == [i \in 1..HashLen |-> 0]

-----------------------------------------------------------------------------
(* ByteEncoder, and encode_with: a pooled encoder is cleared when it is taken *)
(* and its buffer is moved out, so the payload is what was written and no more *)

\* v without its n lowest bytes.
ShiftRight(v, n) ==
    LET rest[i \in 0..n] == IF i = 0 THEN v ELSE rest[i - 1] \div Base
    IN  rest[n]

\* `v as uN` and to_le_bytes, with w bytes; what does not fit is cut off.
WriteU(v, w) == [i \in 1..w |-> ShiftRight(v, i - 1) % Base]
FitsU(v, w)  == ShiftRight(v, w) = 0

\* The buffer after everything was written.
EncodeWith(parts) ==
    LET buf[n \in 0..Len(parts)] == IF n = 0 THEN <<>> ELSE buf[n - 1] \o parts[n]
    IN  buf[Len(parts)]

\* a < b as byte strings.
BytesLess(a, b) ==
    \/ IsStrictPrefix(a, b)
    \/ \E i \in DOMAIN a \cap DOMAIN b : a[i] < b[i] /\ \A j \in 1 .. i - 1 : a[j] = b[j]

\* The keys of a BTreeMap<String, _>, in the order of an iteration.
SortedKeys(S) ==
    CHOOSE s \in [1 .. Cardinality(S) -> S] :
        \A i, j \in 1 .. Cardinality(S) : i < j => BytesLess(s[i], s[j])

-----------------------------------------------------------------------------
(* ByteDecoder: a cursor that fails at the end of the buffer and then stays   *)
(* failed, as every `?` returns                                               *)

Decoder(buf) == [buf |-> buf, pos |-> 0, ok |-> TRUE, out |-> <<>>]

Failed(d) == [d EXCEPT !.ok = FALSE]

ReadSlice(d, n) ==
    IF d.ok /\ d.pos + n =< Len(d.buf)
    THEN [d EXCEPT !.out = SubSeq(d.buf, d.pos + 1, d.pos + n), !.pos = d.pos + n]
    ELSE Failed(d)

\* The number whose w bytes were read last.
FromLe(bytes) ==
    LET top[n \in 0..Len(bytes)] ==
            IF n = 0 THEN 0 ELSE bytes[Len(bytes) - n + 1] + Base * top[n - 1]
    IN  top[Len(bytes)]

ReadU(d, w) ==
    LET r == ReadSlice(d, w) IN IF r.ok THEN [r EXCEPT !.out = FromLe(r.out)] ELSE r

\* n hashes, one after the other.
ReadHashes(d, n) ==
    LET from[k \in 0..n] ==
            IF k = 0 THEN [d EXCEPT !.out = <<>>]
            ELSE LET prev == from[k - 1]
                     r    == ReadSlice(prev, HashLen)
                 IN  IF r.ok THEN [r EXCEPT !.out = Append(prev.out, r.out)] ELSE r
    IN  from[n]

\* String::from_utf8.  A character is one byte, or the two largest bytes in
\* this order.
Utf8(s) ==
    \A i \in DOMAIN s :
        /\ s[i] = Base - 2 => i < Len(s) /\ s[i + 1] = Base - 1
        /\ s[i] = Base - 1 => i > 1 /\ s[i - 1] = Base - 2

\* A length in two bytes, then that many bytes of text.
ReadText(d) ==
    LET n == ReadU(d, 2)
        r == ReadSlice(n, IF n.ok THEN n.out ELSE 0)
    IN  IF r.ok /\ Utf8(r.out) THEN r ELSE Failed(r)

-----------------------------------------------------------------------------
(* Commit *)

COMMIT_VERSION    == 2
COMMIT_VERSION_V1 == 1

\* A value of the type String, and of BTreeMap<String, Hash>.
Text == {s \in Seq(Byte) : Utf8(s)}

IsIndexRoots(x) ==
    /\ IsFiniteSet(DOMAIN x) /\ x = [n \in DOMAIN x |-> x[n]]
    /\ \A n \in DOMAIN x : n \in Text /\ x[n] \in Hash

\* The fields that both versions have.
EncodeFields(version, c) ==
    WriteU(version, 1) \o WriteU(Len(c.parents), 1) \o EncodeWith(c.parents) \o c.root_hamt
    \o WriteU(c.timestamp, 8) \o WriteU(Len(c.message), 2) \o c.message

EncodeRoot(name, hash) == WriteU(Len(name), 2) \o name \o hash

\* encode_payload: always version 2.
EncodePayload(c) ==
    LET names == SortedKeys(DOMAIN c.index_roots)
    IN  EncodeFields(COMMIT_VERSION, c) \o WriteU(Len(names), 2)
        \o EncodeWith([i \in DOMAIN names |-> EncodeRoot(names[i], c.index_roots[names[i]])])

\* The payload that an old version of the program wrote: no index roots.
EncodePayloadV1(c) == EncodeFields(COMMIT_VERSION_V1, c)

\* The loop over the index roots; a repeated name keeps its last hash.
ReadIndexRoots(d, n) ==
    LET from[k \in 0..n] ==
            IF k = 0 THEN [d EXCEPT !.out = <<>>]
            ELSE LET prev == from[k - 1]
                     name == ReadText(prev)
                     hash == ReadSlice(name, HashLen)
                 IN  IF hash.ok
                     THEN [hash EXCEPT !.out = [x \in DOMAIN prev.out \cup {name.out} |->
                               IF x = name.out THEN hash.out ELSE prev.out[x]]]
                     ELSE hash
    IN  from[n]

\* Mutant: version 1 is taken to have index roots too.
HasIndexRootsAlways(version) == TRUE

HasIndexRoots(version) == version >= COMMIT_VERSION

NotACommit == [ok |-> FALSE]

\* decode_payload; bytes after the last field are ignored.
DecodePayload(buf) ==
    LET version == ReadU(Decoder(buf), 1)
        count   == ReadU(version, 1)
        parents == ReadHashes(count, IF count.ok THEN count.out ELSE 0)
        root    == ReadSlice(parents, HashLen)
        time    == ReadU(root, 8)
        msg     == ReadText(time)
        idx     == IF version.ok /\ HasIndexRoots(version.out)
                   THEN LET n == ReadU(msg, 2) IN ReadIndexRoots(n, IF n.ok THEN n.out ELSE 0)
                   ELSE [msg EXCEPT !.out = <<>>]
    IN  IF idx.ok /\ version.out \in {COMMIT_VERSION, COMMIT_VERSION_V1}
        THEN [ok |-> TRUE,
              commit |-> [parents |-> parents.out, root_hamt |-> root.out, timestamp |-> time.out,
                          message |-> msg.out, index_roots |-> idx.out]]
        ELSE NotACommit

\* Nothing about the commit is longer than the field that counts it.
FitsCommit(c) ==
    /\ FitsU(Len(c.parents), 1)
    /\ FitsU(Len(c.message), 2)
    /\ FitsU(Cardinality(DOMAIN c.index_roots), 2)
    /\ \A n \in DOMAIN c.index_roots : FitsU(Len(n), 2)

-----------------------------------------------------------------------------
(* HamtNode *)

Node ==
    [type : {"bitmap"}, bitmap : {b \in Nat : FitsU(b, 4)}, children : Seq(Hash)]
    \cup [type : {"leaf"}, key : Seq(Byte), value : Seq(Byte)]

EncodeNode(n) ==
    IF n.type = "bitmap"
    THEN WriteU(n.bitmap, 4) \o WriteU(Len(n.children), 1) \o EncodeWith(n.children)
    ELSE WriteU(Len(n.key), 2) \o n.key \o WriteU(Len(n.value), 4) \o n.value

NotANode == [ok |-> FALSE]

DecodeNode(type, buf) ==
    LET bitmap   == ReadU(Decoder(buf), 4)
        count    == ReadU(bitmap, 1)
        children == ReadHashes(count, IF count.ok THEN count.out ELSE 0)
        klen     == ReadU(Decoder(buf), 2)
        key      == ReadSlice(klen, IF klen.ok THEN klen.out ELSE 0)
        vlen     == ReadU(key, 4)
        value    == ReadSlice(vlen, IF vlen.ok THEN vlen.out ELSE 0)
    IN  CASE type = "bitmap" /\ children.ok ->
                [ok |-> TRUE, node |-> [type |-> type, bitmap |-> bitmap.out,
                                        children |-> children.out]]
          [] type = "leaf" /\ value.ok ->
                [ok |-> TRUE, node |-> [type |-> type, key |-> key.out, value |-> value.out]]
          [] OTHER -> NotANode

FitsNode(n) ==
    IF n.type = "bitmap" THEN FitsU(Len(n.children), 1)
                         ELSE FitsU(Len(n.key), 2) /\ FitsU(Len(n.value), 4)
=============================================================================
