-------------------------- MODULE StorageInclusion --------------------------
(***************************************************************************)
(* The proof that an item is in the storage of a Gear block: the client    *)
(* that collects the nodes of the state trie (gear-rpc-client), and the    *)
(* circuits that parse them (prover/src/storage_inclusion).                *)
(*                                                                         *)
(* Nodes are byte sequences, encoded as the trie codec does, with a byte   *)
(* of ByteBits bits (8 in the code), so that a nibble has half of them, a  *)
(* digest of DigestSize bytes (32), blocks of BlockBytes bytes (128), at   *)
(* most MaxBranchBlocks of them in a branch (5), and addresses of at most  *)
(* MaxNibbles nibbles (64).  The hash is any function that tells the byte  *)
(* sequences of the instance apart.                                        *)
(*                                                                         *)
(* A proof is composed circuit by circuit.  The nodes are chosen freely    *)
(* among everything that has a known hash: circuits must not depend on the *)
(* client having chosen them.                                              *)
(***************************************************************************)
EXTENDS Integers, SequencesExt

CONSTANTS
  ByteBits, DigestSize, BlockBytes, MaxBranchBlocks, MaxNibbles,
  Storages,          \* each a set of [key, value], the content of one block
  BlockNumbers,
  ProvenAddresses    \* the addresses that StorageInclusion is built for

VARIABLE inclusion

NibbleBits == ByteBits \div 2

Nibbles == 0 .. 2 ^ NibbleBits - 1

MaxByte == 2 ^ ByteBits - 1

BitmapBytes == (2 ^ NibbleBits) \div ByteBits

\* Any hash without collisions on the instance would do.
Blake2(data) ==
  LET number == FoldLeft(LAMBDA acc, byte : (acc * 131 + byte + 11) % 4096, 5, data)
  IN [i \in 1 .. DigestSize |-> (number \div (MaxByte + 1) ^ (i - 1)) % (MaxByte + 1)]

(***************************************************************************)
(* The trie and its codec.                                                 *)
(***************************************************************************)
BranchWithoutValue == [masked |-> 2 ^ (ByteBits - 1), length |-> 2]

BranchWithValue == [masked |-> 3 * 2 ^ (ByteBits - 2), length |-> 2]

HashedValueLeaf == [masked |-> 2 ^ (ByteBits - 3), length |-> 3]

Leaf == [masked |-> 2 ^ (ByteBits - 2), length |-> 2]

MaxFirst(descriptor) == 2 ^ (ByteBits - descriptor.length) - 1

EncodedPrefix(descriptor, count) ==
  IF count < MaxFirst(descriptor) THEN <<descriptor.masked + count>>
  ELSE <<descriptor.masked + MaxFirst(descriptor), count - MaxFirst(descriptor)>>

EncodedNibbles(nibbles) ==
  LET padded == IF Len(nibbles) % 2 = 0 THEN nibbles ELSE <<0>> \o nibbles
  IN [i \in 1 .. Len(padded) \div 2 |-> padded[2 * i - 1] * 2 ^ NibbleBits + padded[2 * i]]

\* Compact integers: the two low bits are the mode.
EncodedCompact(n) ==
  LET unit == 2 ^ (ByteBits - 2)
      byte(i) == (n \div (unit * (MaxByte + 1) ^ (i - 1))) % (MaxByte + 1)
  IN IF n < unit THEN <<4 * n>>
     ELSE IF n < unit * (MaxByte + 1) THEN <<4 * (n % unit) + 1, byte(1)>>
     ELSE <<4 * (n % unit) + 2, byte(1), byte(2), byte(3)>>

EncodedLeaf(nibbles, value) ==
  IF Len(value) > DigestSize
  THEN EncodedPrefix(HashedValueLeaf, Len(nibbles)) \o EncodedNibbles(nibbles) \o Blake2(value)
  ELSE EncodedPrefix(Leaf, Len(nibbles)) \o EncodedNibbles(nibbles)
         \o EncodedCompact(Len(value)) \o value

\* children: from nibbles to a digest or, for a child shorter than a digest,
\* the child.  value: a sequence of at most one value.
EncodedBranch(nibbles, children, value) ==
  LET bit(nibble) == IF nibble \in DOMAIN children THEN 1 ELSE 0
      bitmap == [i \in 1 .. BitmapBytes |->
                   FoldLeft(LAMBDA acc, j : acc + bit((i - 1) * ByteBits + j - 1) * 2 ^ (j - 1),
                            0, [j \in 1 .. ByteBits |-> j])]
      child(k) == IF k - 1 \in DOMAIN children
                  THEN EncodedCompact(Len(children[k - 1])) \o children[k - 1] ELSE <<>>
  IN EncodedPrefix(IF value = <<>> THEN BranchWithoutValue ELSE BranchWithValue, Len(nibbles))
       \o EncodedNibbles(nibbles) \o bitmap
       \o FlattenSeq([i \in 1 .. Len(value) |-> EncodedCompact(Len(value[i])) \o value[i]])
       \o FlattenSeq([k \in 1 .. 2 ^ NibbleBits |-> child(k)])

KeysOf(items) == {item.key : item \in items}

ValueAt(items, key) == (CHOOSE item \in items : item.key = key).value

\* The key's part in a branch of the items, and the items below a child.
BranchNibbles(items) == LongestCommonPrefix(KeysOf(items))

Below(items, nibble) ==
  LET depth == Len(BranchNibbles(items)) + 1
  IN {[key |-> SubSeq(item.key, depth + 1, Len(item.key)), value |-> item.value] :
        item \in {i \in items : Len(i.key) >= depth /\ i.key[depth] = nibble}}

ChildNibbles(items) == {nibble \in Nibbles : Below(items, nibble) # {}}

BranchValue(items) ==
  IF BranchNibbles(items) \in KeysOf(items) THEN <<ValueAt(items, BranchNibbles(items))>> ELSE <<>>

IsSingle(items) == \A i, j \in items : i = j

\* A node refers to a child by its hash, or holds it when it is short.
Reference(child) == IF Len(child) < DigestSize THEN child ELSE Blake2(child)

RECURSIVE EncodedTrie(_)
EncodedTrie(items) ==
  IF IsSingle(items) THEN LET item == CHOOSE i \in items : TRUE IN EncodedLeaf(item.key, item.value)
  ELSE EncodedBranch(BranchNibbles(items),
                     [nibble \in ChildNibbles(items) |-> Reference(EncodedTrie(Below(items, nibble)))],
                     BranchValue(items))

StateRoot(items) == Blake2(EncodedTrie(items))

\* The encoded header of a block: its parent, its number, its state root and
\* the rest.
EncodedHeader(items, number) ==
  [i \in 1 .. DigestSize |-> 7] \o EncodedCompact(number) \o StateRoot(items) \o <<1, 2>>

\* Everything whose hash someone knows: nodes and values.
RECURSIVE Preimages(_)
Preimages(items) ==
  {EncodedTrie(items)} \cup {item.value : item \in items}
    \cup IF IsSingle(items) THEN {} ELSE UNION {Preimages(Below(items, n)) : n \in ChildNibbles(items)}

Known == UNION {Preimages(items) : items \in Storages}

Headers == {EncodedHeader(items, number) : items \in Storages, number \in BlockNumbers}

ASSUME InclusionAssumption ==
  /\ ByteBits % 2 = 0 /\ DigestSize < 2 ^ (ByteBits - 2)
  /\ \A x, y \in Known \cup Headers : Blake2(x) = Blake2(y) => x = y

(***************************************************************************)
(* The client.  The read proof omits what a reader can compute: the value  *)
(* of the leaf and the reference to the next node of the path.             *)
(***************************************************************************)
Omitted == <<>>

\* The nodes of the read proof, from the root down.
RECURSIVE ReadProof(_, _)
ReadBranch(items, key, nibbles, children) ==
  LET next == key[Len(nibbles) + 1]
      isOmitted(n) == Len(key) > Len(nibbles) /\ n = next /\ Len(children[n]) = DigestSize
  IN <<[kind |-> "branch", nibbles |-> nibbles, value |-> BranchValue(items),
        children |-> [n \in DOMAIN children |-> IF isOmitted(n) THEN Omitted ELSE children[n]]]>>
     \o IF \E n \in DOMAIN children : isOmitted(n)
        THEN ReadProof(Below(items, next), SubSeq(key, Len(nibbles) + 2, Len(key))) ELSE <<>>

ReadProof(items, key) ==
  IF IsSingle(items) THEN <<[kind |-> "leaf", nibbles |-> key]>>
  ELSE ReadBranch(items, key, BranchNibbles(items),
                  [n \in ChildNibbles(items) |-> Reference(EncodedTrie(Below(items, n)))])

\* fetch_storage_inclusion_proof on the nodes of a read proof: the branches
\* from the root down, each completed with the hash of the node below it.
CompletedBranches(nodes, leafHash) ==
  FoldRight(LAMBDA node, acc :
              LET next == CHOOSE n \in DOMAIN node.children : node.children[n] = Omitted
                  data == EncodedBranch(node.nibbles,
                                        [node.children EXCEPT ![next] = acc.hash], node.value)
              IN [hash |-> Blake2(data), nodes |-> <<[data |-> data, nibble |-> next]>> \o acc.nodes],
            nodes, [hash |-> leafHash, nodes |-> <<>>])

\* The root's check in fetch_block_inclusion_proof.
CheckedProof(completed, leaf, root) ==
  IF completed.hash # root \/ completed.nodes = <<>> THEN <<>>
  ELSE <<[branches |-> completed.nodes, leaf |-> leaf]>>

\* The whole of it; an empty result is a panic.
CollectedProof(proof, value, root) ==
  LET leaf == EncodedLeaf(Last(proof).nibbles, value)
  IN IF Last(proof).kind # "leaf" \/ Len(value) < DigestSize THEN <<>>
     ELSE CheckedProof(CompletedBranches(Front(proof), Blake2(leaf)), leaf, root)

FetchInclusionProof(items, key) ==
  CollectedProof(ReadProof(items, key), ValueAt(items, key), StateRoot(items))

(***************************************************************************)
(* The parsers.  A parser's result has ok = FALSE when a constraint fails. *)
(***************************************************************************)

\* VariativeBlake2 asserts that the padding of the hashed blocks is zero and
\* says nothing of the bytes after them: the prover chooses those (tail).
ReadByte(data, tail, at) ==
  IF at < Len(data) THEN data[at + 1]
  ELSE IF at < BlockBytes * ((Len(data) + BlockBytes - 1) \div BlockBytes) THEN 0
  ELSE tail

ReadBytes(data, tail, at, length) == [i \in 1 .. length |-> ReadByte(data, tail, at + i - 1)]

\* Mutant of ParseHeader: the second byte of a long header is the whole count.
ParseHeaderSecondOnly(data, tail, descriptor) ==
  LET first == ReadByte(data, tail, 0) - descriptor.masked
      second == ReadByte(data, tail, 1)
      oneByte == first # MaxFirst(descriptor)
  IN [ok |-> first \in 0 .. MaxFirst(descriptor) /\ (oneByte \/ second # MaxByte),
      count |-> IF oneByte THEN first ELSE second,
      offset |-> IF oneByte THEN 1 ELSE 2]

\* header_parser
ParseHeader(data, tail, descriptor) ==
  LET first == ReadByte(data, tail, 0) - descriptor.masked
      second == ReadByte(data, tail, 1)
      oneByte == first # MaxFirst(descriptor)
  IN [ok |-> /\ first \in 0 .. MaxFirst(descriptor)
             /\ oneByte \/ second # MaxByte,
      count |-> IF oneByte THEN first ELSE second + MaxFirst(descriptor),
      offset |-> IF oneByte THEN 1 ELSE 2]

\* PartialStorageAddressTarget::append: the sum of the lengths is bounded.
AppendNibbles(address, nibbles) ==
  [ok |-> Len(address) + Len(nibbles) <= MaxNibbles, address |-> address \o nibbles]

\* nibble_parser: an odd number of nibbles is padded with a zero in front.
ParseNibbles(data, tail, offset, count, address) ==
  LET bytes == ReadBytes(data, tail, offset, (MaxNibbles + 1) \div 2)
      nibbles == FlattenSeq([i \in 1 .. Len(bytes) |->
                               <<bytes[i] \div 2 ^ NibbleBits, bytes[i] % 2 ^ NibbleBits>>]) \o <<0>>
      skipped == count % 2
      taken == IF count <= MaxNibbles THEN count ELSE 0
      appended == AppendNibbles(address, SubSeq(nibbles, 1 + skipped, skipped + taken))
  IN [ok |-> /\ count <= MaxNibbles
             /\ skipped = 1 => nibbles[1] = 0
             /\ appended.ok,
      address |-> appended.address,
      offset |-> offset + (count + 1) \div 2]

\* Mutant of ParseBitmap: the children are counted from the other end.
ParseBitmapReversed(data, tail, offset, nibble) ==
  LET bytes == ReadBytes(data, tail, offset, BitmapBytes)
      present == {n \in Nibbles : (bytes[n \div ByteBits + 1] \div 2 ^ (n % ByteBits)) % 2 = 1}
  IN [ok |-> nibble \in present,
      amount |-> Cardinality(present),
      index |-> Cardinality({n \in present : n > nibble}),
      offset |-> offset + BitmapBytes]

\* bitmap_parser
ParseBitmap(data, tail, offset, nibble) ==
  LET bytes == ReadBytes(data, tail, offset, BitmapBytes)
      present == {n \in Nibbles : (bytes[n \div ByteBits + 1] \div 2 ^ (n % ByteBits)) % 2 = 1}
  IN [ok |-> nibble \in present,
      amount |-> Cardinality(present),
      index |-> Cardinality({n \in present : n < nibble}),
      offset |-> offset + BitmapBytes]

\* scale_compact_integer_parser::single_byte
ParseSingleByte(byte) == [ok |-> byte % 4 = 0, decoded |-> byte \div 4]

\* scale_compact_integer_parser::full: the length.  The mode is compared with
\* 4, which two bits never are, so the last mode is taken for four bytes.
FullLength(byte) == CASE byte % 4 = 0 -> 1 [] byte % 4 = 1 -> 2 [] OTHER -> 4

\* child_node_parser
ParseChild(data, tail, offset, assertHash, hash) ==
  LET length == ParseSingleByte(ReadByte(data, tail, offset))
  IN [ok |-> /\ length.ok
             /\ assertHash => /\ hash = ReadBytes(data, tail, offset + 1, DigestSize)
                              /\ length.decoded = DigestSize,
      offset |-> offset + 1 + length.decoded]

\* child_node_array_parser: the child at index has the hash.
ParseChildren(data, tail, offset, amount, index, hash) ==
  FoldLeft(LAMBDA acc, k :
             LET child == ParseChild(data, tail, acc.offset, k - 1 = index, hash)
             IN [ok |-> acc.ok /\ child.ok, offset |-> child.offset],
           [ok |-> amount > 0, offset |-> offset], [k \in 1 .. amount |-> k])

\* branch_parser.  The hash of the child is chosen by the prover; hash is the
\* one to try.
BranchParser(data, tail, nibble, address, hash) ==
  LET header == ParseHeader(data, tail, BranchWithoutValue)
      nibbles == ParseNibbles(data, tail, header.offset, header.count, address)
      bitmap == ParseBitmap(data, tail, nibbles.offset, nibble)
      children == ParseChildren(data, tail, bitmap.offset, bitmap.amount, bitmap.index, hash)
      appended == AppendNibbles(nibbles.address, <<nibble>>)
  IN [ok |-> /\ Len(data) <= BlockBytes * MaxBranchBlocks
             /\ header.ok /\ nibbles.ok /\ bitmap.ok /\ children.ok
             /\ appended.ok
             /\ children.offset = Len(data),
      address |-> appended.address]

\* hashed_branch_parser: the parsed data is what was hashed.
HashedBranchParser(data, tail, nibble, address, hash) ==
  BranchParser(data, tail, nibble, address, hash) @@ [nodeHash |-> Blake2(data), childHash |-> hash]

\* hashed_data_parser: the leaf holds the hash of the value.
HashedData(data, tail, at) ==
  [ok |-> at + DigestSize = Len(data), item |-> ReadBytes(data, tail, at, DigestSize)]

\* inlined_data_parser: the leaf holds the value, of the length of a digest.
InlinedData(data, tail, at) ==
  LET length == ParseSingleByte(ReadByte(data, tail, at))
  IN [ok |-> length.ok /\ length.decoded = DigestSize /\ at + 1 + DigestSize = Len(data),
      item |-> Blake2(ReadBytes(data, tail, at + 1, DigestSize))]

\* leaf_parser
LeafParser(data, tail, address) ==
  LET hashed == data # <<>> /\ data[1] \div 2 ^ (ByteBits - 3) = 1
      header == ParseHeader(data, tail, IF hashed THEN HashedValueLeaf ELSE Leaf)
      nibbles == ParseNibbles(data, tail, header.offset, header.count, address)
      content == IF hashed THEN HashedData(data, tail, nibbles.offset)
                 ELSE InlinedData(data, tail, nibbles.offset)
  IN [ok |-> Len(data) <= BlockBytes /\ header.ok /\ nibbles.ok /\ content.ok,
      address |-> nibbles.address,
      item |-> content.item]

\* hashed_leaf_parser
HashedLeafParser(data, tail, address) ==
  LeafParser(data, tail, address) @@ [nodeHash |-> Blake2(data)]

\* block_header_parser
HeaderStateRoot(header) ==
  ReadBytes(header, 0, DigestSize + FullLength(header[DigestSize + 1]), DigestSize)

-----------------------------------------------------------------------------
(***************************************************************************)
(* Composing a proof.  stage: what was proven last; root: the hash of the  *)
(* first node; hash: the hash the next node must have.                     *)
(***************************************************************************)
InclusionInit == inclusion = [stage |-> "none"]

Digests == {Blake2(data) : data \in Known}

Tails == {0, 4 * DigestSize}

\* prove_initial and prove_recursive of branch_node_chain: the first node's
\* hash is the root, and a node continues the chain before it.
ProveBranch ==
  /\ inclusion.stage \in {"none", "branch"}
  /\ \E data \in {d \in Known : inclusion.stage = "branch" => Blake2(d) = inclusion.hash},
        tail \in Tails, nibble \in Nibbles, hash \in Digests :
       LET first == inclusion.stage = "none"
           address == IF first THEN <<>> ELSE inclusion.address
           node == HashedBranchParser(data, tail, nibble, address, hash)
       IN /\ node.ok
          /\ inclusion' = [stage |-> "branch", hash |-> node.childHash, address |-> node.address,
                           root |-> IF first THEN node.nodeHash ELSE inclusion.root]

\* StorageTrieProof::prove
ProveLeaf ==
  /\ inclusion.stage = "branch"
  /\ \E data \in {d \in Known : Blake2(d) = inclusion.hash}, tail \in Tails :
       LET leaf == HashedLeafParser(data, tail, inclusion.address)
       IN /\ leaf.ok /\ leaf.nodeHash = inclusion.hash
          /\ inclusion' = [stage |-> "trie", root |-> inclusion.root, address |-> leaf.address,
                           item |-> leaf.item]

\* StorageInclusion::prove
ProveInclusion ==
  /\ inclusion.stage = "trie"
  /\ \E header \in Headers, address \in ProvenAddresses :
       /\ HeaderStateRoot(header) = inclusion.root
       /\ address = inclusion.address
       /\ inclusion' = [stage |-> "proven", block |-> Blake2(header), address |-> address,
                        item |-> inclusion.item]

\* The client's proof through the same circuits.
AcceptedItem(proof, header, address) ==
  LET hashAfter(i) == IF i < Len(proof.branches) THEN Blake2(proof.branches[i + 1].data)
                      ELSE Blake2(proof.leaf)
      step(acc, i) ==
        LET node == BranchParser(proof.branches[i].data, 0, proof.branches[i].nibble, acc.address, hashAfter(i))
        IN [ok |-> acc.ok /\ node.ok, address |-> node.address]
      chain == FoldLeft(step, [ok |-> TRUE, address |-> <<>>], [i \in 1 .. Len(proof.branches) |-> i])
      leaf == LeafParser(proof.leaf, 0, chain.address)
  IN IF /\ chain.ok /\ leaf.ok /\ leaf.address = address
        /\ HeaderStateRoot(header) = Blake2(proof.branches[1].data)
     THEN <<leaf.item>> ELSE <<>>

\* The client collects the proof of an item, and the prover takes it.
ClientFetches ==
  /\ inclusion.stage = "none"
  /\ \E items \in Storages : \E address \in KeysOf(items) \cap ProvenAddresses :
       inclusion' = [stage |-> "fetched", items |-> items, address |-> address,
                     proof |-> FetchInclusionProof(items, address)]

ClientProves ==
  /\ inclusion.stage = "fetched"
  /\ \E number \in BlockNumbers :
       LET header == EncodedHeader(inclusion.items, number)
       IN inclusion' = [stage |-> "client", items |-> inclusion.items, address |-> inclusion.address,
                        item |-> IF inclusion.proof = <<>> THEN <<>>
                                 ELSE AcceptedItem(inclusion.proof[1], header, inclusion.address)]

InclusionNext == ProveBranch \/ ProveLeaf \/ ProveInclusion \/ ClientFetches \/ ClientProves

\* A proof that the circuits accept for a block and an address is about that
\* block: its storage has an item at the address, and the item's hash is the
\* proven one, whatever nodes, nibbles and padding the proof was made of.
InclusionSound ==
  inclusion.stage = "proven" =>
    \E items \in Storages, number \in BlockNumbers :
      /\ inclusion.block = Blake2(EncodedHeader(items, number))
      /\ inclusion.address \in KeysOf(items)
      /\ inclusion.item = Blake2(ValueAt(items, inclusion.address))

\* The client's proof of an item is accepted, for every shape of the trie and
\* every length of the block number, unless the item is shorter than a digest
\* or alone in the storage, or a node of its path has a value of its own.
ClientProofAccepted ==
  inclusion.stage = "client" =>
    \/ inclusion.item = <<Blake2(ValueAt(inclusion.items, inclusion.address))>>
    \/ Len(ValueAt(inclusion.items, inclusion.address)) < DigestSize
    \/ IsSingle(inclusion.items)
    \/ \E key \in KeysOf(inclusion.items) : IsStrictPrefix(key, inclusion.address)
=============================================================================
