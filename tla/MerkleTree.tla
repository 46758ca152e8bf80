----------------------------- MODULE MerkleTree -----------------------------
(***************************************************************************)
(* The Merkle tree of a batch: ComputeTree hashes the assertions level by  *)
(* level into one buffer, AuthenticationPath collects the siblings of a    *)
(* leaf from the buffer (mtc.Tree) or from the tree file (ca.Tree), and    *)
(* VerifyAuthenticationPath recomputes the root from them.                 *)
(*                                                                         *)
(* A hash is the term it is computed from, that is, SHA-256 has no         *)
(* collisions; the issuer and the batch number are the same in all hashes  *)
(* of a batch and left out.  Buffers count nodes instead of bytes, and a   *)
(* path may end in a Stub, fewer bytes than a hash has.                    *)
(***************************************************************************)
EXTENDS Integers, Sequences

CONSTANTS
  Assertions,  \* abridged assertions
  Streams,     \* contents that the abridged-assertions file may have
  MaxIndex,    \* largest index a proof may claim
  U8,          \* modulus of a level's uint8 (256 in the code)
  Presented(_, _)  \* paths that may come with a claim, given the path made
                   \* last and the nodes of the tree

Pow2[l \in Nat] == IF l = 0 THEN 1 ELSE 2 * Pow2[l - 1]

(* A batch has less than 2^64 assertions, and so less than 256 levels.  Of *)
(* the paths that are presented nothing is assumed.                        *)
ASSUME MerkleAssumption ==
  /\ Streams \subseteq Seq(Assertions)
  /\ MaxIndex \in Nat
  /\ U8 \in Nat \ {0}
  /\ \A s \in Streams : Len(s) <= Pow2[U8 - 1]

VARIABLES
  stream,   \* the assertions of the batch
  phase,    \* what happens next
  buf,      \* ComputeTree: nodes computed so far, bottom to top
  level,    \* ComputeTree: level it is at
  offset,   \* position in buf at which the current level starts
  nNodes,   \* number of nodes in the current level
  levels,   \* history: start and number of nodes of every level
  header,   \* AuthenticationPath: length of the header before the nodes
  index,    \* AuthenticationPath and verification: current index
  leaf,     \* AuthenticationPath: the index it was called with, or -1
  path,     \* AuthenticationPath: the siblings collected so far
  claim,    \* verification: the proof [index, aa, path] that is checked
  rest,     \* verification: what is left of its path
  h         \* verification: hash computed so far

tree   == <<stream, buf, level, levels>>
cursor == <<offset, nNodes, index>>
proof  == <<header, leaf, path>>
check  == <<claim, rest, h>>
vars == <<tree, phase, cursor, proof, check>>

-----------------------------------------------------------------------------
(* The hashes: leaf, hashNode and hashEmpty start with a different byte.   *)

Hash(aa, i) == <<"leaf", i, aa>>

hashNode(left, right, i, l) == <<"node", i, l, left, right>>

hashEmpty(i, l) == <<"empty", i, l>>

(* What is left of a hash that was cut off, at the end of a path.          *)
Stub == <<"stub">>

nLeaves == Len(stream)

(* The nodes of a level, with the empty one that pads it.                  *)
Even(n) == IF n % 2 = 1 THEN n + 1 ELSE n

(* The other node with the same parent: index ^= 1.                        *)
sibling(i) == IF i % 2 = 1 THEN i - 1 ELSE i + 1

NextLevel(l) == (l + 1) % U8

(* The loop of TreeNodeCount, from a level with n nodes up.                *)
CountFrom[n \in Nat] == IF n <= 1 THEN 1 ELSE Even(n) + CountFrom[Even(n) \div 2]

\* The node count of a full tree.
TreeNodeCount_Full(n) == IF n = 0 THEN 1 ELSE 2 * n - 1

TreeNodeCount(n) == CountFrom[n]

-----------------------------------------------------------------------------
NoClaim == [index |-> 0, aa |-> <<>>, path |-> <<>>]

Init ==
  /\ stream \in Streams
  /\ phase = "hash"
  /\ buf = <<>> /\ level = 0 /\ levels = <<>>
  /\ offset = 0 /\ nNodes = 0 /\ index = 0
  /\ header = 0 /\ leaf = -1 /\ path = <<>>
  /\ claim = NoClaim /\ rest = <<>> /\ h = <<>>

(* A batch without assertions: the tree is one empty node.                 *)
EmptyTree ==
  /\ phase = "hash"
  /\ nLeaves = 0
  /\ buf' = <<hashEmpty(0, 0)>>
  /\ phase' = "built"
  /\ UNCHANGED <<stream, level, levels, cursor, proof, check>>

hashLeaves ==
  /\ phase = "hash"
  /\ nLeaves # 0
  /\ buf' = [k \in 1..nLeaves |-> Hash(stream[k], k - 1)]
  /\ nNodes' = nLeaves
  /\ levels' = <<[offset |-> 0, nNodes |-> nLeaves]>>
  /\ phase' = "level"
  /\ UNCHANGED <<stream, level, offset, index, proof, check>>

\* A level of odd length is padded with its last node.
Padded_Last == IF Even(nNodes) = nNodes THEN buf ELSE Append(buf, buf[Len(buf)])

(* The current level with its empty node.                                  *)
Padded ==
  IF Even(nNodes) = nNodes THEN buf ELSE Append(buf, hashEmpty(nNodes, level))

(* The loop over the pairs of a level.                                     *)
Parents(nodes) ==
  [k \in 1..Even(nNodes) \div 2 |->
     hashNode(nodes[offset + 2 * k - 1], nodes[offset + 2 * k], k - 1, NextLevel(level))]

(* One turn of the loop of ComputeTree.                                    *)
HashLevel ==
  /\ phase = "level"
  /\ nNodes # 1
  /\ buf' = Padded \o Parents(Padded)
  /\ offset' = offset + Even(nNodes)
  /\ nNodes' = Even(nNodes) \div 2
  /\ level' = NextLevel(level)
  /\ levels' = Append(levels, [offset |-> offset', nNodes |-> nNodes'])
  /\ UNCHANGED <<stream, phase, index, proof, check>>

HashDone ==
  /\ phase = "level"
  /\ nNodes = 1
  /\ phase' = "built"
  /\ UNCHANGED <<tree, cursor, proof, check>>

Root == buf[Len(buf)]

-----------------------------------------------------------------------------
(* AuthenticationPath, of mtc.Tree (no header) or of ca.Tree, which reads  *)
(* the file that WriteTo wrote: the number of leaves, then the nodes.      *)

WriteTo == <<nLeaves>> \o buf

NodeAt(start) == IF header = 0 THEN buf[start + 1] ELSE WriteTo[start + 1]

\* The header is not skipped.
Skip_None(len) == 0

Skip(len) == len

IsBuilt == phase \in {"built", "proved", "valid", "rejected"}

(* A file that does not have the size its header says cannot be opened.    *)
OpenTree(len) == len = 1 => Len(WriteTo) = len + TreeNodeCount(WriteTo[1])

PathRefused(i, len) ==
  /\ IsBuilt
  /\ ~(OpenTree(len) /\ i < nLeaves)
  /\ phase' = "built"
  /\ leaf' = -1 /\ path' = <<>>
  /\ claim' = NoClaim /\ rest' = <<>> /\ h' = <<>>
  /\ UNCHANGED <<tree, cursor, header>>

PathStart(i, len) ==
  /\ IsBuilt
  /\ OpenTree(len)
  /\ i < nLeaves
  /\ header' = len /\ leaf' = i /\ path' = <<>>
  /\ offset' = Skip(len)
  /\ nNodes' = nLeaves
  /\ index' = i
  /\ claim' = NoClaim /\ rest' = <<>> /\ h' = <<>>
  /\ phase' = "path"
  /\ UNCHANGED tree

PathStep ==
  /\ phase = "path"
  /\ nNodes # 1
  /\ path' = Append(path, NodeAt(offset + sibling(index)))
  /\ offset' = offset + Even(nNodes)
  /\ index' = sibling(index) \div 2
  /\ nNodes' = Even(nNodes) \div 2
  /\ UNCHANGED <<tree, phase, header, leaf, check>>

PathDone ==
  /\ phase = "path"
  /\ nNodes = 1
  /\ phase' = "proved"
  /\ UNCHANGED <<tree, cursor, proof, check>>

-----------------------------------------------------------------------------
(* VerifyAuthenticationPath, with ComputeRootFromAuthenticationPath.       *)

VerifyStart(i, aa, p) ==
  /\ claim' = [index |-> i, aa |-> aa, path |-> p]
  /\ rest' = p
  /\ index' = i
  /\ level' = 0
  /\ h' = Hash(aa, i)
  /\ phase' = "verify"
  /\ UNCHANGED <<stream, buf, levels, offset, nNodes, proof>>

\* Left and right are never swapped.
IsRight_Never(i) == FALSE

IsRight(i) == i % 2 = 1

VerifyStep ==
  /\ phase = "verify"
  /\ rest # <<>>
  /\ Head(rest) # Stub
  /\ LET left  == IF IsRight(index) THEN Head(rest) ELSE h
         right == IF IsRight(index) THEN h ELSE Head(rest)
     IN h' = hashNode(left, right, index \div 2, NextLevel(level))
  /\ rest' = Tail(rest)
  /\ level' = NextLevel(level)
  /\ index' = index \div 2
  /\ UNCHANGED <<stream, buf, levels, phase, offset, nNodes, proof, claim>>

(* ErrTruncated.                                                           *)
VerifyTruncated ==
  /\ phase = "verify"
  /\ rest # <<>>
  /\ Head(rest) = Stub
  /\ phase' = "rejected"
  /\ UNCHANGED <<tree, cursor, proof, check>>

\* The verdict of the comparison is dropped.
IsRoot_Unchecked == index = 0

(* The path was long enough for the index, and leads to the root.          *)
IsRoot == index = 0 /\ h = Root

VerifyDone ==
  /\ phase = "verify"
  /\ rest = <<>>
  /\ phase' = IF IsRoot THEN "valid" ELSE "rejected"
  /\ UNCHANGED <<tree, cursor, proof, check>>

ComputeTree == EmptyTree \/ hashLeaves \/ HashLevel \/ HashDone

AuthenticationPath ==
  \/ \E i \in 0..MaxIndex, len \in {0, 1} : PathRefused(i, len) \/ PathStart(i, len)
  \/ PathStep
  \/ PathDone

VerifyAuthenticationPath ==
  \/ /\ phase \in {"built", "proved"}
     /\ \E i \in 0..MaxIndex, aa \in Assertions, p \in Presented(path, buf) :
          VerifyStart(i, aa, p)
  \/ VerifyStep
  \/ VerifyTruncated
  \/ VerifyDone

Next == ComputeTree \/ AuthenticationPath \/ VerifyAuthenticationPath

Spec == Init /\ [][Next]_vars

-----------------------------------------------------------------------------
(* Properties.                                                             *)

TreeBuilt == phase \notin {"hash", "level"}

(* TreeNodeCount, which OpenTree and UnmarshalBinary check a file against, *)
(* is the number of nodes that ComputeTree wrote.                          *)
NodeCountRight == TreeBuilt => Len(buf) = TreeNodeCount(nLeaves)

(* AuthenticationPath reads the nodes of the level it is at, never past it *)
(* into the next one or past the end.                                      *)
ReadsLevel ==
  phase = "path" =>
    LET here == levels[Len(path) + 1]
    IN /\ offset = header + here.offset
       /\ nNodes = here.nNodes
       /\ index < nNodes
       /\ nNodes # 1 => sibling(index) < Even(nNodes)

(* The claim is that of the path just made, for the leaf it was made for.  *)
HonestProof ==
  /\ claim.index = leaf /\ claim.path = path
  /\ leaf \in 0..nLeaves - 1 /\ claim.aa = stream[leaf + 1]

(* The path that AuthenticationPath returns for a leaf of the tree, by     *)
(* either of its implementations, is accepted as a proof of that leaf.     *)
Complete == phase = "rejected" => ~HonestProof

(* VerifyAuthenticationPath accepts no assertion at an index at which the  *)
(* batch does not have it, whatever path comes with it, also one so long   *)
(* that the level starts again from 0.                                     *)
Sound ==
  phase = "valid" =>
    claim.index < nLeaves /\ claim.aa = stream[claim.index + 1]

-----------------------------------------------------------------------------
(* The tree, top down: level l has the leaves in groups of 2^l, a group    *)
(* without leaves is an empty node.                                        *)

Width(l) == (nLeaves + Pow2[l] - 1) \div Pow2[l]

Subtree[l \in Nat] ==
  [i \in Nat |->
     IF i * Pow2[l] >= nLeaves THEN hashEmpty(i, l)
     ELSE IF l = 0 THEN Hash(stream[i + 1], i)
     ELSE hashNode(Subtree[l - 1][2 * i], Subtree[l - 1][2 * i + 1], i, l)]

Height ==
  CHOOSE l \in 0..nLeaves : Width(l) <= 1 /\ \A m \in 0..l - 1 : Width(m) > 1

(* How many nodes of a level are written, and how many before them.        *)
LevelWidth(l) == IF l < Height THEN Width(l) + (Width(l) % 2) ELSE 1

Before[l \in Nat] == IF l = 0 THEN 0 ELSE LevelWidth(l - 1) + Before[l - 1]

(* ComputeTree returns the tree that the assertions define, left to right  *)
(* and bottom to top, as the comment on Tree.buf draws it.                 *)
TreeAsDefined ==
  TreeBuilt =>
    /\ Len(buf) = Before[Height] + LevelWidth(Height)
    /\ \A l \in 0..Height : \A i \in 0..LevelWidth(l) - 1 :
         buf[Before[l] + i + 1] = Subtree[l][i]

-----------------------------------------------------------------------------
(* The inductive invariant behind these properties.                        *)

IsSequence(s) == s \in Seq({s[k] : k \in DOMAIN s})

(* The levels, counted from 0, their nodes in buf and, padding included,   *)
(* how many of them there are.                                             *)
top == Len(levels) - 1
start(l) == levels[l + 1].offset
count(l) == levels[l + 1].nNodes
Node(l, i) == buf[start(l) + i + 1]
Wide(l) == IF l < top THEN Even(count(l)) ELSE count(l)

HasTree == phase # "hash" /\ nLeaves # 0

(* Each level begins after the one below, and has half of its nodes.       *)
LevelsRight ==
  HasTree =>
    /\ levels \in Seq([offset : Nat, nNodes : Nat \ {0}]) /\ levels # <<>>
    /\ start(0) = 0 /\ count(0) = nLeaves
    /\ \A l \in 0..top - 1 :
         /\ count(l) # 1
         /\ start(l + 1) = start(l) + Even(count(l))
         /\ count(l + 1) = Even(count(l)) \div 2
         /\ start(l + 1) <= start(top)

(* The uint8 of a level is wide enough for the tree: as long as a level    *)
(* has two nodes, there are more than 2^level leaves.                      *)
LevelsFit ==
  HasTree =>
    /\ top < U8
    /\ nLeaves <= count(top) * Pow2[top]
    /\ (count(top) - 1) * Pow2[top] < nLeaves

(* Each node is the hash of the two below it; a level of odd length ends   *)
(* in an empty node.                                                       *)
NodesRight ==
  HasTree =>
    /\ \A i \in 0..nLeaves - 1 : Node(0, i) = Hash(stream[i + 1], i)
    /\ \A l \in 0..top - 1 :
         /\ count(l) % 2 = 1 => Node(l, count(l)) = hashEmpty(count(l), l)
         /\ \A i \in 0..count(l + 1) - 1 :
              Node(l + 1, i) = hashNode(Node(l, 2 * i), Node(l, 2 * i + 1), i, l + 1)

(* ComputeTree starts at the lowest level.                                 *)
StartPosition == phase = "hash" => level = 0 /\ offset = 0

(* Where ComputeTree is, and what it leaves when it is done.               *)
BuildPosition ==
  /\ phase = "level" =>
       /\ nLeaves # 0
       /\ level = top /\ offset = start(top) /\ nNodes = count(top)
       /\ Len(buf) = offset + nNodes
       /\ offset + CountFrom[nNodes] = CountFrom[nLeaves]
  /\ TreeBuilt /\ nLeaves # 0 => count(top) = 1 /\ Len(buf) = start(top) + 1
  /\ TreeBuilt /\ nLeaves = 0 => buf = <<hashEmpty(0, 0)>>

(* The indices of the nodes on the way from the leaf to where the path is, *)
(* and the path consists of their siblings.                                *)
IsTrail(trail) ==
  /\ trail[0] = leaf
  /\ \A l \in 0..Len(path) : trail[l] < count(l)
  /\ \A l \in 0..Len(path) - 1 :
       /\ trail[l + 1] = trail[l] \div 2
       /\ path[l + 1] = Node(l, sibling(trail[l]))

(* The nodes on the way up, when an honest proof is verified.              *)
FollowsTrail(trail) ==
  /\ level <= Len(path)
  /\ index = trail[level]
  /\ h = Node(level, index)
  /\ IsSequence(rest) /\ Len(rest) = Len(path) - level
  /\ \A k \in 1..Len(rest) : rest[k] = path[level + k]

(* A path is about a leaf of the tree, and reaches the top when it is      *)
(* finished.                                                               *)
PathRight ==
  /\ IsSequence(path)
  /\ phase \in {"hash", "level", "built"} => leaf = -1
  /\ phase \in {"path", "proved"} => leaf # -1
  /\ leaf # -1 =>
       /\ leaf \in 0..nLeaves - 1
       /\ Len(path) <= top
       /\ phase # "path" => Len(path) = top
       /\ \E trail \in [0..Len(path) -> 0..leaf] :
            /\ IsTrail(trail)
            /\ phase = "path" => index = trail[Len(path)]
            /\ phase = "verify" /\ HonestProof => FollowsTrail(trail)

(* The hash computed so far is that of the claim, or that of a node and    *)
(* says for which index and level it is.                                   *)
HashTagged ==
  phase = "verify" =>
    \/ /\ level = 0 /\ index = claim.index
       /\ h = Hash(claim.aa, claim.index)
    \/ h = hashNode(h[4], h[5], index, level)

ClaimRight == claim.index < nLeaves /\ claim.aa = stream[claim.index + 1]

(* A hash that is found in the tree where it should be belongs to a claim  *)
(* that is right.                                                          *)
OnTreeIsRight ==
  phase = "verify" /\ nLeaves # 0 /\ level <= top =>
    (index < Wide(level) /\ h = Node(level, index) => ClaimRight)

(* Every variable has its type.                                            *)
TypeOK ==
  /\ stream \in Streams /\ stream \in Seq(Assertions) /\ IsSequence(buf)
  /\ phase \in {"hash", "level", "built", "path", "proved", "verify", "valid",
                "rejected"}
  /\ header \in {0, 1} /\ offset \in Nat /\ nNodes \in Nat /\ index \in Nat
  /\ level \in Nat /\ level < U8
  /\ claim.index \in Nat

IndInv ==
  /\ TypeOK /\ StartPosition /\ LevelsRight /\ LevelsFit /\ NodesRight
  /\ BuildPosition
  /\ NodeCountRight
  /\ PathRight /\ ReadsLevel /\ HashTagged /\ OnTreeIsRight
  /\ Complete /\ Sound
=============================================================================
