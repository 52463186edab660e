------------------------------ MODULE Challenge ------------------------------
(***************************************************************************)
(* Proofs of storage (pkg/merkleproof, handler/challenge.go).  The chain   *)
(* asks for a chunk of a file it has the Merkle root of; the handler looks *)
(* up which content the challenge is about, gets that from IPFS, proves    *)
(* the chunk, compares the root and submits.  The content can be replaced  *)
(* at any time in between.                                                 *)
(*                                                                         *)
(* A file is a sequence of bytes.  Hashes are the terms they are made of,  *)
(* so that equal hashes mean equal data.  The tree is the library's        *)
(* (external): a heap whose leaves are padded to a power of two, and whose *)
(* proofs are looked up by the leaf's data.                                *)
(***************************************************************************)
EXTENDS Integers, Sequences

CONSTANTS Files,      \* contents, none empty: an empty one has no root and is not proposed
          ChunkSize   \* DefaultChunkSize

ASSUME ChallengeAssumption ==
    /\ ChunkSize \in Nat \ {0}
    /\ Files # {} /\ \A f \in Files : Len(f) \in Nat \ {0}

VARIABLES
    content,    \* chain and IPFS: the file of the challenged content
    challenge,  \* chain: the chunk asked for, its file's root and the file (history)
    got,        \* handler: the file it got from IPFS
    step,       \* handler: "waiting", "asked", "got", "proved", and how it ended:
                \* "submitted", "late", "failed" or "panicked"
    answer      \* handler: the proof, its root and the chunk's hash

challengeVars == <<content, challenge, got, step, answer>>

Smaller(a, b) == IF a < b THEN a ELSE b

(* computeChunkHashes: chunks of ChunkSize, the last one what is left.      *)
computeChunkHashes(f) ==
    [i \in 1..((Len(f) + ChunkSize - 1) \div ChunkSize) |->
        <<"chunk", SubSeq(f, (i - 1) * ChunkSize + 1, Smaller(i * ChunkSize, Len(f)))>>]

(* merkletree.NewTree.                                                      *)
Power[n \in Nat] == IF n = 0 THEN 1 ELSE 2 * Power[n - 1]
Depth(n) == CHOOSE d \in 0..n : Power[d] >= n /\ \A e \in 0..n : Power[e] >= n => d <= e
Nodes(hs) ==
    LET b == Power[Depth(Len(hs))]
        node[i \in 1..2 * b - 1] ==
            IF i < b THEN <<"node", node[2 * i], node[2 * i + 1]>>
            ELSE IF i - b < Len(hs) THEN <<"leaf", hs[i - b + 1]>> ELSE <<"zeros">>
    IN node

ComputeMerkleRoot(f) == Nodes(computeChunkHashes(f))[1]

(* tree.GenerateProof: the index of the first leaf with that data, counted  *)
(* from zero, and the siblings on the way up.                               *)
Sibling(i) == IF i % 2 = 0 THEN i + 1 ELSE i - 1

GenerateProof(f, chunkIndex) ==
    LET hs == computeChunkHashes(f)
        node == Nodes(hs)
        d == Depth(Len(hs))
        index == (CHOOSE i \in 1..Len(hs) : hs[i] = hs[chunkIndex + 1] /\ \A j \in 1..(i - 1) : hs[j] # hs[i]) - 1
    IN [hashes |-> [k \in 1..d |-> node[Sibling((index + Power[d]) \div Power[k - 1])]],
        index |-> index, root |-> node[1], chunkHash |-> hs[chunkIndex + 1]]

(* merkletree.VerifyProofUsing, as the chain does: up from the leaf, left   *)
(* or right by the bits of the index.                                       *)
VerifyProof(chunkHash, hashes, index, root) ==
    LET up[k \in 0..Len(hashes)] ==
            IF k = 0 THEN <<"leaf", chunkHash>>
            ELSE IF (index \div Power[k - 1]) % 2 = 0 THEN <<"node", up[k - 1], hashes[k]>>
            ELSE <<"node", hashes[k], up[k - 1]>>
    IN up[Len(hashes)] = root

NoAnswer == [hashes |-> <<>>, index |-> 0, root |-> <<>>, chunkHash |-> <<>>]

ChallengeInit ==
    /\ content \in Files
    /\ challenge = [file |-> <<>>, index |-> 0, root |-> <<>>]
    /\ got = <<>>
    /\ step = "waiting"
    /\ answer = NoAnswer

----------------------------------------------------------------------------
(* The chain picks a chunk of the content it has at the time.               *)
Ask(i) ==
    /\ step = "waiting"
    /\ i < Len(computeChunkHashes(content))
    /\ challenge' = [file |-> content, index |-> i, root |-> ComputeMerkleRoot(content)]
    /\ step' = "asked"
    /\ UNCHANGED <<content, got, answer>>

Replace(f) ==
    /\ step = "asked" /\ f # content
    /\ content' = f
    /\ UNCHANGED <<challenge, got, step, answer>>

(* The handler: the challenge, the content's CID and its file; any of the   *)
(* queries can fail.                                                        *)
Get ==
    /\ step = "asked"
    /\ \/ got' = content /\ step' = "got"
       \/ UNCHANGED got /\ step' = "failed"
    /\ UNCHANGED <<content, challenge, answer>>

(* The file is read only now, and reading it can fail; the chunk is looked  *)
(* up before the root is compared, and an index beyond the file is a panic. *)
Prove ==
    /\ step = "got"
    /\ \/ /\ challenge.index < Len(computeChunkHashes(got))
          /\ answer' = GenerateProof(got, challenge.index) /\ step' = "proved"
       \/ /\ challenge.index >= Len(computeChunkHashes(got))
          /\ step' = "panicked" /\ UNCHANGED answer
       \/ step' = "failed" /\ UNCHANGED answer
    /\ UNCHANGED <<content, challenge, got>>

BugRootNotCompared ==
    /\ step = "proved"
    /\ step' = "submitted"
    /\ UNCHANGED <<content, challenge, got, answer>>

(* Nothing is submitted for another root; the submission can fail, and one  *)
(* after the deadline is logged and passed over.                            *)
Submit ==
    /\ step = "proved"
    /\ \/ answer.root = challenge.root /\ step' \in {"submitted", "late"}
       \/ step' = "failed"
    /\ UNCHANGED <<content, challenge, got, answer>>

ChallengeNext ==
    \/ \E f \in Files : Replace(f)
    \/ \E i \in 0..Len(content) : Ask(i)
    \/ Get \/ Prove \/ Submit

ChallengeSpec == ChallengeInit /\ [][ChallengeNext]_challengeVars

----------------------------------------------------------------------------
(* A proof that is submitted is one the chain accepts: it leads from the    *)
(* chunk that was asked for, of the file that was asked about, to the root  *)
(* of the challenge, for every length of the file and every padding, and    *)
(* its index is that of an equal chunk (challenge.go:163,                   *)
(* merkleproof.go:107).                                                     *)
SubmittedIsAccepted ==
    step = "submitted" =>
        LET hs == computeChunkHashes(challenge.file)
        IN /\ answer.chunkHash = hs[challenge.index + 1]
           /\ answer.index <= challenge.index /\ hs[answer.index + 1] = answer.chunkHash
           /\ VerifyProof(answer.chunkHash, answer.hashes, answer.index, challenge.root)
=============================================================================
