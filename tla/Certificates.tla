---------------------------- MODULE Certificates ----------------------------
(***************************************************************************)
(* Votes and quorum certificates: in memory a certificate maps replicas to *)
(* signatures, on the wire it is a bitmap of the signers and the list of   *)
(* their signatures from the lowest replica to the highest.                *)
(***************************************************************************)
EXTENDS Integers, Sequences, FiniteSets, FiniteSetsExt, SequencesExt

CONSTANT MaxReplicas    \* MAX_REPLICAS, the bits of the bitmap

-----------------------------------------------------------------------------
\* The configuration.
add_replica(config, rid) ==
    IF rid \in config.replicas THEN config      \* throws, and leaves it as it is
    ELSE [config EXCEPT !.replicas = @ \union {rid}, !.nreplicas = @ + 1]

finish_init(config) ==
    [config EXCEPT !.nmajority = config.nreplicas - config.nreplicas \div 3]

NoReplicas == [replicas |-> {}, nreplicas |-> 0, nmajority |-> 0]

ReplicaConfig(rids) ==
    finish_init(FoldSet(LAMBDA rid, config : add_replica(config, rid), NoReplicas, rids))

is_valid_replica(config, rid) == rid \in config.replicas

\* The entry of a replica, which stands for its public key: none for an unknown one, for
\* which the code throws.
get_info(config, rid) == {rid} \intersect config.replicas

-----------------------------------------------------------------------------
\* Bit vectors.
contains(bv, loc) == (bv \div 2 ^ loc) % 2 = 1
bits(bv) == {loc \in 0 .. MaxReplicas - 1 : contains(bv, loc)}
add(bv, loc) == IF contains(bv, loc) THEN bv ELSE bv + 2 ^ loc
bv_size(bv) == Cardinality(bits(bv))

-----------------------------------------------------------------------------
(***************************************************************************)
(* Hashes and signatures are two bytes.  Signing and hashing belong to the *)
(* cryptographic library: no two replicas and no two hashes have the same  *)
(* signature, and no two bodies of an instance the same hash.              *)
(***************************************************************************)
GenesisHash == <<0, 0>>
crypto_sign(hash, rid) == <<rid + 1, hash[2]>>
hash_xdr(body) == <<1, FoldSeq(LAMBDA byte, sum : (2 * sum + byte + 1) % 64, 0, body)>>

PartialCertificate(hash, rid) == [hash |-> hash, sig |-> crypto_sign(hash, rid)]
check_sig(sig, hash, rid) == sig = crypto_sign(hash, rid)
validate(hash, sig, rid) == check_sig(sig, hash, rid)

-----------------------------------------------------------------------------
\* Quorum certificates.
QuorumCertificate(hash) == [obj_hash |-> hash, sigs |-> << >>]

\* A partial certificate for another hash or of an impossible replica throws.
add_partial_certificate(qc, rid, pc) ==
    IF pc.hash # qc.obj_hash \/ rid >= MaxReplicas \/ rid \in DOMAIN qc.sigs THEN qc
    ELSE [qc EXCEPT !.sigs = [r \in DOMAIN @ \union {rid} |-> IF r = rid THEN pc.sig ELSE @[r]]]

has_quorum(qc, config) == config.nmajority <= Cardinality(DOMAIN qc.sigs)

\* QuorumCertificateWire: <<justify, bmp, sigs>>.
\* Variant: the signatures are in the order of arrival, here the reverse.
serialize_Reversed(qc) ==
    LET rids == SetToSortSeq(DOMAIN qc.sigs, <) IN
    <<qc.obj_hash, FoldSeq(LAMBDA rid, bv : add(bv, rid), 0, rids),
      Reverse([i \in DOMAIN rids |-> qc.sigs[rids[i]]])>>

serialize(qc) ==
    LET rids == SetToSortSeq(DOMAIN qc.sigs, <) IN
    <<qc.obj_hash, FoldSeq(LAMBDA rid, bv : add(bv, rid), 0, rids),
      [i \in DOMAIN rids |-> qc.sigs[rids[i]]]>>

\* The bits are popped from the lowest, one for each signature; a bitmap that does not fit
\* the number of signatures gives none.
parse_qc(wire) ==
    LET rids == bits(wire[2])
        sigs == [rid \in rids |-> wire[3][Cardinality({r \in rids : r <= rid})]]
    IN  [obj_hash |-> wire[1], sigs |-> IF bv_size(wire[2]) = Len(wire[3]) THEN sigs ELSE << >>]

\* "throws" when a signer is not in the configuration.
verify(qc, config) ==
    LET valid == {rid \in DOMAIN qc.sigs : check_sig(qc.sigs[rid], qc.obj_hash, rid)} IN
    CASE qc.obj_hash = GenesisHash -> "true"
      [] Cardinality(DOMAIN qc.sigs) < config.nmajority -> "false"
      [] \E rid \in DOMAIN qc.sigs : get_info(config, rid) = {} -> "throws"
      [] OTHER -> IF Cardinality(valid) >= config.nmajority THEN "true" ELSE "false"
=============================================================================
