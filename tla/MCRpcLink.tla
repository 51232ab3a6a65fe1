----------------------------- MODULE MCRpcLink ------------------------------
EXTENDS RpcLink

TheConfig == ReplicaConfig(0 .. 3)

Call(prog, proc, t, arg, res) ==
    [prog |-> prog, vers |-> 1, proc |-> proc, type |-> t, arg |-> arg, res |-> res]

a == <<5, 1>>
b == <<5, 2>>
Certificate(hash, rids) ==
    FoldSet(LAMBDA rid, qc : add_partial_certificate(qc, rid, PartialCertificate(hash, rid)),
            QuorumCertificate(hash), rids)
block(qc, body) == <<<<a, serialize(qc), hash_xdr(body)>>, body>>

Vote(rid, hash) ==
    Call(21, 1, VoteMessage, <<<<hash, crypto_sign(hash, rid)>>, rid>>, xdr_void)
Propose(qc, body) ==
    Call(21, 2, ProposeMessage, <<block(qc, body), 1>>, xdr_void) @@ [qc |-> qc]
Fetch(hashes) == Call(20, 1, BlockFetchRequest, <<hashes>>, BlockFetchResponse)

Scenario(service, calls, stored, n, m) ==
    [service |-> service, calls |-> calls, stored |-> stored, losses |-> n, cuts |-> m]
ToProtocol == <<"PROTOCOL_SERVICE", "PROTOCOL_SERVICE">>
ToFetching == <<"BLOCK_FETCH_SERVICE", "PROTOCOL_SERVICE">>

\* Votes and a proposal over a connection that breaks.
Votes == Scenario(ToProtocol,
    <<<<Vote(1, a), Propose(Certificate(a, 0 .. 2), <<7>>), Vote(1, b)>>, << >>>>, << >>, 1, 1)

\* The certificates, by every set of signers; the genesis block has none.
Signed(hash, rids) == Scenario(ToProtocol,
    <<<<Propose(Certificate(hash, rids), <<9, 9>>)>>, << >>>>, << >>, 0, 1)
Proposals == {Signed(a, rids) : rids \in SUBSET (0 .. 3)} \union {Signed(GenesisHash, {})}

\* Two peers at a time.
Peers == Scenario(ToProtocol, <<<<Vote(1, a)>>, <<Vote(2, a)>>>>, << >>, 0, 0)

\* A peer that speaks another version, or sends arguments of another type.
Foreign == {
    [Vote(2, a) EXCEPT !.prog = 20], [Vote(2, a) EXCEPT !.vers = 2],
    [Vote(2, a) EXCEPT !.proc = 3],
    Call(21, 1, opaque_array(4), <<5, 1, 3, 1>>, xdr_void),
    Call(21, 1, opaque_array(8), <<5, 1, 3, 1, 0, 2, 0, 0>>, xdr_void),
    Call(21, 2, opaque_array(17), <<5, 1, 5, 1, 0, 0, 0, 0, 5, 5, 0, 1, 7, 8, 0, 1, 0>>, xdr_void)}
Skewed == {Scenario(ToProtocol, <<<<call, Vote(2, b)>>, << >>>>, << >>, 0, 1) : call \in Foreign}

\* A block that is fetched needs several writes.
Stored == a :> block(Certificate(b, 0 .. 2), <<7, 8, 9>>)
Fetches == Scenario(ToFetching,
    <<<<Fetch(<<a, b>>), Fetch(<<b>>)>>, << >>>>, Stored, 1, 1)

\* A reply that is too long for the client, a proposal that is too long for the server.
TooLong == {
    Scenario(ToFetching,
             <<<<Fetch(<<a, a, a>>), Fetch(<<b>>)>>, << >>>>, Stored, 0, 1),
    Scenario(ToProtocol,
             <<<<Vote(1, a), Propose(Certificate(a, 0 .. 2), [i \in 1 .. 24 |-> 7]), Vote(1, b)>>,
               << >>>>, << >>, 0, 1)}

\* A proposer knows a replica that the server does not, and another peer votes.
Unknown == Scenario(ToProtocol,
    <<<<Vote(1, b), Propose(Certificate(a, {0, 1, 4}), <<7>>)>>, <<Vote(2, a)>>>>, << >>, 0, 0)

AllScenarios == {Votes, Peers, Unknown, Fetches} \union Proposals \union Skewed \union TooLong
=============================================================================
