------------------------------ MODULE RpcLink -------------------------------
(***************************************************************************)
(* Remote procedure calls between replicas: the synchronous clients of the *)
(* protocol and of block fetching, which reconnect and repeat a call until *)
(* it is answered; the streams of bytes; and the server of one replica,    *)
(* whose event loop reassembles messages, decodes them, runs the handlers  *)
(* and sends the replies.                                                  *)
(*                                                                         *)
(* A connection may break at any time.  The client then opens another one, *)
(* while the server may still find the bytes of the old one.               *)
(***************************************************************************)
EXTENDS Xdr, Certificates

CONSTANTS
    Scenarios,      \* what is called: records with
                    \*   service for each client, the ReplicaService it is for
                    \*   calls   for each client, the calls it is given, in order:
                    \*           [prog, vers, proc, type, arg, res]
                    \*   stored  the blocks the server can send, by hash
                    \*   losses  bound: connections that break or cannot be opened
                    \*   cuts    bound: reads that get less than there is to read
    Config,         \* the ReplicaConfig of the server
    MaxMsgLen,      \* maxmsglen_, in bytes
    SndBuf,         \* bytes the server's socket takes before the client has read some
    XidMod,         \* 2^32: identifiers wrap around
    Conns           \* connections a client can have: the one in use and those left behind

Clients == 1 .. 2

VARIABLES
    scenario,       \* which of the scenarios this is: it stays
    client,         \* for each client: what it does, with which call and connection
    conn,           \* the connections: the bytes on their way and the open ends
    up,             \* the process of the server runs
    sock,           \* the server's rpc_sock of each connection
    handled,        \* for each client, the calls the handlers have got, without repetitions
    results,        \* for each client, the results of the calls that have returned
    xid_counter,
    losses, cuts    \* how often that has happened

vars == <<scenario, client, conn, up, sock, handled, results, xid_counter, losses, cuts>>

Calls(c) == scenario.calls[c]
None == 0           \* no connection, nothing read

-----------------------------------------------------------------------------
(***************************************************************************)
(* The interfaces.                                                         *)
(***************************************************************************)
Hash == opaque_array(2)
VoteMessage == struct(<<struct(<<Hash, Hash>>), uint32>>)
QuorumCertificateWire == struct(<<Hash, uint32, xvector(MaxReplicas, Hash)>>)
HotstuffBlockWire ==
    struct(<<struct(<<Hash, QuorumCertificateWire, Hash>>), opaque_vec(Base - 1)>>)
ProposeMessage == struct(<<HotstuffBlockWire, uint32>>)
BlockFetchRequest == struct(<<xvector(Base - 1, Hash)>>)
BlockFetchResponse == struct(<<xvector(Base - 1, HotstuffBlockWire)>>)

HotstuffProtocol == [program |-> 21, version |-> 1, procs |->
    1 :> [name |-> "vote", arg |-> VoteMessage, res |-> xdr_void] @@
    2 :> [name |-> "propose", arg |-> ProposeMessage, res |-> xdr_void]]
FetchBlocks == [program |-> 20, version |-> 1, procs |->
    1 :> [name |-> "fetch", arg |-> BlockFetchRequest, res |-> BlockFetchResponse]]

-----------------------------------------------------------------------------
(***************************************************************************)
(* The services registered with a listener: servers_[program][version] has *)
(* the procedures by number.                                               *)
(***************************************************************************)
rpc_server_base == << >>

register_service(registered, interface) ==
    LET versions == IF interface.program \in DOMAIN registered THEN registered[interface.program]
                    ELSE << >>
    IN  (interface.program :> ((interface.version :> interface.procs) @@ versions)) @@ registered

HotstuffProtocolServer == register_service(rpc_server_base, HotstuffProtocol)
BlockFetchServer == register_service(rpc_server_base, FetchBlocks)

\* The listener at the port that a client's ReplicaService names.
get_service_name(service) ==
    CASE service = "PROTOCOL_SERVICE" -> HotstuffProtocolServer
      [] service = "BLOCK_FETCH_SERVICE" -> BlockFetchServer

-----------------------------------------------------------------------------
(***************************************************************************)
(* The messages.                                                           *)
(***************************************************************************)
CALL == 0
REPLY == 1
MSG_ACCEPTED == 0
MSG_DENIED == 1
RPC_MISMATCH == 0
AUTH_NONE == 0
SUCCESS == 0
PROG_UNAVAIL == 1
PROG_MISMATCH == 2
PROC_UNAVAIL == 3
GARBAGE_ARGS == 4

opaque_auth == struct(<<uint32, opaque_vec(400)>>)
call_body == struct(<<uint32, uint32, uint32, uint32, opaque_auth, opaque_auth>>)
mismatch_info == struct(<<uint32, uint32>>)
accepted_reply == struct(<<opaque_auth,
    union(SUCCESS :> opaque_array(0) @@ PROG_MISMATCH :> mismatch_info, {xdr_void})>>)
rejected_reply == union(RPC_MISMATCH :> mismatch_info @@ 1 :> uint32, {})
reply_body == union(MSG_ACCEPTED :> accepted_reply @@ MSG_DENIED :> rejected_reply, {})
rpc_msg == struct(<<uint32, union(CALL :> call_body @@ REPLY :> reply_body, {})>>)

NoAuth == <<AUTH_NONE, << >>>>

prepare_call(xid, call) ==
    <<xid, <<CALL, <<2, call.prog, call.vers, call.proc, NoAuth, NoAuth>>>>>>

\* The replies, put together word by word in the code.
rpc_accepted(xid, stat, info) == put(rpc_msg,
    <<xid, <<REPLY, <<MSG_ACCEPTED, <<NoAuth, <<stat, info>>>>>>>>>>)
rpc_success_hdr(xid) == rpc_accepted(xid, SUCCESS, << >>)
rpc_accepted_error_msg(xid, stat) == rpc_accepted(xid, stat, << >>)
rpc_prog_mismatch_msg(xid, low, high) == rpc_accepted(xid, PROG_MISMATCH, <<low, high>>)
rpc_rpc_mismatch_msg(xid) == put(rpc_msg,
    <<xid, <<REPLY, <<MSG_DENIED, <<RPC_MISMATCH, <<2, 2>>>>>>>>>>)

\* Raises for anything but an accepted and successful reply.
\* Variant: for anything but an accepted one.
check_call_hdr_AnyAccepted(hdr) ==
    /\ hdr[2][1] = REPLY
    /\ hdr[2][2][1] = MSG_ACCEPTED

check_call_hdr(hdr) ==
    /\ hdr[2][1] = REPLY
    /\ hdr[2][2][1] = MSG_ACCEPTED
    /\ hdr[2][2][2][2][1] = SUCCESS

\* On the wire a message has its length in front, with the highest bit set.
LastFragment == (Base * Base) \div 2
alloc(bytes) == swap32le(Len(bytes) + LastFragment) \o bytes

\* nextlen_: the length in a complete header.
nextlen(hdr) == hdr[1] * Base + hdr[2]

\* What is registered with the listener a client connects to.
servers(c) == get_service_name(scenario.service[c])

-----------------------------------------------------------------------------
(***************************************************************************)
(* The handlers: a vote and a proposal must come from a replica of the     *)
(* configuration and be valid to get into the network event queue; a block *)
(* is sent if it is in the store.                                          *)
(***************************************************************************)
\* VoteMessage: <<<<hash, sig>>, voter>>.
vote(v) == IF is_valid_replica(Config, v[2]) /\ validate(v[1][1], v[1][2], v[2])
           THEN "true" ELSE "false"

\* ProposeMessage: <<<<<<parent_hash, qc, body_hash>>, body>>, proposer>>.
validate_hotstuff(block) ==
    IF hash_xdr(block[2]) = block[1][3] THEN verify(parse_qc(block[1][2]), Config) ELSE "false"

propose(p) == IF is_valid_replica(Config, p[2]) THEN validate_hotstuff(p[1]) ELSE "false"

\* BlockFetchRequest: <<hashes>>; BlockFetchResponse: <<blocks>>.
fetch(stored, req) ==
    LET found == SelectSeq(req[1], LAMBDA h : h \in DOMAIN stored) IN
    <<[i \in DOMAIN found |-> stored[found[i]]]>>

\* What a handler returns and whether it has accepted the call: "true", "false" or "throws".
run_handler(stored, name, arg) ==
    CASE name = "vote"    -> [res |-> << >>, accepted |-> vote(arg)]
      [] name = "propose" -> [res |-> << >>, accepted |-> propose(arg)]
      [] name = "fetch"   -> [res |-> fetch(stored, arg), accepted |-> "true"]

-----------------------------------------------------------------------------
(***************************************************************************)
(* What the server does with one message: send a reply, ignore it, close   *)
(* the connection, or throw; and the call it has handled, if any.          *)
(***************************************************************************)
Ignored == [does |-> "ignore", reply |-> << >>, call |-> {}]
Closes == [does |-> "close", reply |-> << >>, call |-> {}]
Throws == [does |-> "throw", reply |-> << >>, call |-> {}]
Refused(bytes) == [does |-> "reply", reply |-> bytes, call |-> {}]

\* srpc_service::process for a procedure of the interface.
process(xid, proc, arg) ==
    LET ran == run_handler(scenario.stored, proc.name, arg) IN
    IF ran.accepted = "throws" THEN Throws ELSE
    [does |-> "reply", reply |-> rpc_success_hdr(xid) \o put(proc.res, ran.res),
     call |-> {[proc |-> proc.name, arg |-> arg, accepted |-> ran.accepted = "true"]}]

decode_arg(t, b, p) == get_done(t, b, p)

\* What is done with a message is a set of one, as what is read from it is.
OrElse(found, otherwise) == IF found = {} THEN {otherwise} ELSE found

\* A call with a good header.
answer(registered, hdr, m) ==
    LET xid  == hdr.v[1]
        body == hdr.v[2][2]
        vers == registered[body[2]]
        proc == vers[body[3]][body[4]]
    IN  IF body[1] # 2 THEN {Refused(rpc_rpc_mismatch_msg(xid))}
        ELSE IF body[2] \notin DOMAIN registered
        THEN {Refused(rpc_accepted_error_msg(xid, PROG_UNAVAIL))}
        ELSE IF body[3] \notin DOMAIN vers
        THEN {Refused(rpc_prog_mismatch_msg(xid, Min(DOMAIN vers), Max(DOMAIN vers)))}
        ELSE IF body[4] \notin DOMAIN vers[body[3]]
        THEN {Refused(rpc_accepted_error_msg(xid, PROC_UNAVAIL))}
        ELSE OrElse({process(xid, proc, arg.v) : arg \in decode_arg(proc.arg, m, hdr.p)},
                    Refused(rpc_accepted_error_msg(xid, GARBAGE_ARGS)))

\* Messages with a malformed header, and replies, are ignored.
dispatch(registered, m) ==
    IF ~aligned(m) THEN {Closes} ELSE
    LET calls == {h \in get(rpc_msg, m, 0) : h.v[2][1] = CALL} IN
    OrElse(UNION {answer(registered, hdr, m) : hdr \in calls}, Ignored)

\* rpc_sock::recv_msg: calls are dispatched; the server waits for no reply.
word(m, i) == m[2 * i + 1] * Base + m[2 * i + 2]

recv_msg(registered, m) ==
    CASE Len(m) < 2 * WordBytes -> {Closes}
      [] Len(m) >= 2 * WordBytes /\ word(m, 1) = CALL -> dispatch(registered, m)
      [] Len(m) >= 2 * WordBytes /\ word(m, 1) = REPLY -> {Ignored}
      [] OTHER -> {Closes}

-----------------------------------------------------------------------------
(***************************************************************************)
(* The server's end of a connection: a message being read (rdlen is None   *)
(* when there is none), the header of the next one, the replies to write.  *)
(***************************************************************************)
NoSock == [alive |-> FALSE, rdlen |-> None, rdmsg |-> << >>, hdr |-> << >>,
           wqueue |-> << >>, wcb |-> FALSE, wfail |-> FALSE]

\* A new one: its read callback is set.
msg_sock == [NoSock EXCEPT !.alive = TRUE]

NoConn == [used |-> FALSE, toServer |-> << >>, toClient |-> << >>,
           held |-> FALSE, served |-> FALSE, broken |-> FALSE]

\* A new connection: the server's listener will accept it.
tcp_connect == [NoConn EXCEPT !.used = TRUE, !.held = TRUE, !.served = TRUE]

\* A client at its start, without a connection.
NonblockingRpcClient == [does |-> "call", at |-> 1, conn |-> None, xid |-> 0, buf |-> << >>]

\* The request.
request(call, xid) == xdr_to_msg(<<rpc_msg, call.type>>, <<prepare_call(xid, call), call.arg>>)

HasProcedure(registered, call) ==
    /\ call.prog \in DOMAIN registered
    /\ call.vers \in DOMAIN registered[call.prog]
    /\ call.proc \in DOMAIN registered[call.prog][call.vers]
Procedure(registered, call) == registered[call.prog][call.vers][call.proc]

\* What the server can take: a procedure it has, with these arguments, in a message that is
\* not too long, and with a reply that the client will not take for a bad one.
Servable(s, c, call) ==
    LET registered == get_service_name(s.service[c])
        proc    == Procedure(registered, call)
    IN  /\ HasProcedure(registered, call)
        /\ proc.arg = call.type
        /\ run_handler(s.stored, proc.name, call.arg).accepted # "throws"
        /\ Len(request(call, 0).bytes) <= MaxMsgLen
        /\ Len(rpc_success_hdr(0))
             + Len(put(proc.res, run_handler(s.stored, proc.name, call.arg).res)) < Base

\* How many calls of a client can be served, until the first one that cannot.
ServableCalls(s, c) ==
    Cardinality({i \in DOMAIN s.calls[c] : \A j \in 1 .. i : Servable(s, c, s.calls[c][j])})

Init ==
    /\ \E s \in Scenarios :
         scenario = s @@ [servable |-> [c \in Clients |-> ServableCalls(s, c)]]
    /\ client = [c \in Clients |-> NonblockingRpcClient]
    /\ conn = [c \in Clients |-> [k \in Conns |-> NoConn]]
    /\ sock = [c \in Clients |-> [k \in Conns |-> NoSock]]
    /\ handled = [c \in Clients |-> << >>] /\ results = [c \in Clients |-> << >>]
    /\ up = TRUE /\ xid_counter = 0 /\ losses = 0 /\ cuts = 0

\* One writev: s and the bytes on their way to the client, after it.  A full socket
\* takes nothing, and the callback is only set after some bytes were taken.
\* Variant: the callback is not set.
output_NoCallback(s, k) ==
    LET n == Min({Len(s.wqueue), SndBuf - Len(k.toClient)}) IN
    IF k.broken \/ ~k.held THEN [s |-> [s EXCEPT !.wqueue = << >>, !.wfail = TRUE], sent |-> << >>]
    ELSE IF n = 0 THEN [s |-> s, sent |-> << >>]
    ELSE [s |-> [s EXCEPT !.wqueue = SubSeq(@, n + 1, Len(@))], sent |-> SubSeq(s.wqueue, 1, n)]

output(s, k) ==
    LET n == Min({Len(s.wqueue), SndBuf - Len(k.toClient)}) IN
    IF k.broken \/ ~k.held THEN [s |-> [s EXCEPT !.wqueue = << >>, !.wfail = TRUE], sent |-> << >>]
    ELSE IF n = 0 THEN [s |-> s, sent |-> << >>]
    ELSE [s |-> [s EXCEPT !.wqueue = SubSeq(@, n + 1, Len(@)), !.wcb = n < Len(s.wqueue)],
          sent |-> SubSeq(s.wqueue, 1, n)]

putmsg(s, k, bytes) ==
    IF s.wfail THEN [s |-> s, sent |-> << >>] ELSE
    LET queued == [s EXCEPT !.wqueue = @ \o alloc(bytes)] IN
    IF s.wqueue = << >> THEN output(queued, k) ELSE [s |-> queued, sent |-> << >>]

\* The n bytes that one read puts after what was read before.
filled(s, bytes) ==
    LET room == s.rdlen - Len(s.rdmsg) IN
    IF s.rdlen = None THEN [s EXCEPT !.hdr = @ \o bytes]
    ELSE [s EXCEPT !.rdmsg = @ \o SubSeq(bytes, 1, Min({room, Len(bytes)})),
                   !.hdr = SubSeq(bytes, room + 1, Len(bytes))]

complete(s) == s.rdlen # None /\ Len(s.rdmsg) = s.rdlen

\* A complete header starts a message.  No buffer is taken for one that is too long.
start_message(s) ==
    IF s.rdlen # None \/ Len(s.hdr) < WordBytes THEN s ELSE
    LET len == nextlen(s.hdr) % LastFragment IN
    IF nextlen(s.hdr) < LastFragment \/ len = 0 \/ len > MaxMsgLen THEN NoSock
    ELSE [s EXCEPT !.rdlen = len, !.rdmsg = << >>, !.hdr = << >>]

Wanted(s) == IF s.rdlen = None THEN WordBytes - Len(s.hdr)
             ELSE s.rdlen - Len(s.rdmsg) + WordBytes

record(log, calls) == log \o SetToSeq({x \in calls : x \notin ToSet(log)})

\* delete ms: the socket is closed, the client can still read what was sent.
closed(k) == IF k.held THEN [k EXCEPT !.served = FALSE, !.toServer = << >>] ELSE NoConn

\* A read gets all that there is, up to what is wanted, or less: the stream may be cut
\* anywhere.
read(n, most) ==
    /\ n = most \/ cuts < scenario.cuts
    /\ cuts' = IF n = most THEN cuts ELSE cuts + 1

\* Nothing catches what a handler throws on the event loop's thread: the process ends,
\* and with it all of its connections.
terminate ==
    /\ up' = FALSE
    /\ sock' = [d \in Clients |-> [k \in Conns |-> NoSock]]
    /\ conn' = [d \in Clients |-> [k \in Conns |-> closed(conn[d][k])]]

\* One turn of input(): read, hand over a complete message, start the next one.
input(c, k) ==
    /\ sock[c][k].alive
    /\ \E n \in 1 .. Min({Wanted(sock[c][k]), Len(conn[c][k].toServer)}) :
         /\ read(n, Min({Wanted(sock[c][k]), Len(conn[c][k].toServer)}))
         /\ \E got \in {filled(sock[c][k], SubSeq(conn[c][k].toServer, 1, n))},
               stream \in {[conn[c][k] EXCEPT !.toServer = SubSeq(@, n + 1, Len(@))]} :
            \E does \in IF complete(got) THEN recv_msg(servers(c), got.rdmsg)
                        ELSE {Ignored} :
              LET idle == IF complete(got) THEN [got EXCEPT !.rdlen = None, !.rdmsg = << >>]
                          ELSE got
                  out  == IF does.does = "reply" THEN putmsg(idle, stream, does.reply)
                          ELSE [s |-> IF does.does = "close" THEN NoSock ELSE idle, sent |-> << >>]
                  next == IF out.s.alive THEN start_message(out.s) ELSE NoSock
                  rest == [stream EXCEPT !.toClient = @ \o out.sent]
              IN  /\ IF does.does = "throw" THEN terminate ELSE
                       /\ sock' = [sock EXCEPT ![c][k] = next]
                       /\ conn' = [conn EXCEPT ![c][k] = IF next.alive THEN rest ELSE closed(rest)]
                       /\ UNCHANGED up
                  /\ handled' = [handled EXCEPT ![c] = record(@, does.call)]
    /\ UNCHANGED <<scenario, client, results, xid_counter, losses>>

\* The end of the stream, or an error when the connection is broken.
input_ends(c, k) ==
    /\ sock[c][k].alive
    /\ conn[c][k].broken \/ (~conn[c][k].held /\ conn[c][k].toServer = << >>)
    /\ sock' = [sock EXCEPT ![c][k] = NoSock]
    /\ conn' = [conn EXCEPT ![c][k] = closed(@)]
    /\ UNCHANGED <<scenario, client, up, handled, results, xid_counter, losses, cuts>>

\* The event loop finds that the socket takes bytes again.
output_continues(c, k) ==
    /\ sock[c][k].alive /\ sock[c][k].wcb
    /\ Len(conn[c][k].toClient) < SndBuf \/ conn[c][k].broken \/ ~conn[c][k].held
    /\ LET out == output(sock[c][k], conn[c][k]) IN
       /\ sock' = [sock EXCEPT ![c][k] = out.s]
       /\ conn' = [conn EXCEPT ![c][k].toClient = @ \o out.sent]
    /\ UNCHANGED <<scenario, client, up, handled, results, xid_counter, losses, cuts>>

accept_cb(c, k) ==
    /\ conn[c][k].used /\ conn[c][k].served /\ ~sock[c][k].alive
    /\ sock' = [sock EXCEPT ![c][k] = msg_sock]
    /\ UNCHANGED <<scenario, client, conn, up, handled, results, xid_counter, losses, cuts>>

-----------------------------------------------------------------------------
(***************************************************************************)
(* The clients.                                                            *)
(***************************************************************************)
HasWork(c) == client[c].at <= Len(Calls(c))
link(c) == conn[c][client[c].conn]

open_connection(c) ==
    /\ HasWork(c) /\ client[c].conn = None /\ up
    /\ \E k \in Conns :
         /\ ~conn[c][k].used
         /\ conn' = [conn EXCEPT ![c][k] = tcp_connect]
         /\ client' = [client EXCEPT ![c].conn = k]
    /\ UNCHANGED <<scenario, up, sock, handled, results, xid_counter, losses, cuts>>

\* The attempt fails: the connection is cleared and after a while there is another one.
open_fails(c) ==
    /\ HasWork(c) /\ client[c].conn = None
    /\ losses < scenario.losses
    /\ losses' = losses + 1
    /\ UNCHANGED <<scenario, client, conn, up, sock, handled, results, xid_counter, cuts>>

\* The connection after the client has closed its end.
left(k) == IF k.served THEN [k EXCEPT !.held = FALSE, !.toClient = << >>] ELSE NoConn

\* Variant: after an error the next call is made.
clear_connection_SkipsCall(c) ==
    /\ client' = [client EXCEPT ![c] = [@ EXCEPT !.does = "call", !.at = @ + 1, !.conn = None,
                                                 !.xid = 0, !.buf = << >>]]
    /\ conn' = [conn EXCEPT ![c][client[c].conn] = left(@)]
    /\ UNCHANGED results

\* Whatever is thrown in a call: the connection is cleared, the call will be repeated.
clear_connection(c) ==
    /\ client' = [client EXCEPT ![c] = [@ EXCEPT !.does = "call", !.conn = None,
                                                 !.xid = 0, !.buf = << >>]]
    /\ conn' = [conn EXCEPT ![c][client[c].conn] = left(@)]
    /\ UNCHANGED results

\* The counter of identifiers is shared by the threads and not protected: each may
\* have read it before another one writes it.
next_xid(c) ==
    /\ HasWork(c) /\ client[c].does = "call" /\ client[c].conn # None
    /\ client' = [client EXCEPT ![c].does = "send", ![c].xid = (xid_counter + 1) % XidMod]
    /\ UNCHANGED <<scenario, conn, up, sock, handled, results, xid_counter, losses, cuts>>

\* write_message writes all of the request.
invoke(c) ==
    LET msg == request(Calls(c)[client[c].at], client[c].xid)
    IN  /\ client[c].does = "send"
        /\ xid_counter' = client[c].xid
        /\ IF ~msg.ok \/ link(c).broken
             THEN clear_connection(c)
             ELSE /\ client' = [client EXCEPT ![c].does = "read"]
                  /\ conn' = [conn EXCEPT ![c][client[c].conn].toServer =
                                IF link(c).served THEN @ \o alloc(msg.bytes) ELSE @]
                  /\ UNCHANGED results
        /\ UNCHANGED <<scenario, up, sock, handled, losses, cuts>>

\* The header is looked at before its bytes are swapped, so that the test for a
\* multiple of four sees its first byte: a long reply is taken for a bad one.
bad_header(hdr) == hdr[1] % 4 # 0 \/ nextlen(hdr) < LastFragment

\* The rest of invoke(): the result, if nothing is thrown.
reply_result(c, m) ==
    IF ~aligned(m) THEN {} ELSE
    UNION {get_done(Calls(c)[client[c].at].res, m, hdr.p) :
           hdr \in {h \in get(rpc_msg, m, 0) : check_call_hdr(h.v) /\ h.v[1] = client[c].xid}}

\* How many bytes there are to read, as far as is known.
whole(buf) == WordBytes + IF Len(buf) < WordBytes THEN 0 ELSE nextlen(buf) % LastFragment

returned(c, v) ==
    /\ client' = [client EXCEPT ![c] = [@ EXCEPT !.does = "call", !.at = @ + 1,
                                                 !.xid = 0, !.buf = << >>]]
    /\ results' = [results EXCEPT ![c] = Append(@, v)]

\* read_message: the header, then the message.
read_message(c) ==
    /\ client[c].does = "read" /\ ~link(c).broken
    /\ \E n \in 1 .. Min({whole(client[c].buf) - Len(client[c].buf), Len(link(c).toClient)}) :
         /\ read(n, Min({whole(client[c].buf) - Len(client[c].buf), Len(link(c).toClient)}))
         /\ \E got \in {client[c].buf \o SubSeq(link(c).toClient, 1, n)} :
            LET header == Len(got) >= WordBytes
                bad    == header /\ bad_header(got)
                all    == header /\ Len(got) = whole(got)
                msg    == SubSeq(got, WordBytes + 1, Len(got))
            IN  \E res \in {IF all THEN reply_result(c, msg) ELSE {}} :
                IF bad \/ (all /\ res = {}) THEN clear_connection(c)
                ELSE /\ IF all THEN \E r \in res : returned(c, r.v)
                        ELSE client' = [client EXCEPT ![c].buf = got] /\ UNCHANGED results
                     /\ conn' = [conn EXCEPT ![c][client[c].conn].toClient =
                                   SubSeq(@, n + 1, Len(@))]
    /\ UNCHANGED <<scenario, up, sock, handled, xid_counter, losses>>

\* fullread finds the end of the stream or an error.
read_fails(c) ==
    /\ client[c].does = "read"
    /\ link(c).broken \/ (~link(c).served /\ link(c).toClient = << >>)
    /\ clear_connection(c)
    /\ UNCHANGED <<scenario, up, sock, handled, xid_counter, losses, cuts>>

-----------------------------------------------------------------------------
\* The network gives up a connection; each side finds out for itself.
lose(c, k) ==
    /\ conn[c][k].used /\ conn[c][k].held /\ ~conn[c][k].broken
    /\ losses < scenario.losses
    /\ losses' = losses + 1
    /\ conn' = [conn EXCEPT ![c][k].broken = TRUE]
    /\ UNCHANGED <<scenario, client, up, sock, handled, results, xid_counter, cuts>>

Server(c, k) == input(c, k) \/ input_ends(c, k) \/ output_continues(c, k) \/ accept_cb(c, k)
Client(c) ==
    open_connection(c) \/ next_xid(c) \/ invoke(c) \/ read_message(c) \/ read_fails(c)

Next ==
    \/ \E c \in Clients : Client(c) \/ open_fails(c)
    \/ \E c \in Clients, k \in Conns : Server(c, k) \/ lose(c, k)

\* When a client, and the event loop for a connection, have something to do: these are
\* ENABLED Client(c) and ENABLED Server(c, k), written out.
ClientReady(c) ==
    /\ HasWork(c)
    /\ IF client[c].conn = None THEN up /\ \E k \in Conns : ~conn[c][k].used
       ELSE client[c].does = "read" =>
              \/ link(c).toClient # << >> \/ link(c).broken \/ ~link(c).served
ServerReady(c, k) ==
    IF sock[c][k].alive
    THEN \/ conn[c][k].toServer # << >> \/ conn[c][k].broken \/ ~conn[c][k].held
         \/ sock[c][k].wcb /\ Len(conn[c][k].toClient) < SndBuf
    ELSE conn[c][k].served

\* The threads of the clients and the event loop run: weak fairness of Client(c) and of
\* Server(c, k).
Fairness ==
    /\ \A c \in Clients : []<>~ClientReady(c) \/ []<><<Client(c)>>_vars
    /\ \A c \in Clients, k \in Conns : []<>~ServerReady(c, k) \/ []<><<Server(c, k)>>_vars

Spec == Init /\ [][Next]_vars /\ Fairness
-----------------------------------------------------------------------------
(***************************************************************************)
(* Properties.                                                             *)
(***************************************************************************)
\* The handlers of a replica get the calls of a peer in the order in which the peer makes
\* them, none left out, and with exactly the bytes of the arguments that were sent, however
\* the stream cuts the messages and whatever connections break; a repetition of a call may
\* come later.  (A replica's votes and proposals arrive in the order of its work list.)
CallsArriveInOrder ==
    \A c \in Clients : \A i \in DOMAIN handled[c] :
        LET call == Calls(c)[i]
            proc == Procedure(servers(c), call)
        IN  /\ i <= Len(Calls(c))
            /\ HasProcedure(servers(c), call)
            /\ proc.name = handled[c][i].proc
            /\ put(proc.arg, handled[c][i].arg) = put(call.type, call.arg)

\* A call that has returned to the client was handled, and returned what its handler did:
\* no reply of another call, of an earlier attempt or of an error is taken for its result.
AnswersAreResults ==
    \A c \in Clients : \A i \in DOMAIN results[c] :
        /\ i <= Len(handled[c])
        /\ results[c][i] = run_handler(scenario.stored, handled[c][i].proc, handled[c][i].arg).res

\* A certificate arrives as the map of signers to signatures that the proposer had, and the
\* proposal is accepted exactly if it is for the genesis block or more than two thirds of
\* the replicas have signed.
CertificatesSurvive ==
    \A c \in Clients : \A i \in DOMAIN handled[c] :
        handled[c][i].proc = "propose" =>
            LET qc == Calls(c)[i].qc IN
            /\ parse_qc(handled[c][i].arg[1][1][2]) = qc
            /\ handled[c][i].accepted
                 <=> \/ qc.obj_hash = GenesisHash
                     \/ 3 * Cardinality(DOMAIN qc.sigs) > 2 * Cardinality(Config.replicas)

\* Every call that can be served returns in the end, if those before it can be served too
\* and no other call has ended the server.  (One that cannot be is repeated for ever, and
\* those after it wait.)
CallsAreServed == \A c \in Clients : <>(Len(results[c]) >= scenario.servable[c] \/ ~up)
=============================================================================
