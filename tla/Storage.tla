------------------------------- MODULE Storage -------------------------------
(***************************************************************************)
(* Where one replica keeps its blocks: the block store in memory, the      *)
(* block files, the LMDB index of decided blocks, the garbage collector    *)
(* that drops bodies from memory, and the block fetch server that answers  *)
(* out of memory.                                                          *)
(*                                                                         *)
(* Four threads share the blocks: the network's puts them in, the core's   *)
(* writes, indexes and prunes them, the collector flushes one body after   *)
(* the other without holding a lock, and the server copies a block some    *)
(* time after it has looked whether it was flushed.  The process may be    *)
(* killed between any two of their steps, and is started again either      *)
(* with init_from_disk or with init_clean.  A start that throws leaves     *)
(* everything as it was and is not a step.                                 *)
(*                                                                         *)
(* The blocks are a tree that has passed validate.  Consensus is safe: the *)
(* block executed last is below every block that commits, so update does   *)
(* not throw "safety breached", and what commits is below the lock.  (Both *)
(* are theorems about HotstuffCore.)  A second copy of a stored block      *)
(* changes nothing here: the store keeps the first, and what the collector *)
(* does to the second nobody sees.                                         *)
(***************************************************************************)
EXTENDS Integers, Sequences

CONSTANTS
    Blocks,         \* block hashes
    Height,         \* Height[b]: the number of blocks below b
    Parent,         \* Parent[b], Justify[b]: the blocks b names
    Justify,
    EmptyBodies,    \* the blocks whose body is empty
    ByteBase,       \* the values of a byte of an index key, 256
    KeepDepth,      \* how many blocks below the last executed keep their bodies
    MaxCrashes      \* bound: how often the process is killed

Genesis == 0
None == -1

Nodes == Blocks \union {Genesis}

\* A block and all that is below it.
Ancestors[b \in Nodes] == IF b = Genesis THEN {b} ELSE {b} \union Ancestors[Parent[b]]

ASSUME StorageAssumption ==
    /\ {Genesis, None} \intersect Blocks = {} /\ EmptyBodies \subseteq Blocks
    /\ ByteBase \in Nat \ {0, 1} /\ KeepDepth \in Nat /\ MaxCrashes \in Nat

\* A block comes after its parent, and after the block that it has a certificate for.
ASSUME TreeAssumption ==
    /\ Height \in [Nodes -> Nat]
    /\ \A b \in Blocks : /\ Parent[b] \in Nodes /\ Height[b] = Height[Parent[b]] + 1
                         /\ Justify[b] \in Ancestors[Parent[b]]

VARIABLES
    up,             \* the process runs
    crashes,
    block_cache,    \* the blocks in the store
    bodies,         \* stored blocks whose body is in memory as it was received
    flushed,        \* the flag flushed_from_memory
    written,        \* the flag written_to_disk
    decided,        \* the flag decided
    b_lock, b_exec,
    core,           \* what the core's thread is doing, on the block whose
                    \* certificate has arrived, at the block it writes
    tx,             \* the tables as the write transaction of a commit sees them
    gc_list_buffer, gc_list,
    height_to_gc,   \* the request of the collector, or None
    gc,             \* the height below which the collector flushes, and the
                    \* block it is clearing
    answer,         \* what the fetch server has done for the peer that asks
    file,           \* file[b]: what is on disk of b
    data,           \* the table of the decided blocks: key -> value
    metadata        \* the records "qc", the block its certificate is for, and
                    \* "persisted_block" ("persisted block"), the number of the commit

coreVars   == <<decided, b_lock, b_exec, core, tx>>
gcVars     == <<gc_list_buffer, gc_list, height_to_gc, gc>>
diskVars   == <<file, data, metadata>>
memoryVars == <<block_cache, bodies, flushed, written, coreVars, gcVars, answer>>
vars       == <<up, crashes, memoryVars, diskVars>>

NoTable  == [key \in {} |-> None]
NoTxn    == [data |-> NoTable, metadata |-> NoTable]
CoreIdle == [pc |-> "idle", on |-> Genesis, at |-> Genesis]
GcIdle   == [below |-> None, clearing |-> None]
NoAnswer == [state |-> "none", block |-> Genesis, body |-> "none"]

\* Variant: loaded blocks do not know that they are on disk.
written_Clear(blocks) == {Genesis}

\* The flags of a process that has loaded these blocks.
written_flags(blocks) == blocks \union {Genesis}

\* The process has just loaded these blocks, the last one executed being top.
loads(blocks, top) ==
    /\ block_cache' = blocks \union {Genesis} /\ decided' = blocks \union {Genesis}
    /\ written' = written_flags(blocks)
    /\ bodies' = {b \in blocks : file[b] = "whole"} /\ flushed' = {Genesis}
    /\ b_lock' = top /\ b_exec' = top /\ core' = CoreIdle /\ tx' = NoTxn
    /\ gc_list_buffer' = blocks /\ gc_list' = {} /\ height_to_gc' = None /\ gc' = GcIdle
    /\ answer' = NoAnswer

\* The directories are new and empty.
clear_all_data_dirs ==
    /\ file = [b \in Blocks |-> "none"]
    /\ data = NoTable /\ metadata = NoTable

Init ==
    /\ up = FALSE /\ crashes = 0 /\ clear_all_data_dirs
    /\ block_cache = {Genesis} /\ decided = {Genesis} /\ written = {Genesis}
    /\ bodies = {} /\ flushed = {Genesis}
    /\ b_lock = Genesis /\ b_exec = Genesis /\ core = CoreIdle /\ tx = NoTxn
    /\ gc_list_buffer = {} /\ gc_list = {} /\ height_to_gc = None /\ gc = GcIdle
    /\ answer = NoAnswer

-----------------------------------------------------------------------------
(***************************************************************************)
(* The network's thread, and the one that proposes.                        *)
(***************************************************************************)
insert_block(b) ==
    /\ up /\ b \in Blocks \ block_cache /\ {Parent[b], Justify[b]} \subseteq block_cache
    /\ block_cache' = block_cache \union {b} /\ bodies' = bodies \union {b}
    /\ gc_list_buffer' = gc_list_buffer \union {b}
    /\ UNCHANGED <<up, crashes, flushed, written, coreVars, gc_list, height_to_gc, gc, answer,
                   diskVars>>

-----------------------------------------------------------------------------
(***************************************************************************)
(* The core's thread: update for a proposal, from the new lock on.         *)
(***************************************************************************)
update(b) ==
    /\ up /\ core.pc = "idle" /\ b \in block_cache \ {Genesis}
    /\ LET b2 == Justify[b] IN
         /\ b2 \notin decided /\ Justify[b2] \notin decided
         /\ LET b1   == Justify[b2]
                lock == IF Height[b1] > Height[b_lock] THEN b1 ELSE b_lock
            IN  /\ b_lock' = lock
                /\ core' = [pc |-> "write", on |-> b2, at |-> lock]
    /\ UNCHANGED <<up, crashes, block_cache, bodies, flushed, written, decided, b_exec, tx,
                   gcVars, answer, diskVars>>

\* write_to_disk of the block core.at: the flag first, then the file is truncated.
write_to_disk ==
    /\ up /\ core.pc = "write"
    /\ \/ /\ core.at \in written
          /\ core' = [core EXCEPT !.pc = "commit"]
          /\ UNCHANGED <<written, file>>
       \/ /\ core.at \notin written
          /\ written' = written \union {core.at}
          /\ file' = [file EXCEPT ![core.at] = "cut"]
          /\ core' = [core EXCEPT !.pc = "save"]
    /\ UNCHANGED <<up, crashes, block_cache, bodies, flushed, decided, b_lock, b_exec, tx,
                   gcVars, answer, data, metadata>>

\* The block as it is in memory now.
save_xdr_to_file(b) == IF b \in bodies THEN "whole" ELSE "bodiless"

\* The block goes into the file that has the name of its hash.  The parent is next.
save_block ==
    /\ up /\ core.pc = "save"
    /\ file' = [file EXCEPT ![core.at] = save_xdr_to_file(core.at)]
    /\ core' = [core EXCEPT !.pc = "write", !.at = Parent[@]]
    /\ UNCHANGED <<up, crashes, block_cache, bodies, flushed, written, decided, b_lock, b_exec,
                   tx, gcVars, answer, data, metadata>>

\* A committed block and the ones below it that are not executed yet.
commit_queue(b) == {a \in Ancestors[b] : Height[a] > Height[b_exec]}

-----------------------------------------------------------------------------
(***************************************************************************)
(* The database.  A transaction works on its own view of the tables, which *)
(* are replaced when it commits; until then a crash aborts it.             *)
(***************************************************************************)
put(table, key, value) ==
    [k \in DOMAIN table \union {key} |-> IF k = key THEN value ELSE table[k]]
get(table, key)        == IF key \in DOMAIN table THEN table[key] ELSE None

get_persisted_round_number ==
    LET n == get(metadata, "persisted_block") IN IF n = None THEN 0 ELSE n
write_persisted_round_number(t, n) == [t EXCEPT !.metadata = put(@, "persisted_block", n)]

open_txn == [data |-> data, metadata |-> metadata]

\* The key of a block is its height, in two bytes here.
write_unsigned_big_endian(n) == <<n \div ByteBase, n % ByteBase>>

\* The state machine's name for a block: nothing if its body is empty.
block_id(b) == IF b \in EmptyBodies THEN << >> ELSE <<b>>

\* The value of a block is its hash followed by the name.
hash_and_id(b) == <<b>> \o block_id(b)

\* Of the blocks of a queue no two have the same height.
add_decided_block(t, queue) ==
    LET keys  == {write_unsigned_big_endian(Height[b]) : b \in queue}
        at(k) == CHOOSE b \in queue : write_unsigned_big_endian(Height[b]) = k
    IN  [t EXCEPT !.data = [k \in DOMAIN @ \union keys |->
                              IF k \in keys THEN hash_and_id(at(k)) ELSE @[k]]]

set_qc_on_top_block(t, b) == [t EXCEPT !.metadata = put(@, "qc", b)]

commit_wtxn(t, n) ==
    /\ n >= get_persisted_round_number
    /\ data' = t.data
    /\ metadata' = write_persisted_round_number(t, n).metadata

\* Keys are compared byte by byte.
KeyBefore(k, l) == k[1] < l[1] \/ (k[1] = l[1] /\ k[2] < l[2])

\* What the cursor has passed when it is at a key.
forward_cursor(key) == {k \in DOMAIN data : KeyBefore(k, key)}

iterator_hash(value) == Head(value)
get_hs_hash_and_vm_data(value) == [hash |-> Head(value), id |-> Tail(value)]

index == {iterator_hash(data[key]) : key \in DOMAIN data}

-----------------------------------------------------------------------------
\* If the last three blocks are parent and child, the block three steps down is
\* decided with those below it, and put into a transaction.
commit ==
    /\ up /\ core.pc = "commit"
    /\ LET b2 == core.on
           b1 == Justify[b2]
           b  == Justify[b1]
           committed == b \notin decided /\ Parent[b2] = b1 /\ Parent[b1] = b
       IN  \/ /\ committed /\ b_exec \in Ancestors[b] /\ b \in Ancestors[b_lock]
              /\ decided' = decided \union commit_queue(b) /\ b_exec' = b
              /\ tx' = set_qc_on_top_block(add_decided_block(open_txn, commit_queue(b)), b)
              /\ core' = [core EXCEPT !.pc = "persist"]
           \/ /\ ~committed
              /\ core' = CoreIdle
              /\ UNCHANGED <<decided, b_exec, tx>>
    /\ UNCHANGED <<up, crashes, block_cache, bodies, flushed, written, b_lock, gcVars, answer,
                   diskVars>>

persist ==
    /\ up /\ core.pc = "persist"
    /\ commit_wtxn(tx, get_persisted_round_number + 1)
    /\ tx' = NoTxn
    /\ core' = [core EXCEPT !.pc = "prune"]
    /\ UNCHANGED <<up, crashes, block_cache, bodies, flushed, written, decided, b_lock, b_exec,
                   gcVars, answer, file>>

\* Variant: all that is executed is pruned.
prune_height_KeepsNone(committed) == committed

prune_height(committed) == IF committed > KeepDepth THEN committed - KeepDepth ELSE 0

notify_ok_to_prune_blocks ==
    /\ up /\ core.pc = "prune"
    /\ height_to_gc' = prune_height(Height[b_exec])
    /\ core' = CoreIdle
    /\ UNCHANGED <<up, crashes, block_cache, bodies, flushed, written, decided, b_lock, b_exec,
                   tx, gc_list_buffer, gc_list, gc, answer, diskVars>>

-----------------------------------------------------------------------------
(***************************************************************************)
(* The collector's thread.                                                 *)
(***************************************************************************)
garbage == {b \in gc_list : Height[b] < gc.below}

\* Variant: run forgets the request only when it has served it.
request_after_run_Late == IF gc.below = None THEN height_to_gc ELSE None

\* The request is forgotten under the lock that reads it, so one that comes
\* while the collector flushes is kept.
request_after_run == IF gc.below = None THEN None ELSE height_to_gc

\* run takes the request and the blocks that have come in.
run ==
    /\ up /\ gc.below = None /\ height_to_gc # None
    /\ gc_list' = gc_list \union gc_list_buffer /\ gc_list_buffer' = {}
    /\ gc' = [gc EXCEPT !.below = height_to_gc]
    /\ height_to_gc' = request_after_run
    /\ UNCHANGED <<up, crashes, block_cache, bodies, flushed, written, coreVars, answer,
                   diskVars>>

\* flush_from_memory: the flag first, then the body.
flush_from_memory(b) ==
    /\ up /\ gc.clearing = None /\ b \in garbage
    /\ flushed' = flushed \union {b}
    /\ gc' = [gc EXCEPT !.clearing = b]
    /\ UNCHANGED <<up, crashes, block_cache, bodies, written, coreVars, gc_list_buffer, gc_list,
                   height_to_gc, answer, diskVars>>

clear_body ==
    /\ up /\ gc.clearing # None
    /\ bodies' = bodies \ ({gc.clearing} \ EmptyBodies)
    /\ gc_list' = gc_list \ {gc.clearing}
    /\ gc' = [gc EXCEPT !.clearing = None]
    /\ UNCHANGED <<up, crashes, block_cache, flushed, written, coreVars, gc_list_buffer,
                   height_to_gc, answer, diskVars>>

do_gc_ends ==
    /\ up /\ gc.below # None /\ gc.clearing = None /\ garbage = {}
    /\ gc' = GcIdle
    /\ height_to_gc' = request_after_run
    /\ UNCHANGED <<up, crashes, block_cache, bodies, flushed, written, coreVars, gc_list_buffer,
                   gc_list, answer, diskVars>>

-----------------------------------------------------------------------------
(***************************************************************************)
(* The thread of the block fetch server, and the peer that has asked.  A   *)
(* block that is not in the store is left out.                             *)
(***************************************************************************)
get_block(h) == {h} \intersect block_cache

fetch(b) ==
    /\ up /\ answer.state \in {"none", "accepted"} /\ get_block(b) # {}
    /\ answer' = [state |-> IF b \in flushed THEN "sent" ELSE "checked",
                  block |-> b, body |-> "none"]
    /\ UNCHANGED <<up, crashes, block_cache, bodies, flushed, written, coreVars, gcVars,
                   diskVars>>

\* The copy is torn if the collector has cleared the body since the check.
to_wire ==
    /\ up /\ answer.state = "checked"
    /\ answer' = [answer EXCEPT !.state = "sent",
                                !.body = IF answer.block \in bodies THEN "whole" ELSE "torn"]
    /\ UNCHANGED <<up, crashes, block_cache, bodies, flushed, written, coreVars, gcVars,
                   diskVars>>

\* The hash of the body is the one in the header.
validate_hash(body) == body = "whole"

\* The peer takes the block if it is in the answer and passes.
receive_answer ==
    /\ up /\ answer.state = "sent"
    /\ answer' = IF answer.body # "none" /\ validate_hash(answer.body)
                   THEN [NoAnswer EXCEPT !.state = "accepted", !.body = answer.body]
                   ELSE NoAnswer
    /\ UNCHANGED <<up, crashes, block_cache, bodies, flushed, written, coreVars, gcVars,
                   diskVars>>

-----------------------------------------------------------------------------
(***************************************************************************)
(* The process is killed and started.                                      *)
(***************************************************************************)
crash ==
    /\ up /\ crashes < MaxCrashes
    /\ up' = FALSE /\ crashes' = crashes + 1
    /\ UNCHANGED diskVars
    /\ loads({}, Genesis)

\* Variant: a database that exists is started anew.
create_db_ok_Always == TRUE

\* create_db throws if something has been committed.
create_db_ok == get(metadata, "persisted_block") \in {None, 0}

init_clean ==
    /\ ~up /\ create_db_ok
    /\ up' = TRUE /\ metadata' = write_persisted_round_number(open_txn, 0).metadata
    /\ UNCHANGED <<crashes, file, data>>
    /\ loads({}, Genesis)

\* open_db needs the number of the round, load_decided_block a file that parses,
\* insert_block what the block names, in the store by then, and get_highest_qc
\* the "qc" record.
open_db_ok == get(metadata, "persisted_block") # None
load_xdr_from_file(b) == IF file[b] = "cut" THEN "none" ELSE file[b]
load_block(b) == load_xdr_from_file(b)
load_decided_block_ok(b) == load_block(b) # "none"
reload_decided_blocks_ok ==
    \A key \in DOMAIN data :
      LET b == iterator_hash(data[key]) IN
      /\ load_decided_block_ok(b)
      /\ {Parent[b], Justify[b]} \subseteq
           {iterator_hash(data[k]) : k \in forward_cursor(key)} \union {Genesis}
get_highest_qc_ok == get(metadata, "qc") # None
reload_state_ok == get_highest_qc_ok /\ get(metadata, "qc") \in index \union {Genesis}

\* The state machine executes again the blocks that have a name; a body that is
\* gone does not parse.
load_vm_block_ok(b) == load_block(b) = "whole"
vm_init_from_disk_ok ==
    \A key \in DOMAIN data :
      LET r == get_hs_hash_and_vm_data(data[key]) IN
      r.id # << >> => load_vm_block_ok(r.hash)

init_from_disk_ok ==
    open_db_ok /\ reload_decided_blocks_ok /\ reload_state_ok /\ vm_init_from_disk_ok

init_from_disk ==
    /\ ~up /\ init_from_disk_ok
    /\ up' = TRUE /\ UNCHANGED <<crashes, diskVars>>
    /\ loads(index, get(metadata, "qc"))

-----------------------------------------------------------------------------
collect == run \/ (\E b \in Blocks : flush_from_memory(b)) \/ clear_body \/ do_gc_ends

Next ==
    \/ \E b \in Blocks : insert_block(b) \/ update(b) \/ fetch(b)
    \/ write_to_disk \/ save_block \/ commit \/ persist \/ notify_ok_to_prune_blocks
    \/ collect
    \/ to_wire \/ receive_answer
    \/ crash \/ init_clean \/ init_from_disk

\* The collector's thread keeps running.
Spec == Init /\ [][Next]_vars /\ WF_vars(collect)

-----------------------------------------------------------------------------
(***************************************************************************)
(* Correctness.                                                            *)
(***************************************************************************)

\* A replica that has committed can be killed at every moment and started from
\* disk: no file it will need is cut by a write, none was written after the
\* collector had got to the body, the index and the "qc" record agree, and the
\* cursor reaches a block after the blocks it names (write_to_disk, save_block,
\* commit_wtxn, reload_decided_blocks, CountingVM::init_from_disk).
RestartIsPossible == data # NoTable => init_from_disk_ok

\* Whoever asks this replica for a block it stores gets it whole, unless the
\* block is more than KeepDepth below the last executed one.  Then it is left
\* out, and a body torn by the collector during the copy is not taken for the
\* block (BlockFetchHandler::fetch, flush_from_memory, validate_hash).
RecentIsServed ==
    /\ answer.state = "accepted" => answer.body = "whole"
    /\ answer.state = "sent" /\ answer.body # "whole" =>
         Height[answer.block] + KeepDepth < Height[b_exec]

\* Crashes and starts of either kind, in any order, take nothing back from the
\* index and never lower the persisted round (create_db, open_db, commit_wtxn).
IndexOnlyGrows ==
    [][/\ \A key \in DOMAIN data : key \in DOMAIN data' /\ data'[key] = data[key]
       /\ get_persisted_round_number <= get_persisted_round_number']_vars

Requested(b) ==
    b \in gc_list_buffer \union gc_list /\ height_to_gc # None /\ Height[b] < height_to_gc

\* A block below a height the collector is asked to prune leaves memory, even if
\* the request comes while the collector is at work on an earlier one, or the
\* process is killed first.
GarbageIsCollected == \A b \in Blocks : Requested(b) ~> b \in flushed \/ ~up
=============================================================================
