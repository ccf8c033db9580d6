------------------------------- MODULE DryRun -------------------------------
(***************************************************************************)
(* The dry run (crates/dry_run, crates/dry_hint_processor): the module is  *)
(* executed with every call answered by a node, and the key behind the     *)
(* answer is recorded for the fetcher.  A module is the calls it makes on  *)
(* the answers it gets.  The nodes are not held to one view of a block: an *)
(* answer shows the block as the node has it when it is asked.             *)
(***************************************************************************)
EXTENDS ChainData

CONSTANT Programs     \* the sequences of calls a module may make

ASSUME ProgramsAssumption ==
    \A p \in Programs : IsSequence(p) /\ \A call \in Elements(p) : Callable(call)

VARIABLES
    program,
    trace,            \* the answers so far
    evm_keys, starknet_keys, bytecode_keys   \* key_set of the three handlers

key_sets == <<evm_keys, starknet_keys, bytecode_keys>>
dry == <<program, trace, key_sets>>

DryInit ==
    /\ program \in Programs /\ trace = <<>>
    /\ evm_keys = {} /\ starknet_keys = {} /\ bytecode_keys = {}

NextCall == program[Len(trace) + 1]
Calling == Len(trace) < Len(program)
DryDone == Len(trace) = Len(program)

Answered(value, view) == trace' = Append(trace, Answer(value, view))

(* The node is asked; only an answer is followed by the recording. *)
Asked(handler, view) ==
    /\ Calling /\ HandlerOf(NextCall) = handler
    /\ Convertible(NextCall)
    /\ view \in Served(NextCall.chain, NextCall.block)
    /\ DryReads(NextCall) # Unreadable
    /\ Answered(DryReads(NextCall), view)

DryEvmCall(view) ==
    /\ Asked("evm", view)
    /\ evm_keys' = evm_keys \union {KeyOf(NextCall)}
    /\ UNCHANGED <<program, starknet_keys, bytecode_keys>>

(* The headers of Starknet come from the indexer, which has the committed   *)
(* ones only; the storage from a node.                                      *)
DryStarknetCall(view) ==
    /\ Asked("starknet", view)
    /\ NextCall.kind = "header" => view = "committed"
    /\ starknet_keys' = starknet_keys \union {KeyOf(NextCall)}
    /\ UNCHANGED <<program, evm_keys, bytecode_keys>>

DryBytecodeCall(view) ==
    /\ Asked("bytecode", view)
    /\ bytecode_keys' = bytecode_keys \union {KeyOf(NextCall)}
    /\ UNCHANGED <<program, evm_keys, starknet_keys>>

DryKeccakCall ==
    /\ Calling /\ HandlerOf(NextCall) = "keccak"
    /\ Answered(DryReads(NextCall), "committed")
    /\ UNCHANGED <<program, key_sets>>

DryDebugCall ==
    /\ Calling /\ HandlerOf(NextCall) = "debug"
    /\ Answered(0, "committed")
    /\ UNCHANGED <<program, key_sets>>

DryCall ==
    \/ \E view \in View : DryEvmCall(view) \/ DryStarknetCall(view) \/ DryBytecodeCall(view)
    \/ DryKeccakCall
    \/ DryDebugCall

(* No handler for the call, no key for its calldata, nothing the reader can *)
(* read: an error or a panic ends the run.                                  *)
DryCallFails ==
    /\ Calling
    /\ \/ HandlerOf(NextCall) = "none"
       \/ ~Convertible(NextCall)
       \/ DryReads(NextCall) = Unreadable
    /\ UNCHANGED dry
=============================================================================
