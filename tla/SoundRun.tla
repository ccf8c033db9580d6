------------------------------ MODULE SoundRun ------------------------------
(***************************************************************************)
(* The sound run of a module over the memorizers (crates/                  *)
(* sound_hint_processor, crates/syscall_handler) and its replay            *)
(* (contract_bootloader/execute_syscalls.cairo).  The handlers are hints   *)
(* that read the memorizers their own way: an answer in the syscall        *)
(* segment is proven when the program, going through the segment again,    *)
(* has asserted it.  Both walk the segment by the sizes they give the      *)
(* requests and the responses.                                             *)
(***************************************************************************)
EXTENDS ChainVerifier

VARIABLES
    told,           \* the answers of the run, each at its offset of the segment
    syscall_ptr,    \* the end of the segment
    replay_ptr      \* where the replay is

run == <<told, syscall_ptr, replay_ptr>>

RunInit == told = <<>> /\ syscall_ptr = 0 /\ replay_ptr = 0

Cell(at, call, answer) == [at |-> at, call |-> call, answer |-> answer]

(* A selector, the gas and the request, then the gas, the failure flag and  *)
(* the response: two felts as well when it is the error.                    *)
RequestCells(call) == IF call.kind = "keccak" THEN 2 ELSE 4
ResponseCells == 2
Cells(call) == 2 + RequestCells(call) + 2 + ResponseCells

(* RequestHeader, the request, ResponseHeader and the response of the replay. *)
ReplayCells(call) == IF call.kind = "keccak" THEN 8 ELSE 10

-----------------------------------------------------------------------------
OtherData == 106       \* what a field of another datum reads as

ReadBy(reads, item, call) == IF item.key = KeyOf(call) THEN reads ELSE OtherData

Told(call, value, view) ==
    /\ told' = Append(told, Cell(syscall_ptr, call, Answer(value, view)))
    /\ syscall_ptr' = syscall_ptr + Cells(call)
    /\ UNCHANGED <<replay_ptr, verifier>>

HasEntry(dict, call) == KeyHash(call) \in DOMAIN dict

SoundEvmCall(call) ==
    /\ HandlerOf(call) = "evm" /\ HasEntry(evm, call)
    /\ LET item == evm[KeyHash(call)]
           value == ReadBy(SoundReads(call), item, call)
       IN  value # Unreadable /\ Told(call, value, item.root.view)

SoundStarknetCall(call) ==
    /\ HandlerOf(call) = "starknet" /\ HasEntry(starknet, call)
    /\ LET item == starknet[KeyHash(call)]
           value == ReadBy(SoundReads(call), item, call)
       IN  value # Unreadable /\ Told(call, value, item.root.view)

SoundBytecodeCall(call) ==
    /\ HandlerOf(call) = "bytecode" /\ HasEntry(bytecodes, call)
    /\ LET item == bytecodes[KeyHash(call)]
       IN  Told(call, ReadBy(SoundReads(call), item, call), item.root.view)

SoundKeccakCall(call) ==
    /\ HandlerOf(call) = "keccak"
    /\ Told(call, SoundReads(call), "committed")

SoundDebugCall(call) ==
    /\ HandlerOf(call) = "debug"
    /\ Told(call, 0, "committed")

SoundCall(call) ==
    \/ SoundEvmCall(call) \/ SoundStarknetCall(call) \/ SoundBytecodeCall(call)
    \/ SoundKeccakCall(call) \/ SoundDebugCall(call)

(* No handler, no entry, or nothing readable under it: the run ends. *)
SoundCallFails(call) ==
    /\ CASE HandlerOf(call) = "none" -> TRUE
         [] HandlerOf(call) = "evm" -> ~HasEntry(evm, call) \/ SoundReads(call) = Unreadable
         [] HandlerOf(call) = "starknet" -> ~HasEntry(starknet, call) \/ SoundReads(call) = Unreadable
         [] HandlerOf(call) = "bytecode" -> ~HasEntry(bytecodes, call)
         [] OTHER -> FALSE
    /\ UNCHANGED <<run, verifier>>

-----------------------------------------------------------------------------
(* The replay of one syscall.  What it reads off a memorizer has to be the  *)
(* answer; the value of a call the debug contract got is not looked at.     *)
Opens(dict, cell) ==
    LET key == HashParams(KeyOf(cell.call))
    IN  /\ key \in DOMAIN dict
        /\ ReadBy(CairoReads(cell.call), dict[key], cell.call) = cell.answer.value
        /\ cell.answer.value # Unreadable
        /\ dict[key].root.view = cell.answer.view

Asserted(cell) ==
    CASE HandlerOf(cell.call) = "evm" -> Opens(evm, cell)
      [] HandlerOf(cell.call) = "starknet" -> Opens(starknet, cell)
      [] HandlerOf(cell.call) = "bytecode" -> Opens(bytecodes, cell)
      [] HandlerOf(cell.call) = "keccak" -> CairoReads(cell.call) = cell.answer.value
      [] HandlerOf(cell.call) = "debug" -> TRUE
      [] OTHER -> FALSE

Replaying == replay_ptr # syscall_ptr
AtPointer == {n \in DOMAIN told : told[n].at = replay_ptr}

ReplayCall ==
    /\ Replaying
    /\ \E n \in AtPointer :
          /\ Asserted(told[n])
          /\ replay_ptr' = replay_ptr + ReplayCells(told[n].call)
    /\ UNCHANGED <<told, syscall_ptr, verifier>>

ReplayFails ==
    /\ Replaying
    /\ \A n \in AtPointer : ~Asserted(told[n])
    /\ UNCHANGED <<run, verifier>>
=============================================================================
