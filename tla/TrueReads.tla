------------------------------ MODULE TrueReads ------------------------------
(***************************************************************************)
(* What a job promises: a module is told answers to its calls, any         *)
(* answers; nothing is published before every one of them is right.        *)
(***************************************************************************)
EXTENDS Naturals, Sequences

CONSTANT Right(_, _)      \* Right(call, answer)

VARIABLES
    reads,           \* the calls and answers so far
    status           \* "running", "published" or "failed"

Init == reads = <<>> /\ status = "running"

Read ==
    /\ status = "running"
    /\ DOMAIN reads' = 1..(Len(reads) + 1)
    /\ \A n \in DOMAIN reads : reads'[n] = reads[n]
    /\ UNCHANGED status

Publish ==
    /\ status = "running"
    /\ \A n \in DOMAIN reads : Right(reads[n].call, reads[n].answer)
    /\ status' = "published"
    /\ UNCHANGED reads

Fail == status = "running" /\ status' = "failed" /\ UNCHANGED reads

Next == Read \/ Publish \/ Fail

Spec == Init /\ [][Next]_<<reads, status>>
=============================================================================
