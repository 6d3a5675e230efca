---------------------------- MODULE MCSftpServe -----------------------------
(* Instances of SftpServe for TLC. *)
EXTENDS SftpServe

Whole(opcode) == [opcode |-> opcode, form |-> "whole", over1GB |-> FALSE]
Cut(opcode) == [opcode |-> opcode, form |-> "cut", over1GB |-> FALSE]
Runt(opcode) == [opcode |-> opcode, form |-> "runt", over1GB |-> FALSE]
Huge(opcode) == [opcode |-> opcode, form |-> "whole", over1GB |-> TRUE]

(* Every opcode, in every form that its case of the switch tells apart. *)
AllRequests ==
    {Whole(opcode) : opcode \in Opcodes} \cup {Cut(opcode) : opcode \in Opcodes}
    \cup {Runt("STAT")}
    \cup {Huge(opcode) : opcode \in {"READ", "WRITE"}}

(* One that is answered, and one that ends the worker that takes it. *)
Deadly == {Whole("REMOVE"), Whole("unknown")}

Reads == {Whole("READ"), Cut("READ"), Huge("READ")}
=============================================================================
