----------------------------- MODULE TxnBlocks ------------------------------
(***************************************************************************)
(* What a Postgres session makes of the transaction commands of a file:    *)
(* which block each statement runs in and how each block ends.  A block is *)
(* known by the statement that opened it.                                  *)
(***************************************************************************)
EXTENDS Naturals, Sequences

CONSTANT MaxStatements  \* bound: the length of the file

VARIABLES
    commands,  \* the statements executed
    block,     \* the block that is open, or NoBlock
    member,    \* the block each statement ran in, or NoBlock
    fate       \* what became of the block each statement opened, or "none"

blockVars == <<commands, block, member, fate>>

NoBlock == 0

InitBlocks ==
    /\ commands = <<>>
    /\ block = NoBlock
    /\ member = <<>>
    /\ fate = <<>>

Executed(op, chain, in) ==
    /\ Len(commands) < MaxStatements
    /\ commands' = Append(commands, [op |-> op, chain |-> chain])
    /\ member' = Append(member, in)

\* Of the blocks before, and of the one the statement opens.
Opens(before) == block' = Len(commands) + 1 /\ fate' = Append(before, "open")

\* BEGIN opens a block; inside one it only warns.
Begin ==
    /\ Executed("begin", FALSE, NoBlock)
    /\ \/ block = NoBlock /\ Opens(fate)
       \/ block # NoBlock /\ UNCHANGED block /\ fate' = Append(fate, "none")

\* COMMIT or ROLLBACK ends the open block, and AND CHAIN opens the next one;
\* outside a block nothing changes (with AND CHAIN Postgres rejects it).
End(how, chain) ==
    /\ Executed(how, chain, NoBlock)
    /\ LET ended == [fate EXCEPT ![block] = how] IN
       \/ block = NoBlock /\ UNCHANGED block /\ fate' = Append(fate, "none")
       \/ block # NoBlock /\ chain /\ Opens(ended)
       \/ block # NoBlock /\ ~chain /\ block' = NoBlock /\ fate' = Append(ended, "none")

Execute ==
    /\ Executed("other", FALSE, block)
    /\ UNCHANGED block
    /\ fate' = Append(fate, "none")

NextBlocks ==
    \/ Begin
    \/ \E how \in {"commit", "rollback"}, chain \in BOOLEAN : End(how, chain)
    \/ Execute

SpecBlocks == InitBlocks /\ [][NextBlocks]_blockVars
=============================================================================
