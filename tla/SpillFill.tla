------------------------------ MODULE SpillFill ------------------------------
(***************************************************************************)
(* RewriteAndInsertSpillFill: ResolvePhis (module PhiMoves) and after it   *)
(* SpillFillInstructions, which goes over the moves and the rest of the    *)
(* block and lets each instruction read its spilled inputs from reserved   *)
(* registers, loaded right before it.  machine executes the final code of  *)
(* the block's end: reload, move, reload, move, ..., and last of all the   *)
(* terminator, which comes after the moves.                                *)
(*                                                                         *)
(* An instruction writes its own location, so the STORE that follows one   *)
(* whose location is on the stack writes there what is there.              *)
(***************************************************************************)
EXTENDS PhiMoves, Sequences

CONSTANTS
    Reserved2,  \* the other reserved register
    Tails       \* the inputs the terminator may have, sequences of instructions

ASSUME FillAssumption ==
    /\ Reserved2 \notin Places
    /\ Tails \subseteq Seq(Instructions)

VARIABLES
    machine,    \* what each place holds when the final code has run up to here
    tail,       \* the inputs of the terminator
    read,       \* what the terminator read for them
    outcome     \* "none" yet, "filled", or the exception "thrown"

fillVars == <<machine, tail, read, outcome>>

ReservedRegisters == <<Reserved, Reserved2>>

IsSpilled(x) == x \in Instructions /\ location[x] \in Slots

\* spilled_inputs: one entry for each input position.
SpilledPositions(inputs) == {k \in DOMAIN inputs : IsSpilled(inputs[k])}

Spilled(inputs) == {inputs[k] : k \in SpilledPositions(inputs)}

\* The loop over the positions comes to y before it comes to x.
MetBefore(y, x, inputs) ==
    \E k \in DOMAIN inputs : inputs[k] = y /\ \A j \in 1 .. k : inputs[j] # x

\* Every reload goes into the first reserved register.
ReloadIntoFirst(inputs) == [x \in Spilled(inputs) |-> Reserved]

\* reloads: the register a spilled input is loaded into, one for each different input.
Reloads(inputs) ==
    [x \in Spilled(inputs) |->
        ReservedRegisters[Cardinality({y \in Spilled(inputs) : MetBefore(y, x, inputs)}) + 1]]

\* The places after the loads in front of an instruction.
Load(inputs) ==
    LET into == Reloads(inputs)
    IN  [l \in DOMAIN machine |->
            IF \E x \in DOMAIN into : into[x] = l
            THEN machine[location[CHOOSE x \in DOMAIN into : into[x] = l]]
            ELSE machine[l]]

\* Where an instruction finds an input after SetInput.
PlaceOf(x, inputs) ==
    IF x = TempMove THEN Reserved
    ELSE IF IsSpilled(x) THEN Reloads(inputs)[x] ELSE location[x]

\* The final code for a move into a place.
Move(to, from) ==
    machine' = [Load(<<from>>) EXCEPT ![to] = Load(<<from>>)[PlaceOf(from, <<from>>)]]

FillInit ==
    /\ Init
    /\ machine = [l \in Places \cup {Reserved2} |-> l]
    /\ tail = <<>>
    /\ read = <<>>
    /\ outcome = "none"

FilledMove ==
    /\ EmitMove
    /\ \E m \in pending \ pending' : Move(location[m.to], m.from)
    /\ UNCHANGED <<tail, read, outcome>>

FilledBreak ==
    /\ BreakCycle
    /\ \E m \in pending \ pending' : Move(Reserved, m.from)
    /\ UNCHANGED <<tail, read, outcome>>

\* Input positions are counted, not inputs: the exception comes though two registers would do.
FillTerminator ==
    /\ pending = {} /\ outcome = "none"
    /\ tail' \in Tails
    /\ IF Cardinality(SpilledPositions(tail')) > Len(ReservedRegisters)
       THEN outcome' = "thrown" /\ UNCHANGED <<machine, read>>
       ELSE /\ outcome' = "filled"
            /\ machine' = Load(tail')
            /\ read' = [k \in DOMAIN tail' |-> Load(tail')[PlaceOf(tail'[k], tail')]]
    /\ UNCHANGED vars

FillDone == outcome # "none" /\ UNCHANGED <<vars, fillVars>>

FillNext == FilledMove \/ FilledBreak \/ FillTerminator \/ FillDone

FillSpec == FillInit /\ [][FillNext]_<<vars, fillVars>> /\ WF_<<vars, fillVars>>(FillNext)

-----------------------------------------------------------------------------

(***************************************************************************)
(* The reloads cannot be seen by the moves: all registers and slots hold   *)
(* what the moves alone leave there, and so does the reserved register     *)
(* while a pending move is to read it.  The first reload register is the   *)
(* one that saves the value of a broken cycle, and nothing keeps the two   *)
(* uses apart but that no move with a spilled source is left by then.      *)
(***************************************************************************)
ReloadsAreInvisible ==
    \A l \in Locations \cup {Reserved} :
        \/ machine[l] = contents[l]
        \/ l = Reserved /\ \A m \in pending : m.from # TempMove

(***************************************************************************)
(* What the terminator reads for each input, a value read twice or two     *)
(* spilled values included: what the input held at the end of the block,   *)
(* unless a phi that is moved on this edge lives where the input does.     *)
(* Since the moves stand before the terminator, it then reads the new      *)
(* value of that phi instead, on whichever edge it leaves.                 *)
(***************************************************************************)
TerminatorReadsItsInputs == outcome = "filled" =>
    \A k \in DOMAIN tail :
        LET moved == {p \in Phis : NeedsMove(p) /\ location[p] = location[tail[k]]}
        IN  IF moved = {} THEN read[k] = location[tail[k]] ELSE \A p \in moved : read[k] = Wanted(p)

=============================================================================
