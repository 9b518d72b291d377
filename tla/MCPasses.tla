------------------------------ MODULE MCPasses ------------------------------
(***************************************************************************)
(* Passes over small callers of small callees.  A callee has two arguments *)
(* and a constant; it returns an operation on them, or one of two values   *)
(* from two blocks, or a phi of two values, or deoptimizes, always or at   *)
(* times.  A caller calls two functions, the second on what the first      *)
(* returns.                                                                *)
(***************************************************************************)
EXTENDS Passes

\* Instructions and blocks as the builder leaves them: uses recorded, blocks filled in.
Program(nodes, code, succs, preds) ==
    LET blockOf(i) == {b \in DOMAIN code : i \in Range(code[b])}
        placed == [i \in DOMAIN nodes |->
                      [nodes[i] EXCEPT !.block = IF blockOf(i) = {} THEN 0 ELSE CHOOSE b \in blockOf(i) : TRUE]]
    IN  FoldLeftDomain(RegisterInputs, [insts |-> placed, code |-> code, succs |-> succs, preds |-> preds], nodes)

Parameters(val) ==
    <<Node("Argument", <<>>, 1), Node("Argument", <<>>, 2), Node("Constant", <<>>, val)>>

Operation(op, in, val) ==
    Program(Parameters(val) \o <<Node(op, in, 0), Node("RET", <<4>>, 0)>>,
            << <<3, 4, 5>> >>, << <<>> >>, << <<>> >>)

\* if (a) return b; else return b op c
TwoReturns(op, val) ==
    Program(Parameters(val) \o
            <<Node("JA", <<1>>, 0), Node("RET", <<2>>, 0), Node(op, <<2, 3>>, 0), Node("RET", <<6>>, 0)>>,
            << <<3, 4>>, <<5>>, <<6, 7>> >>, << <<2, 3>>, <<>>, <<>> >>, << <<>>, <<1>>, <<1>> >>)

\* It never returns, or only if b is 0.
GivingUp(op, val) ==
    Program(Parameters(val) \o <<Node(op, <<1, 3>>, 0), Node("DEOPTIMIZE", <<>>, 0)>>,
            << <<3, 4, 5>> >>, << <<>> >>, << <<>> >>)

GivingUpIf(op, val) ==
    Program(Parameters(val) \o
            <<Node("JA", <<2>>, 0), Node("DEOPTIMIZE", <<>>, 0), Node(op, <<1, 3>>, 0), Node("RET", <<6>>, 0)>>,
            << <<3, 4>>, <<5>>, <<6, 7>> >>, << <<2, 3>>, <<>>, <<>> >>, << <<>>, <<1>>, <<1>> >>)

\* The join comes before the blocks it joins in the list.
Join(op, val) ==
    Program(Parameters(val) \o
            <<Node("JA", <<1>>, 0), Node(op, <<2, 3>>, 0), Node("JUMP", <<>>, 0), Node("JUMP", <<>>, 0),
              Node("PHI", <<5, 3>>, 0), Node("RET", <<8>>, 0)>>,
            << <<3, 4>>, <<8, 9>>, <<5, 6>>, <<7>> >>, << <<3, 4>>, <<>>, <<2>>, <<2>> >>,
            << <<>>, <<3, 4>>, <<1>>, <<1>> >>)

Names == {<<"op", o, in>> : o \in {"ADD", "AND", "SHL"}, in \in {<<1, 1>>, <<1, 2>>, <<2, 3>>, <<3, 3>>}}
            \cup {<<"join", o, <<>>>> : o \in {"ADD", "SHL"}} \cup {<<"two", o, <<>>>> : o \in {"ADD", "AND"}}
            \cup {<<shape, "ADD", <<>>>> : shape \in {"up", "upIf"}}

CalleesByName ==
    [name \in Names \X {0, 2, FullWord - 1} |->
        LET shape == name[1][1] op == name[1][2] val == name[2]
        IN  CASE shape = "op" -> Operation(op, name[1][3], val)
              [] shape = "two" -> TwoReturns(op, val)
              [] shape = "join" -> Join(op, val)
              [] shape = "up" -> GivingUp(op, val)
              [] shape = "upIf" -> GivingUpIf(op, val)]

\* TLC evaluates the table once.
MCCallees == CalleesByName

Caller(val, in, f, h, op, last) ==
    Program(<<Node("Argument", <<>>, 1), Node("Constant", <<>>, val), Node("MUL", <<1, 2>>, 0),
              Node("CALL_STATIC", in, f), Node("JUMP", <<>>, 0), Node("CALL_STATIC", <<4, last>>, h),
              Node(op, <<6, 4>>, 0), Node("RET", <<7>>, 0)>>,
            << <<2, 3, 4, 5>>, <<6, 7, 8>> >>, << <<2>>, <<>> >>, << <<>>, <<1>> >>)

MCCallers ==
    {Caller(val, in, f, h, op, last) :
        val \in {1, FullWord - 1}, in \in {<<1, 2>>, <<1, 3>>, <<3, 1>>, <<2, 2>>}, f \in DOMAIN CalleesByName,
        h \in {<<<<"two", "ADD", <<>>>>, 2>>, <<<<"op", "ADD", <<1, 2>>>>, 0>>}, op \in {"ADD"}, last \in {1, 2}}

=============================================================================
