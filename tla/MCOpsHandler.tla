---------------------------- MODULE MCOpsHandler ----------------------------
(* Values of the constants of OpsHandler and OpsHandlerText. *)
EXTENDS OpsHandlerText

\* buffers 1 and 2, of ranks 1 (i64) and 2 (f32)
MCBufferType == <<1, 2>>

\* the tags of lt and add
MCLess == 10
MCPlus == 11

\* five numbers, of which 3 and 4 stand for -2 and -1; other operations are
\* distinct for different tags and operands, as far as five numbers allow
Signed(a) == IF a > 2 THEN a - 5 ELSE a
MCMix(tag, args) ==
    CASE tag = MCLess -> IF Signed(args[1]) < Signed(args[2]) THEN 1 ELSE 0
      [] tag = MCPlus -> (args[1] + args[2]) % 5
      [] OTHER        -> FoldLeft(LAMBDA a, b : (2 * a + b + 1) % 5, tag, args)

MCMaxOf == [load |-> 3, call |-> 1, masked |-> 2, indirect |-> 1, forget |-> 1]

=============================================================================
