------------------------------- MODULE MCObjects ------------------------------
(* The objects a client holds through the C ABI, whichever `part` is: handles *)
(* (HandleAbi), a printer (Printer), the layout of a command stream built up  *)
(* one command at a time (PrinterLayout), a Debug text built up one piece at  *)
(* a time (DebugRepr), and what generators draw (MCGenerators).               *)
EXTENDS MCGenerators, HandleAbi, Printer, PrinterLayout, DebugRepr, TLC

CONSTANTS MaxStream, Width      \* bounds: commands or pieces in a row, columns

VARIABLE cmds

C(op, n) == [op |-> op, n |-> n]

SomeCommands == {C("text", 1), C("begin", 1), C("end", 1)}

LayoutCommands ==
    SomeCommands \cup {C("text", 2), C("brk", 1), C("hard", 0), C("end", 0), C("cmt", 0), C("ifb", 1), C("shift", 1)}

\* Threads, addresses and widths are interchangeable.
ObjectSymmetry == Permutations(Callers) \cup Permutations(Ids) \cup Permutations(Widths)

MCInit ==
    /\ part \in {"handles", "printer", "layout", "repr"} \cup GeneratorParts
    /\ AbiInit /\ PrinterInit /\ cmds = <<>> /\ GeneratorsInit

LayoutNext ==
    /\ Len(cmds) < MaxStream
    /\ \E c \in LayoutCommands :
          (c.op = "end" => Opens(cmds) > 0) /\ cmds' = Append(cmds, c)

DebugPieces == {<<"a">>, <<" ">>, <<",", " ">>, <<"(">>, <<")">>, <<"a", " ", "{", " ">>, <<"{">>,
           <<" ", "}">>, <<"}">>, <<"\"">>, <<"\\">>, <<"[", "]">>}

ReprNext == Len(cmds) < MaxStream /\ \E p \in DebugPieces : cmds' = Append(cmds, p)

MCNext ==
    /\ \/ part = "handles" /\ AbiNext /\ UNCHANGED <<printerVars, cmds, generatorVars>>
       \/ part = "printer" /\ PrinterNext /\ UNCHANGED <<abiVars, cmds, generatorVars>>
       \/ part = "layout" /\ LayoutNext /\ UNCHANGED <<abiVars, printerVars, generatorVars>>
       \/ part = "repr" /\ ReprNext /\ UNCHANGED <<abiVars, printerVars, generatorVars>>
       \/ GeneratorsNext /\ UNCHANGED <<abiVars, printerVars, cmds>>
    /\ UNCHANGED part

MCSpec == MCInit /\ [][MCNext]_<<part, cmds, abiVars, printerVars, generatorVars>>

\* A group that is broken is broken wholly and not before those around it, a comment ends
\* its line, the text comes out in the order it was written, and what fits on a line stays
\* on one (Renderer, printer.rs). A Debug text
\* that parses is printed as it stood, and only brackets outside its string literals
\* become groups (print_debug_repr, pretty.rs:585).
LaidOutAsWritten ==
    /\ part = "layout" => LayoutSound(cmds, Render(cmds, Width), Width)
    /\ part = "repr" => KeptOnOneLine(FlattenSeq(cmds))
================================================================================
