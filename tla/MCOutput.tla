------------------------------ MODULE MCOutput -----------------------------
EXTENDS Output

MCNul == "NUL"
MCNull == <<"null">>
MCCalls ==
  {[op |-> "printf", format |-> <<"%", "2", "d", "\n">>, args |-> <<5>>, shows |-> <<" ", "5", "\n">>],
   [op |-> "printf", format |-> <<"a", "%", "s", "%", "c">>, args |-> <<<<"\n", "b">>, MCNul>>,
    shows |-> <<"a", "\n", "b">>],
   [op |-> "putString", str |-> MCNull, shows |-> <<>>],
   [op |-> "putString", str |-> <<"a", "b", "\n", MCNul, "b">>, shows |-> <<"a", "b", "\n">>],
   [op |-> "putString", str |-> <<"a", "b", "c", "d">>, shows |-> <<"a", "b", "c", "d">>],
   [op |-> "putStringSize", str |-> MCNull, size |-> 2, shows |-> <<>>],
   [op |-> "putStringSize", str |-> <<"\n", MCNul, "b">>, size |-> 2, shows |-> <<"\n", MCNul>>]}
MCPrograms == UNION {[1 .. n -> MCCalls] : n \in 0 .. 3}
MCPlatforms == {"x86_64", "raspi3", "linux"}
MCHighPowers == {}
=============================================================================
