------------------------------- MODULE MCText -------------------------------
EXTENDS Text

MCNul == "NUL"
MCHighPowers == {-2, -1, 2, 3}
MCFlags == SUBSET {"0", "-", "+", " ", "#"}
Asked(flags, widths, precs, lengths, convs, args) ==
  [op : {"printf"}, flags : flags, width : widths, prec : precs,
   length : lengths, conv : convs, arg : args]

MCIntegers ==
  Asked(MCFlags, {ABSENT, Number(1), Number(3), Number(5), Star(-5)},
            {ABSENT, Number(0), Number(2), Number(4)}, {<<>>},
            {"d", "u", "x", "o", "b"}, {0, 5, -1, 100, -128})
  \cup
  Asked({{}, {"0"}, {"#"}, {"-", "+"}}, {ABSENT, Number(9)},
            {ABSENT, DOT, Number(9), Star(3), Star(-1)}, {<<"h">>, <<"h", "h">>, <<"l">>, <<"l", "l">>, <<"j">>},
            {"i", "u", "X", "b"}, {0, 5, -1, 100, -128, 2047})
MCDouble(n, d, neg) == [special |-> "", negative |-> neg, units |-> Rounded(n * UNIT, d)]
MCDoubles ==
  Asked({{}, {"0"}, {"-"}, {"+"}, {" "}, {"0", " "}, {"#", "-", "+"}}, {ABSENT, Number(4), Number(8)},
        {ABSENT, DOT, Number(1), Star(3)}, {<<>>}, {"f", "e", "G"},
        {MCDouble(n, 100, neg) : n \in 0 .. 110, neg \in BOOLEAN}
        \cup {MCDouble(n, 10, FALSE) : n \in {12, 95, 99, 100, 119, 985, 995, 999, 1000, 5004}}
        \cup {[special |-> "inf", negative |-> neg, units |-> 0] : neg \in BOOLEAN}
        \cup {[special |-> "nan", negative |-> FALSE, units |-> 0]})
Strings(chars, n) == UNION {[1 .. k -> chars] : k \in 0 .. n}
MCOthers ==
  Asked({{}, {"-"}, {"0", "+"}}, {ABSENT, Number(3), Star(-4)}, {ABSENT, DOT, Number(1), Star(2)},
        {<<>>}, {"s"}, {<<>>, <<"a">>, <<"b", "c">>})
  \cup Asked({{}, {"-"}}, {ABSENT, Number(3)}, {ABSENT}, {<<>>}, {"c"}, {"a", NUL})
  \cup Asked({{}}, {ABSENT}, {ABSENT}, {<<>>}, {"p"}, {0, 10, 4095})
  \cup [op : {"strtoul"}, s : Strings({32, 45, 48, 49, 57, 97, 120, 47}, 4) \cup Strings({49, 102, 121, 120}, 5),
        base : {0, 8, 10, 16, 35}]
  \cup [op : {"strtoul"}, s : Strings({48, 52, 54, 57}, 5), base : {10}]   \* about 4095
  \cup [op : {"strings"}, s : Strings({97, 98, 200}, 3), t : Strings({97, 98, 200}, 2), n : 0 .. 4,
        c : {0, 97}, mem : {<<1, 2, 3, 4, 5>>}]
  \cup [op : {"memory"}, mem : {<<1, 2, 3, 4, 5>>}, dest : 1 .. 3, src : 1 .. 3, n : 0 .. 3, c : {0, 9}]
  \cup UNION {[op : {"hash"}, s : [1 .. n -> 0 .. 2], t : [1 .. n -> {0, 3}], seed : {0, 9}] : n \in 0 .. 5}

(* The variable is named "H"; the firmware's number follows "v=".  *)
MCHeapLen == <<72>>
MCVcMemBase == <<118, 61>>
MCBootArgs ==
  [op : {"heapLen"}, envp : UNION {[1 .. k -> {<<72, 61, 49>>, <<72, 61, 48, 120, 49, 48>>, <<65, 61, 72>>, <<72, 61>>,
                                              <<72, 72, 61, 50>>}] : k \in 0 .. 3}]
  \cup [op : {"addCmdLine"}, argv : UNION {[1 .. k -> Strings({97, 98}, 2)] : k \in 0 .. 3},
        mem : {[i \in 1 .. 12 |-> 1]}]
  \cup [op : {"firmware"}, before : {<<>>, <<97, 32>>, <<118, 32, 61>>}, number : {<<49>>, <<48, 120, 49, 102>>},
        after : {<<>>, <<97>>, <<118, 61, 50>>}, user : Strings({32, 97, 118, 61}, 2)]

MCQuestions == MCIntegers \cup MCDoubles \cup MCOthers \cup MCBootArgs
=============================================================================
