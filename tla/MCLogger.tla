------------------------------ MODULE MCLogger ------------------------------
(* Numbers on both sides of zero and of a power of ten, a path with        *)
(* directories, and a statement too long for its buffer.                   *)
EXTENDS Logger

MCStatement(level, args, line) ==
    [level |-> level, func |-> "f", file |-> <<"a", "/", "b", "/", "c">>,
     line |-> line, args |-> args]

MCStatements ==
    {MCStatement("INFO", <<Num(-7), Text(<<"a", "long", "text", "of", "the", "user">>),
                         Num(-2147), Num(12)>>, 305),
     MCStatement("FATAL", <<Num(0), Text(<<"x">>), Num(-100)>>, 9)}
=============================================================================
