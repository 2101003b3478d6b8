----------------------- MODULE MCFileLocationDatabase -----------------------
(* Location files for TLC: every sequence of up to MaxLines lines.             *)
EXTENDS FileLocationDatabase

CONSTANT MaxLines

\* -1 is a number to std::stoi, and UMax to Location.
SignedCosts == {2, -1}

FilesOf(kinds) ==
    UNION {[1 .. n -> [kind : kinds, name : Names, cost : Costs]] : n \in 0 .. MaxLines}

\* Files a careful operator writes, names listed twice included.
WellFormedFiles == FilesOf({"good"})

\* Files with a line that is not a number.
MistypedFiles == FilesOf({"good", "nan"})

\* Lines of which a location may be made, and others, of which no location is, so
\* that the name does not matter.  Bad lines come last: Load reads none after them.
GoodLine == [kind : {"good"}, name : Names, cost : {Max(Costs)}]

LastLines(kinds) ==
    [kind : kinds \cap {"good", "short"}, name : Names, cost : {Max(Costs)}] \cup
    [kind : kinds \ {"good", "short"}, name : {CHOOSE n \in Names : TRUE}, cost : {Max(Costs)}]

\* Files of up to n lines.
EndingIn(kinds, n) ==
    {<<>>} \cup
    UNION {{Append(f, line) : f \in [1 .. k - 1 -> GoodLine], line \in LastLines(kinds)} :
              k \in 1 .. n}

\* Files that end in a line of any kind, the longest without a short one; in a
\* file of one line the cost may be any.
AnyFiles ==
    EndingIn(Kinds, MaxLines - 1) \cup EndingIn(Kinds \ {"short"}, MaxLines) \cup
    {<<line>> : line \in [kind : {"good"}, name : Names, cost : Costs]}
==============================================================================
