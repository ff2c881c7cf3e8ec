------------------------------- MODULE Config -------------------------------
(* How a node comes to its ports: the configuration file is read line by     *)
(* line (Config::load), a list of ports is cut out of it                     *)
(* (Config::getPropertyList), and each piece is parsed and added to the list *)
(* of ports the session manager hands out (Node::initialize); before that it *)
(* gets the port it connects to (Config::getIntProperty).  A line is a       *)
(* sequence of characters.                                                   *)
EXTENDS Integers, Sequences, FiniteSets, SequencesExt

CONSTANTS Lines,      \* the lines a file may have
          MaxLines,   \* bound: lines of a file
          ListKey,    \* the property that holds the ports
          ServerKey,  \* the property that holds the port of the frontend
          PortValues, \* 65536 in the code: a port is cast to uint16_t
          IntLimit    \* 2^31 in the code: what an int just does not hold

ASSUME ConfigAssumption ==
  /\ Lines \subseteq Seq(STRING) /\ MaxLines \in Nat
  /\ PortValues \in Nat \ {0}
  /\ IntLimit \in Nat \ {0}

Digits == [c \in {"0", "1", "2", "3", "4", "5", "6", "7", "8", "9"} |->
             CASE c = "0" -> 0 [] c = "1" -> 1 [] c = "2" -> 2 [] c = "3" -> 3
               [] c = "4" -> 4 [] c = "5" -> 5 [] c = "6" -> 6 [] c = "7" -> 7
               [] c = "8" -> 8 [] c = "9" -> 9]

Comma == ","

Signs == {"+", "-"}

\* The white space that load leaves in a line.
Spaces == {"TAB", "VT", "FF", "CR"}

Ints == -IntLimit .. IntLimit - 1

VARIABLES lines,       \* history: the lines read
          properties,  \* _properties: values by name
          pieces,      \* pieces of the list still to be added
          usedPorts,   \* _usedPorts: the ports known, none of them in use
          serverPort,  \* the port the client connects to
          phase        \* "loading", "listing", "adding", "done"; "ended" when
                       \* an exception nobody catches ended the program

vars == <<lines, properties, pieces, usedPorts, serverPort, phase>>

-----------------------------------------------------------------------------
(* Config::load.                                                             *)

RemoveWhiteSpaces(source) ==
  FoldLeft(LAMBDA kept, c : IF c = " " THEN kept ELSE Append(kept, c), <<>>, source)

Positions(line, c) == {i \in DOMAIN line : line[i] = c}

\* find_first_of: 0 where the code has npos.
FindFirst(line, c) ==
  IF Positions(line, c) = {} THEN 0
  ELSE CHOOSE i \in Positions(line, c) : \A j \in Positions(line, c) : i <= j

FindLast(line, c) ==
  IF Positions(line, c) = {} THEN 0
  ELSE CHOOSE i \in Positions(line, c) : \A j \in Positions(line, c) : i >= j

\* Whether a line, its blanks removed, sets a property.
IsProperty(line) ==
  /\ line # <<>>
  /\ line[1] # "#"
  /\ Positions(line, "=") # {}

SplitAt(line, at) ==
  [name |-> SubSeq(line, 1, at - 1), value |-> SubSeq(line, at + 1, Len(line))]

PropertyAtLastSign(line) == SplitAt(line, FindLast(line, "="))

Property(line) == SplitAt(line, FindFirst(line, "="))

SetOnce(p) ==
  [n \in DOMAIN properties \cup {p.name} |->
     IF n \in DOMAIN properties THEN properties[n] ELSE p.value]

Set(p) ==
  [n \in DOMAIN properties \cup {p.name} |->
     IF n = p.name THEN p.value ELSE properties[n]]

ReadLine(raw) ==
  LET line == RemoveWhiteSpaces(raw) IN
  /\ phase = "loading"
  /\ Len(lines) < MaxLines
  /\ lines' = Append(lines, raw)
  /\ properties' = IF IsProperty(line) THEN Set(Property(line)) ELSE properties
  /\ UNCHANGED <<pieces, usedPorts, serverPort, phase>>

-----------------------------------------------------------------------------
(* The properties, as Node::initialize asks for them.                        *)

\* getProperty: "" where there is none.
GetProperty(key) == IF key \in DOMAIN properties THEN properties[key] ELSE <<>>

\* A piece ends before each delimiter, and one at the end of the content.
Split(content) ==
  FoldLeft(LAMBDA cut, c : IF c = Comma THEN Append(cut, <<>>)
                           ELSE Append(Front(cut), Append(Last(cut), c)),
           << <<>> >>, content)

SplitLosesLast(content) == Front(Split(content))

PropertyListLosesLast(key) ==
  IF key \in DOMAIN properties THEN SplitLosesLast(properties[key]) ELSE <<>>

\* getPropertyList.
PropertyList(key) == IF key \in DOMAIN properties THEN Split(properties[key]) ELSE <<>>

Decimal(digits) == FoldLeft(LAMBDA n, c : 10 * n + Digits[c], 0, digits)

\* The place after the characters of a set that stand from a place on.
Past(text, from, chars) ==
  CHOOSE to \in from .. Len(text) + 1 :
    /\ \A i \in from .. to - 1 : text[i] \in chars
    /\ to <= Len(text) => text[to] \notin chars

\* std::stoi: white space, at most one sign, digits, and anything after them.
\* Without digits, or when an int does not hold the number, it throws.
Number(piece) ==
  LET start  == Past(piece, 1, Spaces)
      signed == start <= Len(piece) /\ piece[start] \in Signs
      first  == IF signed THEN start + 1 ELSE start
      after  == Past(piece, first, DOMAIN Digits)
      size   == Decimal(SubSeq(piece, first, after - 1))
      value  == IF signed /\ piece[start] = "-" THEN -size ELSE size
  IN  [ok |-> first < after /\ value \in Ints, value |-> value]

\* Seeded fault: an empty value is parsed like any other.
IntPropertyParsed(key) == Number(GetProperty(key))

\* getIntProperty, with its default.
IntProperty(key) ==
  IF GetProperty(key) = <<>> THEN [ok |-> TRUE, value |-> 0] ELSE Number(GetProperty(key))

\* A value that std::stoi rejects throws past main.
GetServerPort ==
  /\ phase = "loading"
  /\ LET n == IntProperty(ServerKey) IN
     /\ serverPort' = IF n.ok THEN n.value % PortValues ELSE serverPort
     /\ phase' = IF n.ok THEN "listing" ELSE "ended"
  /\ UNCHANGED <<lines, properties, pieces, usedPorts>>

GetList ==
  /\ phase = "listing"
  /\ pieces' = PropertyList(ListKey)
  /\ phase' = "adding"
  /\ UNCHANGED <<lines, properties, usedPorts, serverPort>>

StopsAtBadPiece ==
  /\ phase = "adding"
  /\ pieces # <<>>
  /\ LET n == Number(Head(pieces)) IN
     /\ usedPorts' = IF n.ok THEN usedPorts \cup {n.value % PortValues} ELSE usedPorts
     /\ pieces' = IF n.ok THEN Tail(pieces) ELSE <<>>
  /\ UNCHANGED <<lines, properties, serverPort, phase>>

\* A piece that std::stoi rejects is reported and skipped.
AddPort ==
  /\ phase = "adding"
  /\ pieces # <<>>
  /\ LET n == Number(Head(pieces)) IN
     usedPorts' = IF n.ok THEN usedPorts \cup {n.value % PortValues} ELSE usedPorts
  /\ pieces' = Tail(pieces)
  /\ UNCHANGED <<lines, properties, serverPort, phase>>

Configured ==
  /\ phase = "adding"
  /\ pieces = <<>>
  /\ phase' = "done"
  /\ UNCHANGED <<lines, properties, pieces, usedPorts, serverPort>>

Init ==
  /\ lines = <<>> /\ properties = <<>> /\ pieces = <<>>
  /\ usedPorts = {} /\ serverPort = 0 /\ phase = "loading"

Next ==
  \/ \E line \in Lines : ReadLine(line)
  \/ GetServerPort
  \/ GetList
  \/ AddPort
  \/ Configured

Spec == Init /\ [][Next]_vars

-----------------------------------------------------------------------------
(* Properties, against definitions that look at a line as a whole.           *)

\* The names and values a line gives: none, or one where its first sign is.
Meaning(raw) ==
  LET line  == RemoveWhiteSpaces(raw)
      At(i) == <<SubSeq(line, 1, i - 1), SubSeq(line, i + 1, Len(line))>>
  IN  {At(i) : i \in {k \in Positions(line, "=") :
                        /\ line[1] # "#"
                        /\ Positions(SubSeq(line, 1, k - 1), "=") = {}}}

Names(raw) == {pair[1] : pair \in Meaning(raw)}

\* The properties are what the file says last of every name, and only that:
\* duplicates, comments, blanks, lines without a sign and further signs in a
\* value do not disturb it (load).
LastLineCounts ==
  {<<n, properties[n]>> : n \in DOMAIN properties} =
    UNION {{pair \in Meaning(lines[n]) :
              \A m \in n + 1 .. Len(lines) : pair[1] \notin Names(lines[m])}
           : n \in DOMAIN lines}

\* Where a list has its items: at its start and after each comma.
Starts(content) == {1} \cup {i + 1 : i \in Positions(content, Comma)}

\* The runs of digits, none left out at their end, that only white space and a
\* sign in front of them separate from a place.
DigitRuns(content, from) ==
  {run \in (DOMAIN content) \X (DOMAIN content) :
     /\ from <= run[1] /\ run[1] <= run[2]
     /\ \A i \in run[1]..run[2] : content[i] \in DOMAIN Digits
     /\ run[2] + 1 \in DOMAIN content => content[run[2] + 1] \notin DOMAIN Digits
     /\ \A i \in from .. run[1] - 1 :
          content[i] \in Spaces \/ (i = run[1] - 1 /\ content[i] \in Signs)}

Written(content, from, run) ==
  LET size == Decimal(SubSeq(content, run[1], run[2]))
  IN  IF from < run[1] /\ content[run[1] - 1] = "-" THEN -size ELSE size

\* What is written there and an int holds: no number, or one.
NumbersAt(content, from) ==
  {Written(content, from, run) : run \in DigitRuns(content, from)} \cap Ints

\* A node offers exactly the ports its list names, as 16-bit numbers: the last
\* piece counts like the others, an empty or malformed one or one that no int
\* holds costs no other port, and a list that is missing or empty is no port
\* (getPropertyList, initialize).
PortsAsWritten ==
  phase = "done" =>
    LET content == GetProperty(ListKey)
    IN  usedPorts = UNION {{n % PortValues : n \in NumbersAt(content, from)}
                             : from \in Starts(content)}

\* A node connects to the number its configuration begins with, or to 0 when it
\* says nothing, and ends at its start when it says something else or a number
\* that no int holds: no other value stops it (getIntProperty, initialize).
ServerPortAsWritten ==
  phase # "loading" =>
    LET content == GetProperty(ServerKey)
        numbers == NumbersAt(content, 1)
    IN  /\ phase = "ended" <=> content # <<>> /\ numbers = {}
        /\ \A n \in numbers : serverPort = n % PortValues
        /\ content = <<>> => serverPort = 0

\* Type invariant.
ConfigTypeOK ==
  /\ lines \in Seq(Lines) /\ Len(lines) <= MaxLines
  /\ \A n \in DOMAIN properties : Positions(n, "=") = {} /\ Positions(properties[n], " ") = {}
  /\ \A i \in DOMAIN pieces : Positions(pieces[i], Comma) = {}
  /\ usedPorts \subseteq 0 .. PortValues - 1
  /\ serverPort \in 0 .. PortValues - 1
  /\ phase \in {"loading", "listing", "adding", "done", "ended"}
=============================================================================
