------------------------------- MODULE DsxText -------------------------------
(***************************************************************************)
(* How dsx_process_packet (src/daemon/dsx_protocol.c) finds instructions   *)
(* in a packet.  It does not parse the JSON: from where it stands it looks *)
(* for the next "Type", from there for the next "Parameters", from there   *)
(* for the next "[", whatever object they belong to.                       *)
(*                                                                         *)
(* A packet is the sequence of the tokens the search tells apart.          *)
(***************************************************************************)
EXTENDS Integers, Sequences, SequencesExt, CNumbers

CONSTANTS
    Word,           \* a value that is neither a number nor an array: true, null, "text"
    Missing         \* no "Parameters" at all

MaxNumbers == 16    \* the size of params

Type(value) == [tok |-> "Type", value |-> value]
Parameters == [tok |-> "Parameters"]
Array(values) == [tok |-> "[", values |-> values]

\* The first such token at or after i, or 0.
Find(text, i, tok) ==
    LET hits == {j \in i .. Len(text) : text[j].tok = tok}
    IN  IF hits = {} THEN 0 ELSE Min(hits)

\* strtol reads 0 from what is not a number.
TypeOf(value) == IF value = Word THEN 0 ELSE IntOf(value)

\* What is not a number is skipped, and those after it move up; the rest is left
\* when params is full.
json_parse_int_array(text, i) ==
    LET open == Find(text, i, "[")
        values == text[open].values
        out[k \in 0 .. Len(values)] ==
            IF k = 0 THEN <<>>
            ELSE IF values[k] = Word \/ Len(out[k - 1]) = MaxNumbers THEN out[k - 1]
            ELSE Append(out[k - 1], IntOf(values[k]))
    IN  IF open = 0 THEN <<>> ELSE out[Len(values)]

\* Where the search goes on: at "Parameters"; a parser would skip the array.
ResumeAfterArray(text, params) ==
    LET array == Find(text, params, "[") IN IF array = 0 THEN params + 1 ELSE array + 1
Resume(text, params) == params + 1

\* The instructions carried out when the search stands at token i: the token
\* of the type and its value, the token of the array and its numbers.
Carried(text) ==
    LET from[i \in 1 .. Len(text) + 1] ==
            LET type == Find(text, i, "Type")
                params == Find(text, type, "Parameters")
            IN  IF type = 0 THEN <<>>
                ELSE IF params = 0 THEN from[type + 1]
                ELSE <<[at |-> type, type |-> TypeOf(text[type].value),
                        array |-> Find(text, params, "["),
                        params |-> json_parse_int_array(text, params)]>>
                     \o from[Resume(text, params)]
    IN  from[1]

-----------------------------------------------------------------------------
\* What a mod writes: objects with a type and parameters in either order, the
\* parameters an array, something else (Word) or Missing.

Tokens(ins) ==
    LET value == IF ins.params = Missing THEN <<>>
                 ELSE IF ins.params = Word THEN <<Parameters>>
                 ELSE <<Parameters, Array(ins.params)>>
    IN  IF ins.typeFirst THEN <<Type(ins.type)>> \o value ELSE value \o <<Type(ins.type)>>

\* The token at which instruction k begins.
Start(packet, k) == 1 + Len(FlattenSeq([j \in 1 .. k - 1 |-> Tokens(packet[j])]))
Text(packet) == FlattenSeq([j \in DOMAIN packet |-> Tokens(packet[j])])

\* As the protocol has it: a number, then an array of numbers, none too large.
Regular(ins) ==
    /\ ins.typeFirst /\ ins.type # Word /\ IsInt(ins.type)
    /\ ins.params \notin {Missing, Word}
    /\ \A i \in DOMAIN ins.params : ins.params[i] # Word /\ IsInt(ins.params[i])
\* An instruction whose type is left looking for another's parameters.
Takes(ins) == ~ins.typeFirst \/ ins.params = Missing
=============================================================================
